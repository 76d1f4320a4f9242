---------------------------- MODULE Battle_proofs ----------------------------
(***************************************************************************)
(* Proofs about the battle, for a map of any size and any numbers: which   *)
(* tiles are taken and marked, what walking and attacking cost, and what   *)
(* cards a turn begins with.                                               *)
(***************************************************************************)
EXTENDS Battle, HexMap_proofs

----------------------------------------------------------------------------
(* Numbers, cards and walks. *)

LEMMA Smaller ==
    ASSUME NEW a \in Int, NEW b \in Int
    PROVE  Min({a, b}) = IF a <= b THEN a ELSE b
<1> DEFINE m == IF a <= b THEN a ELSE b
<1>1. m \in {a, b} /\ \A y \in {a, b} : m <= y
    OBVIOUS
<1>2. \A x \in {a, b} : (\A y \in {a, b} : x <= y) => x = m
    OBVIOUS
<1> HIDE DEF m
<1>3. Min({a, b}) = m
    BY <1>1, <1>2 DEF Min
<1> QED
    BY <1>3 DEF m

LEMMA CountType == ASSUME NEW bag \in [Card -> Nat], NEW c PROVE Count(bag, c) \in Nat
BY DEF Count

LEMMA TotalType == ASSUME NEW bag \in [Card -> Nat] PROVE Total(bag) \in Nat
BY CountType DEF Total

LEMMA PlusType ==
    ASSUME NEW a \in [Card -> Nat], NEW b \in [Card -> Nat]
    PROVE  Plus(a, b) \in [Card -> Nat] /\ Total(Plus(a, b)) = Total(a) + Total(b)
<1>1. Plus(a, b) \in [Card -> Nat]
    BY DEF Plus
<1>2. ASSUME NEW c PROVE Count(Plus(a, b), c) = Count(a, c) + Count(b, c)
    BY DEF Count, Plus
<1>3. \A c : Count(a, c) \in Nat /\ Count(b, c) \in Nat
    BY CountType
<1>4. Total(Plus(a, b)) = Total(a) + Total(b)
    BY <1>2, <1>3 DEF Total
<1> QED
    BY <1>1, <1>4

LEMMA SpawnedType ==
    ASSUME NEW n \in Nat, NEW new \in Spawned(n)
    PROVE  new \in [Card -> Nat] /\ Total(new) = n
BY DEF Spawned

LEMMA MoveType ==
    ASSUME NEW bag \in [Card -> Nat], NEW c \in Card, NEW n \in Int, bag[c] + n \in Nat
    PROVE  /\ Move(bag, c, n) \in [Card -> Nat]
           /\ \A d \in Card : Move(bag, c, n)[d] = IF d = c THEN bag[c] + n ELSE bag[d]
           /\ Total(Move(bag, c, n)) = Total(bag) + n
<1>1. /\ Move(bag, c, n) \in [Card -> Nat]
      /\ \A d \in Card : Move(bag, c, n)[d] = IF d = c THEN bag[c] + n ELSE bag[d]
    BY DEF Move
<1>2. \A d : Count(Move(bag, c, n), d) = IF d = c THEN Count(bag, d) + n ELSE Count(bag, d)
    BY <1>1 DEF Count
<1>3. \A d : Count(bag, d) \in Nat
    BY CountType
<1>4. c \in {"ATTACK", "FOOD", "LAMP", "OTHER"}
    BY BattleAssumption DEF BattleAssumption
<1>5. Total(Move(bag, c, n)) = Total(bag) + n
    BY <1>2, <1>3, <1>4 DEF Total
<1> QED
    BY <1>1, <1>5

\* What a frame of the player's turn finds in the pile and the hand: a card may have moved.
LEMMA DrawsType ==
    ASSUME pile \in [Card -> Nat], hand \in [Card -> Nat], NEW d \in Draws
    PROVE  /\ d[1] \in [Card -> Nat] /\ d[2] \in [Card -> Nat]
           /\ \A c \in Card : d[2][c] >= hand[c] /\ d[1][c] + d[2][c] = pile[c] + hand[c]
<1>1. CASE d = <<pile, hand>>
    BY <1>1
<1>2. ASSUME NEW c \in Card, pile[c] > 0, d = <<Move(pile, c, -1), Move(hand, c, 1)>>
      PROVE  /\ d[1] \in [Card -> Nat] /\ d[2] \in [Card -> Nat]
             /\ \A e \in Card : d[2][e] >= hand[e] /\ d[1][e] + d[2][e] = pile[e] + hand[e]
    <2>1. pile[c] + (-1) \in Nat /\ hand[c] + 1 \in Nat /\ -1 \in Int
        BY <1>2
    <2>2. /\ Move(pile, c, -1) \in [Card -> Nat]
          /\ \A e \in Card : Move(pile, c, -1)[e] = IF e = c THEN pile[c] + (-1) ELSE pile[e]
        BY <2>1, MoveType
    <2>3. /\ Move(hand, c, 1) \in [Card -> Nat]
          /\ \A e \in Card : Move(hand, c, 1)[e] = IF e = c THEN hand[c] + 1 ELSE hand[e]
        BY <2>1, MoveType
    <2> QED
        BY <1>2, <2>2, <2>3
<1> QED
    BY <1>1, <1>2 DEF Draws

LEMMA EmptyWalk == ASSUME NEW w \in Seq(Tile) PROVE Len(w) \in Nat /\ (w = <<>> <=> Len(w) = 0)
OBVIOUS

\* A unit that goes on to its next tile keeps its destination, and has a tile less to go.
LEMMA NextTile ==
    ASSUME NEW w \in Seq(Tile), w # <<>>
    PROVE  /\ Head(w) \in Tile /\ Tail(w) \in Seq(Tile)
           /\ Len(w) \in Nat \ {0} /\ Len(Tail(w)) = Len(w) - 1
           /\ Head(w) = w[1] /\ \A i \in 1..Len(Tail(w)) : Tail(w)[i] = w[i + 1]
           /\ (IF Tail(w) = <<>> THEN Head(w) ELSE Last(Tail(w))) = Last(w)
<1> DEFINE v == Tail(w)
<1>1. /\ Head(w) \in Tile /\ v \in Seq(Tile)
      /\ Len(w) \in Nat \ {0} /\ Len(v) = Len(w) - 1
      /\ Head(w) = w[1] /\ \A i \in 1..Len(v) : v[i] = w[i + 1]
    BY HeadTailProperties, EmptySeq
<1>2. Len(v) \in Nat /\ (v = <<>> <=> Len(v) = 0)
    BY <1>1, EmptyWalk, Zenon
<1> HIDE DEF v
<1>3. ASSUME v = <<>> PROVE Head(w) = Last(w)
    <2>1. Len(w) = 1
        BY <1>1, <1>2, <1>3
    <2>2. Last(w) = w[1]
        BY <2>1 DEF Last
    <2> QED
        BY <1>1, <2>2, Zenon
<1>4. ASSUME v # <<>> PROVE Last(v) = Last(w)
    <2>1. Len(v) \in 1..Len(v) /\ Len(v) + 1 = Len(w)
        BY <1>1, <1>2, <1>4
    <2> QED
        BY <1>1, <1>4, <2>1 DEF Last
<1>5. (IF v = <<>> THEN Head(w) ELSE Last(v)) = Last(w)
    BY <1>3, <1>4, Zenon
<1> QED
    BY <1>1, <1>5, Zenon DEF v

----------------------------------------------------------------------------
(* The map. *)

\* What a search over the tiles that are free in o finds.
LEMMA FoundIs ==
    ASSUME NEW from \in Tile, NEW o
    PROVE  Found[from][FreeIn(o)] = Distances(from, FreeIn(o))
<1>1. FreeIn(o) \in SUBSET Tile
    BY DEF FreeIn
<1> QED
    BY <1>1 DEF Found

\* The tiles in reach of an order to walk.
Reach(from, o, reach) ==
    LET D == Distances(from, FreeIn(o))
    IN  IF reach = 0 THEN {} ELSE {t \in DOMAIN D : D[t] <= reach}

\* highlight_reachable_tiles() marks the tiles in reach and no others, whatever was marked
\* before.
LEMMA MarksReach ==
    ASSUME NEW o, NEW from \in Tile, NEW reach \in Nat,
           highlight \in [Tile -> {"NONE", "ATTACKABLE", "MOVEABLE_AREA"}]
    PROVE  /\ Highlighted(o, from, reach) \in [Tile -> {"NONE", "ATTACKABLE", "MOVEABLE_AREA"}]
           /\ {t \in Tile : Highlighted(o, from, reach)[t] = "MOVEABLE_AREA"} = Reach(from, o, reach)
<1> DEFINE D == Distances(from, FreeIn(o))
           In(t) == (t = from /\ reach >= 1) \/ (t \in DOMAIN D /\ D[t] \in 1..reach)
           Rest(t) == IF highlight[t] = "MOVEABLE_AREA" THEN "NONE" ELSE highlight[t]
<1>1. /\ DOMAIN D \subseteq Tile /\ from \in DOMAIN D
      /\ \A t \in DOMAIN D : D[t] \in Nat /\ (D[t] = 0 <=> t = from)
    BY DistanceFacts
<1>2. Found[from][FreeIn(o)] = D
    BY FoundIs
<1> HIDE DEF D
<1>3. Highlighted(o, from, reach) = [t \in Tile |-> IF In(t) THEN "MOVEABLE_AREA" ELSE Rest(t)]
    BY <1>2 DEF Highlighted
<1>4. ASSUME NEW t \in Tile PROVE Rest(t) \in {"NONE", "ATTACKABLE"}
    OBVIOUS
<1>5. {t \in Tile : In(t)} = IF reach = 0 THEN {} ELSE {t \in DOMAIN D : D[t] <= reach}
    <2>1. CASE reach = 0
        BY <1>1, <2>1
    <2>2. CASE reach # 0
        <3>1. ASSUME NEW t \in Tile
              PROVE  In(t) <=> t \in DOMAIN D /\ D[t] <= reach
            BY <1>1, <2>2
        <3> HIDE DEF In
        <3> QED
            BY <1>1, <2>2, <3>1
    <2> QED
        BY <2>1, <2>2
<1> HIDE DEF In, Rest
<1>6. ASSUME NEW t \in Tile
      PROVE  Highlighted(o, from, reach)[t] = IF In(t) THEN "MOVEABLE_AREA" ELSE Rest(t)
    BY <1>3
<1>7. \A t \in Tile : Highlighted(o, from, reach)[t] = "MOVEABLE_AREA" <=> In(t)
    BY <1>4, <1>6
<1>8. Highlighted(o, from, reach) \in [Tile -> {"NONE", "ATTACKABLE", "MOVEABLE_AREA"}]
    BY <1>3, <1>4
<1>9. {t \in Tile : Highlighted(o, from, reach)[t] = "MOVEABLE_AREA"} = {t \in Tile : In(t)}
    BY <1>7
<1> QED
    BY <1>5, <1>8, <1>9 DEF Reach, D

\* The tiles when u holds `to` instead of `from`.
LEMMA TakenIs ==
    ASSUME occupiedBy \in [Tile -> Unit \cup {"campfire", "none"}],
           NEW u \in Unit, NEW from \in Tile, NEW to \in Tile, from # to
    PROVE  /\ Taken(u, from, to) \in [Tile -> Unit \cup {"campfire", "none"}]
           /\ \A t \in Tile : Taken(u, from, to)[t] =
                 IF t = to THEN u ELSE IF t = from THEN "none" ELSE occupiedBy[t]
<1> DEFINE once == [occupiedBy EXCEPT ![to] = u]
           twice == [once EXCEPT ![from] = "none"]
<1>1. Taken(u, from, to) = twice
    BY Zenon DEF Taken
<1>2. /\ once \in [Tile -> Unit \cup {"campfire", "none"}]
      /\ \A t \in Tile : once[t] = IF t = to THEN u ELSE occupiedBy[t]
    OBVIOUS
<1> HIDE DEF once
<1>3. /\ twice \in [Tile -> Unit \cup {"campfire", "none"}]
      /\ \A t \in Tile : twice[t] = IF t = from THEN "none" ELSE once[t]
    BY <1>2
<1> HIDE DEF twice
<1> QED
    BY <1>1, <1>2, <1>3

----------------------------------------------------------------------------
(* The inductive invariant. *)

\* The state is only changed by gamestate_changed(), which the frame's update asks for; the
\* player's turn is only entered from its beginning, and this from the beginning of a round.
Flow ==
    /\ phase = "game" => nextState = state
    /\ nextState = "TURN_PLAYER_IN_PROGRESS" => state \in {"TURN_PLAYER_BEGIN", "TURN_PLAYER_IN_PROGRESS"}
    /\ nextState = "TURN_PLAYER_BEGIN" => state \in {"ROUND_BEGIN", "TURN_PLAYER_BEGIN"}

\* From the beginning of a round on there are enough cards, and they are drawn before the
\* player's turn is asked for.
CardsReady ==
    /\ "TURN_PLAYER_BEGIN" \in {state, nextState} => Total(pile) + Total(hand) >= HandSize
    /\ (state = "TURN_PLAYER_BEGIN" /\ nextState = "TURN_PLAYER_IN_PROGRESS") => Total(pile) = 0

\* OneTileEach, tile by tile.
TilesHeld ==
    "order" \notin rushed =>
        \A t \in Tile : /\ \A u \in Unit : occupiedBy[t] = u <=> t = Destination(u)
                        /\ occupiedBy[t] = "campfire" <=> t = Camp

\* While the player's turn begins the player stands still, unless it did not when the turn
\* before ended.
StandsAtBegin == (state = "TURN_PLAYER_BEGIN" /\ "turn" \notin rushed) => walk["player"] = <<>>

\* The tiles that are marked are those in reach from where the player goes to: from when
\* its turn is asked for until it has ended.
MarksInReach ==
    ("TURN_PLAYER_IN_PROGRESS" \in {state, nextState} /\ "turn" \notin rushed) =>
        {t \in Tile : highlight[t] = "MOVEABLE_AREA"} = Reach(Destination("player"), occupiedBy, movement)

\* The steps of a turn, and the way ahead in it, are paid for from its very beginning.
PaidFromBegin ==
    (state \in {"TURN_PLAYER_BEGIN", "TURN_PLAYER_IN_PROGRESS"} /\ rushed = {}) =>
        steps + Len(walk["player"]) + movement = TurnMovement

\* The enemy neither holds the tile the player is on nor one on its way.
WayIsClear ==
    (state \in {"TURN_PLAYER_BEGIN", "TURN_PLAYER_IN_PROGRESS"} /\ rushed = {}) =>
        /\ occupiedBy[pos["player"]] # "enemy"
        /\ \A i \in 1..Len(walk["player"]) : occupiedBy[walk["player"][i]] # "enemy"

BoardInv == TilesHeld /\ StandsAtBegin /\ MarksInReach /\ PaidFromBegin /\ WayIsClear

BattleInv == BattleTypeOK /\ Flow /\ CardsReady /\ BoardInv

----------------------------------------------------------------------------
(* Types. *)

\* The part of the type invariant about the board, and the part about the cards.
BoardTyped ==
    /\ pos \in [Unit -> Tile] /\ walk \in [Unit -> Seq(Tile)]
    /\ occupiedBy \in [Tile -> Unit \cup {"campfire", "none"}]
    /\ highlight \in [Tile -> {"NONE", "ATTACKABLE", "MOVEABLE_AREA"}]
    /\ movement \in 0..TurnMovement
    /\ steps \in Nat /\ rushed \in SUBSET {"order", "turn"}

CardsTyped ==
    /\ hp \in [Unit -> Nat] /\ \A u \in Unit : hp[u] <= MaxHp[u]
    /\ pile \in [Card -> Nat] /\ hand \in [Card -> Nat]
    /\ selected \in Card \cup {NoCard} /\ (selected # NoCard => hand[selected] > 0)
    /\ placeable \in BOOLEAN

LEMMA TypeParts ==
    BattleTypeOK <=> /\ phase \in {"game", "walk", "switch"} /\ state \in State /\ nextState \in State
                     /\ BoardTyped /\ CardsTyped
BY Zenon DEF BattleTypeOK, BoardTyped, CardsTyped

LEMMA Constants ==
    /\ TurnMovement \in Nat /\ HandSize \in Nat /\ Damage \in Nat /\ Heal \in Nat
    /\ PlayerHp \in Nat /\ PlayerMax \in Nat /\ EnemyMax \in Nat /\ PlayerHp <= PlayerMax
    /\ Card \subseteq {"ATTACK", "FOOD", "LAMP", "OTHER"} /\ "ATTACK" \in Card /\ NoCard \notin Card
    /\ Camp \in Tile /\ PlayerStart \in Tile /\ EnemyStart \in Tile
    /\ Camp # PlayerStart /\ Camp # EnemyStart /\ PlayerStart # EnemyStart
BY BattleAssumption DEF BattleAssumption, NoCard

LEMMA MaxHpIs ==
    /\ MaxHp["player"] = PlayerMax /\ MaxHp["enemy"] = EnemyMax
    /\ \A u \in Unit : MaxHp[u] \in Nat
BY Constants DEF MaxHp, Unit

\* An order to walk: the goal is free, the way leads over free tiles to the goal, and has
\* the length that is paid for.
LEMMA WalkToStep ==
    ASSUME BoardTyped, NEW t, WalkTo(t)
    PROVE  LET w == walk'["player"]
           IN  /\ BoardTyped'
               /\ t \in Tile /\ t # pos["player"] /\ occupiedBy[t] = "none"
               /\ \A x \in Tile : occupiedBy'[x] =
                     IF x = t THEN "player" ELSE IF x = pos["player"] THEN "none" ELSE occupiedBy[x]
               /\ w # <<>> /\ Last(w) = t /\ walk'["enemy"] = walk["enemy"]
               /\ \A i \in 1..Len(w) : w[i] \in Tile /\ occupiedBy[w[i]] = "none"
               /\ Len(w) + movement' = movement
               /\ {x \in Tile : highlight'[x] = "MOVEABLE_AREA"} = Reach(t, occupiedBy', movement')
               /\ rushed' = rushed \cup Rush("player", "order")
               /\ UNCHANGED <<pos, steps>>
<1> DEFINE here == pos["player"]
           D == Distances(here, FreeIn(occupiedBy))
<1>1. here \in Tile /\ movement \in Nat /\ TurnMovement \in Nat
    BY Constants DEF BoardTyped, Unit
<1>2. Ways = D
    BY <1>1, FoundIs DEF Ways
<1>3. /\ DOMAIN D \subseteq Tile /\ DOMAIN D \subseteq FreeIn(occupiedBy) \cup {here}
      /\ \A x \in DOMAIN D : D[x] \in Nat /\ (D[x] = 0 <=> x = here)
    BY <1>1, DistanceFacts
<1>4. /\ t \in DOMAIN Ways /\ Ways[t] \in 1..movement
      /\ occupiedBy' = Taken("player", here, t)
      /\ movement' = movement - Ways[t]
      /\ highlight' = Highlighted(occupiedBy', t, movement')
      /\ \E path \in Paths(t) : walk' = [walk EXCEPT !.player = path]
      /\ rushed' = rushed \cup Rush("player", "order")
      /\ UNCHANGED <<pos, steps>>
    BY Zenon DEF WalkTo
<1>5. PICK path \in Paths(t) : walk' = [walk EXCEPT !.player = path]
    BY <1>4
<1>6. /\ path \in [1..Ways[t] -> DOMAIN Ways] /\ path[Ways[t]] = t
      /\ \A i \in 1..Ways[t] : Ways[path[i]] = i
    BY DEF Paths
<1> HIDE DEF D
<1>7. t \in Tile /\ t # here /\ occupiedBy[t] = "none" /\ D[t] \in Nat \ {0}
    <2>1. t \in DOMAIN D /\ D[t] \in 1..movement
        BY <1>2, <1>4
    <2>2. D[t] \in Nat \ {0} /\ t # here
        BY <1>1, <1>3, <2>1
    <2> QED
        BY <1>3, <2>1, <2>2 DEF FreeIn
<1>8. /\ path \in Seq(Tile) /\ Len(path) = D[t] /\ path # <<>>
      /\ Last(path) = t
      /\ \A i \in 1..Len(path) : path[i] \in Tile /\ occupiedBy[path[i]] = "none"
    <2>1. path \in [1..D[t] -> DOMAIN D] /\ path[D[t]] = t /\ \A i \in 1..D[t] : D[path[i]] = i
        BY <1>2, <1>6
    <2>2. path \in Seq(Tile) /\ Len(path) = D[t]
        BY <1>3, <1>7, <2>1
    <2>3. ASSUME NEW i \in 1..D[t] PROVE path[i] \in Tile /\ occupiedBy[path[i]] = "none"
        <3>1. path[i] \in DOMAIN D /\ D[path[i]] = i /\ i # 0
            BY <2>1
        <3>2. path[i] \in FreeIn(occupiedBy)
            BY <1>3, <3>1
        <3> QED
            BY <3>2 DEF FreeIn
    <2>4. path # <<>>
        BY <1>7, <2>2, EmptyWalk
    <2> QED
        BY <2>1, <2>2, <2>3, <2>4 DEF Last
<1>9. walk' \in [Unit -> Seq(Tile)] /\ walk'["player"] = path /\ walk'["enemy"] = walk["enemy"]
    BY <1>5, <1>8 DEF BoardTyped, Unit
<1>10. movement' \in 0..TurnMovement /\ movement' \in Nat /\ D[t] + movement' = movement
    <2>1. D[t] \in 1..movement /\ movement' = movement - D[t] /\ movement \in 0..TurnMovement
        BY <1>2, <1>4 DEF BoardTyped
    <2> QED
        BY <1>1, <1>7, <2>1
<1>11. /\ occupiedBy' \in [Tile -> Unit \cup {"campfire", "none"}]
       /\ \A x \in Tile : occupiedBy'[x] =
             IF x = t THEN "player" ELSE IF x = here THEN "none" ELSE occupiedBy[x]
    <2>1. occupiedBy \in [Tile -> Unit \cup {"campfire", "none"}] /\ "player" \in Unit
        BY DEF BoardTyped, Unit
    <2> QED
        BY <1>1, <1>4, <1>7, <2>1, TakenIs
<1>12. /\ highlight' \in [Tile -> {"NONE", "ATTACKABLE", "MOVEABLE_AREA"}]
       /\ {x \in Tile : highlight'[x] = "MOVEABLE_AREA"} = Reach(t, occupiedBy', movement')
    <2>1. highlight \in [Tile -> {"NONE", "ATTACKABLE", "MOVEABLE_AREA"}]
        BY DEF BoardTyped
    <2>2. PICK o, m : o = occupiedBy' /\ m = movement'
        OBVIOUS
    <2>3. /\ Highlighted(o, t, m) \in [Tile -> {"NONE", "ATTACKABLE", "MOVEABLE_AREA"}]
          /\ {x \in Tile : Highlighted(o, t, m)[x] = "MOVEABLE_AREA"} = Reach(t, o, m)
        BY <1>7, <1>10, <2>1, <2>2, MarksReach
    <2>4. highlight' = Highlighted(o, t, m)
        BY <1>4, <2>2
    <2> QED
        BY <2>2, <2>3, <2>4
<1>13. BoardTyped'
    <2>1. rushed' \in SUBSET {"order", "turn"}
        BY <1>4 DEF BoardTyped, Rush
    <2> QED
        BY <1>4, <1>9, <1>10, <1>11, <1>12, <2>1 DEF BoardTyped
<1> QED
    BY <1>4, <1>7, <1>8, <1>9, <1>10, <1>11, <1>12, <1>13

\* Health that is lost or regained stays between 0 and what the unit has at most.
LEMMA HurtType ==
    ASSUME hp \in [Unit -> Nat], \A u \in Unit : hp[u] <= MaxHp[u], NEW victim
    PROVE  /\ Hurt(victim) \in [Unit -> Nat]
           /\ \A u \in Unit : Hurt(victim)[u] <= MaxHp[u] /\ (u # victim => Hurt(victim)[u] = hp[u])
<1>1. ASSUME NEW u \in Unit
      PROVE  hp[u] - Min({hp[u], Damage}) \in Nat /\ hp[u] - Min({hp[u], Damage}) <= MaxHp[u]
    <2>1. Min({hp[u], Damage}) = IF hp[u] <= Damage THEN hp[u] ELSE Damage
        BY Constants, Smaller
    <2> QED
        BY <2>1, Constants, MaxHpIs
<1> QED
    BY <1>1 DEF Hurt

LEMMA HealType ==
    ASSUME CardsTyped
    PROVE  LET fed == [hp EXCEPT !.player = IF selected = "FOOD" THEN Min({@ + Heal, MaxHp["player"]}) ELSE @]
           IN  /\ fed \in [Unit -> Nat]
               /\ \A u \in Unit : fed[u] <= MaxHp[u]
               /\ fed["enemy"] = hp["enemy"]
<1> DEFINE more == Min({hp["player"] + Heal, MaxHp["player"]})
           now == IF selected = "FOOD" THEN more ELSE hp["player"]
<1>1. hp \in [Unit -> Nat] /\ (\A u \in Unit : hp[u] <= MaxHp[u]) /\ hp["player"] \in Nat
    BY DEF CardsTyped, Unit
<1>2. more \in Nat /\ more <= MaxHp["player"]
    <2>1. more = IF hp["player"] + Heal <= MaxHp["player"] THEN hp["player"] + Heal ELSE MaxHp["player"]
        BY <1>1, Constants, MaxHpIs, Smaller
    <2> QED
        BY <1>1, <2>1, Constants, MaxHpIs
<1>3. now \in Nat /\ now <= MaxHp["player"]
    BY <1>1, <1>2 DEF Unit
<1>4. [hp EXCEPT !.player = IF selected = "FOOD" THEN Min({@ + Heal, MaxHp["player"]}) ELSE @]
        = [hp EXCEPT !["player"] = now]
    OBVIOUS
<1> HIDE DEF now
<1>5. /\ [hp EXCEPT !["player"] = now] \in [Unit -> Nat]
      /\ \A u \in Unit : [hp EXCEPT !["player"] = now][u] <= MaxHp[u]
      /\ [hp EXCEPT !["player"] = now]["enemy"] = hp["enemy"]
    BY <1>1, <1>3 DEF Unit
<1> QED
    BY <1>4, <1>5

\* A card is let go of, played or not; a lamp spawns two.
LEMMA ReleaseStep ==
    ASSUME CardsTyped, NEW p \in [Card -> Nat], NEW h \in [Card -> Nat],
           \A c \in Card : h[c] >= hand[c], NEW over, Release(p, h, over)
    PROVE  CardsTyped' /\ hp'["enemy"] = hp["enemy"]
<1>1. selected \in Card /\ h[selected] - 1 \in Nat /\ h[selected] + (-1) \in Nat
    BY DEF Release, CardsTyped
<1>2. hp' \in [Unit -> Nat] /\ (\A u \in Unit : hp'[u] <= MaxHp[u]) /\ hp'["enemy"] = hp["enemy"]
    <2>1. CASE placeable
        BY <2>1, HealType DEF Release
    <2>2. CASE ~placeable
        BY <2>2 DEF Release, CardsTyped
    <2> QED
        BY <2>1, <2>2
<1>3. hand' \in [Card -> Nat]
    <2>1. CASE placeable
        <3>1. hand' = Move(h, selected, -1)
            BY <2>1 DEF Release
        <3> QED
            BY <1>1, <3>1, MoveType
    <2>2. CASE ~placeable
        BY <2>2 DEF Release
    <2> QED
        BY <2>1, <2>2
<1>4. pile' \in [Card -> Nat]
    <2>1. CASE placeable /\ selected = "LAMP"
        <3>1. PICK new \in Spawned(2) : pile' = Plus(p, new)
            BY <2>1 DEF Release
        <3> QED
            BY <3>1, SpawnedType, PlusType
    <2>2. CASE ~(placeable /\ selected = "LAMP")
        BY <2>2 DEF Release
    <2> QED
        BY <2>1, <2>2
<1>5. selected' = NoCard /\ placeable' = FALSE
    BY DEF Release
<1> QED
    BY <1>2, <1>3, <1>4, <1>5 DEF CardsTyped

\* What a frame of the player's turn does to the cards ...
LEMMA TurnCards == CardsTyped /\ PlayerTurn => CardsTyped'
<1> SUFFICES ASSUME CardsTyped, PlayerTurn PROVE CardsTyped'
    OBVIOUS
<1>1. PICK d \in Draws :
        LET p == d[1]
            h == d[2]
        IN  \/ NoInput(p, h) \/ ClickEnd(p, h) \/ PickNone(p, h)
            \/ \E c \in Card : PickUp(p, h, c)
            \/ \E over \in BOOLEAN : Drag(p, h, over) \/ Release(p, h, over)
            \/ \E t \in Tile : ClickFreeTile(p, h, t) \/ ClickFar(p, h, t) \/ Attack(p, h, t)
    BY Zenon DEF PlayerTurn
<1> DEFINE p == d[1]
           h == d[2]
<1>2. p \in [Card -> Nat] /\ h \in [Card -> Nat] /\ \A c \in Card : h[c] >= hand[c]
    BY DrawsType DEF CardsTyped
<1> HIDE DEF p, h
<1>3. CASE NoInput(p, h) \/ ClickEnd(p, h) \/ PickNone(p, h)
    BY <1>2, <1>3 DEF NoInput, ClickEnd, PickNone, CardsTyped
<1>4. ASSUME NEW c \in Card, PickUp(p, h, c) PROVE CardsTyped'
    BY <1>2, <1>4 DEF PickUp, CardsTyped
<1>5. ASSUME NEW over \in BOOLEAN, Drag(p, h, over) PROVE CardsTyped'
    BY <1>2, <1>5 DEF Drag, CardsTyped
<1>6. ASSUME NEW over \in BOOLEAN, Release(p, h, over) PROVE CardsTyped'
    BY <1>2, <1>6, ReleaseStep
<1>7. ASSUME NEW t \in Tile, ClickFreeTile(p, h, t) \/ ClickFar(p, h, t) PROVE CardsTyped'
    BY <1>2, <1>7 DEF ClickFreeTile, ClickFar, CardsTyped
<1>8. ASSUME NEW t \in Tile, Attack(p, h, t) PROVE CardsTyped'
    <2>1. /\ selected = NoCard /\ h["ATTACK"] > 0 /\ hand' = Move(h, "ATTACK", -1) /\ pile' = p
          /\ hp' = Hurt(occupiedBy[t]) /\ selected' = selected /\ placeable' = placeable
        BY <1>8 DEF Attack
    <2>2. hand' \in [Card -> Nat]
        <3>1. "ATTACK" \in Card /\ h["ATTACK"] + (-1) \in Nat
            BY <1>2, <2>1, Constants
        <3> QED
            BY <1>2, <2>1, <3>1, MoveType
    <2>3. hp' \in [Unit -> Nat] /\ \A u \in Unit : hp'[u] <= MaxHp[u]
        BY <2>1, HurtType DEF CardsTyped
    <2> QED
        BY <1>2, <2>1, <2>2, <2>3 DEF CardsTyped
<1> QED
    BY <1>1, <1>3, <1>4, <1>5, <1>6, <1>7, <1>8 DEF p, h

\* ... and to the board: nothing, or an order to walk.
LEMMA TurnBoard ==
    ASSUME PlayerTurn
    PROVE  /\ phase = "game" /\ state = "TURN_PLAYER_IN_PROGRESS"
           /\ phase' = "walk" /\ state' = state
           /\ nextState' \in {nextState, "TURN_PLAYER_END"}
           /\ UNCHANGED <<board, history>> \/ (nextState' = nextState /\ \E t : WalkTo(t))
<1>1. PICK d \in Draws :
        LET p == d[1]
            h == d[2]
        IN  \/ NoInput(p, h) \/ ClickEnd(p, h) \/ PickNone(p, h)
            \/ \E c \in Card : PickUp(p, h, c)
            \/ \E over \in BOOLEAN : Drag(p, h, over) \/ Release(p, h, over)
            \/ \E t \in Tile : ClickFreeTile(p, h, t) \/ ClickFar(p, h, t) \/ Attack(p, h, t)
    BY Zenon DEF PlayerTurn
<1> DEFINE p == d[1]
           h == d[2]
           Goal == /\ nextState' \in {nextState, "TURN_PLAYER_END"}
                   /\ UNCHANGED <<board, history>> \/ (nextState' = nextState /\ \E t : WalkTo(t))
<1> HIDE DEF p, h
<1>2. phase = "game" /\ state = "TURN_PLAYER_IN_PROGRESS" /\ phase' = "walk" /\ state' = state
    BY DEF PlayerTurn, Turn, Game
<1>3. ASSUME NoInput(p, h) \/ ClickEnd(p, h) \/ PickNone(p, h) PROVE Goal
    <2>1. CASE NoInput(p, h)
        BY <2>1, Zenon DEF NoInput
    <2>2. CASE ClickEnd(p, h)
        BY <2>2, Zenon DEF ClickEnd
    <2>3. CASE PickNone(p, h)
        BY <2>3, Zenon DEF PickNone
    <2> QED
        BY <1>3, <2>1, <2>2, <2>3
<1>4. ASSUME NEW c \in Card, PickUp(p, h, c) PROVE Goal
    BY <1>4, Zenon DEF PickUp
<1>5. ASSUME NEW over \in BOOLEAN, Drag(p, h, over) \/ Release(p, h, over) PROVE Goal
    <2>1. CASE Drag(p, h, over)
        BY <2>1, Zenon DEF Drag
    <2>2. CASE Release(p, h, over)
        BY <2>2, Zenon DEF Release
    <2> QED
        BY <1>5, <2>1, <2>2
<1>6. ASSUME NEW t \in Tile, ClickFreeTile(p, h, t) PROVE Goal
    BY <1>6, Zenon DEF ClickFreeTile
<1>7. ASSUME NEW t \in Tile, ClickFar(p, h, t) PROVE Goal
    BY <1>7, Zenon DEF ClickFar
<1>8. ASSUME NEW t \in Tile, Attack(p, h, t) PROVE Goal
    BY <1>8, Zenon DEF Attack
<1> HIDE DEF Goal
<1>9. Goal
    BY <1>1, <1>3, <1>4, <1>5, <1>6, <1>7, <1>8, Zenon DEF p, h
<1> QED
    BY <1>2, <1>9 DEF Goal

----------------------------------------------------------------------------
(* The steps that move units. *)

\* system_move_along_path(): a unit that goes on has one tile less to go, and each goes to
\* where it went.
LEMMA WalkStep ==
    ASSUME BoardTyped, Walk
    PROVE  LET w == walk["player"]
           IN  /\ BoardTyped'
               /\ \A u \in Unit : Destination(u)' = Destination(u)
               /\ w = <<>> => walk'["player"] = <<>>
               /\ \/ pos'["player"] = pos["player"] /\ walk'["player"] = w /\ steps' = steps
                  \/ /\ w # <<>> /\ pos'["player"] = w[1] /\ walk'["player"] = Tail(w)
                     /\ steps' = IF rushed = {} THEN steps + 1 ELSE steps
<1>1. PICK going \in SUBSET {u \in Unit : walk[u] # <<>>} :
          /\ pos' = [u \in Unit |-> IF u \in going THEN Head(walk[u]) ELSE pos[u]]
          /\ walk' = [u \in Unit |-> IF u \in going THEN Tail(walk[u]) ELSE walk[u]]
          /\ steps' = IF "player" \in going /\ rushed = {} THEN steps + 1 ELSE steps
    BY DEF Walk
<1>2. pos \in [Unit -> Tile] /\ walk \in [Unit -> Seq(Tile)] /\ "player" \in Unit /\ steps \in Nat
    BY DEF BoardTyped, Unit
<1>3. ASSUME NEW u \in Unit, u \in going
      PROVE  /\ walk[u] # <<>>
             /\ pos'[u] \in Tile /\ walk'[u] \in Seq(Tile)
             /\ pos'[u] = walk[u][1] /\ walk'[u] = Tail(walk[u])
             /\ Destination(u)' = Destination(u)
    <2>1. walk[u] \in Seq(Tile) /\ walk[u] # <<>> /\ pos'[u] = Head(walk[u]) /\ walk'[u] = Tail(walk[u])
        BY <1>1, <1>2, <1>3
    <2>2. /\ Head(walk[u]) \in Tile /\ Tail(walk[u]) \in Seq(Tile) /\ Head(walk[u]) = walk[u][1]
          /\ (IF Tail(walk[u]) = <<>> THEN Head(walk[u]) ELSE Last(Tail(walk[u]))) = Last(walk[u])
        BY <2>1, NextTile, Zenon
    <2>3. Destination(u)' = Destination(u)
        BY <2>1, <2>2, Zenon DEF Destination
    <2> QED
        BY <2>1, <2>2, <2>3, Zenon
<1>4. ASSUME NEW u \in Unit, u \notin going
      PROVE  /\ pos'[u] = pos[u] /\ walk'[u] = walk[u]
             /\ Destination(u)' = Destination(u)
    <2>1. pos'[u] = pos[u] /\ walk'[u] = walk[u]
        BY <1>1, <1>4
    <2> QED
        BY <2>1, Zenon DEF Destination
<1>5. pos' \in [Unit -> Tile] /\ walk' \in [Unit -> Seq(Tile)]
    <2>1. \A u \in Unit : pos'[u] \in Tile /\ walk'[u] \in Seq(Tile)
        BY <1>2, <1>3, <1>4
    <2>2. DOMAIN pos' = Unit /\ DOMAIN walk' = Unit /\ pos' = [u \in Unit |-> pos'[u]]
          /\ walk' = [u \in Unit |-> walk'[u]]
        BY <1>1
    <2> QED
        BY <2>1, <2>2
<1>6. BoardTyped'
    BY <1>1, <1>2, <1>5 DEF Walk, BoardTyped
<1>7. CASE "player" \in going
    <2>1. /\ walk["player"] # <<>> /\ pos'["player"] = walk["player"][1]
          /\ walk'["player"] = Tail(walk["player"])
        BY <1>2, <1>3, <1>7
    <2>2. steps' = IF rushed = {} THEN steps + 1 ELSE steps
        BY <1>1, <1>7
    <2> QED
        BY <1>3, <1>4, <1>6, <2>1, <2>2
<1>8. CASE "player" \notin going
    <2>1. pos'["player"] = pos["player"] /\ walk'["player"] = walk["player"] /\ steps' = steps
        BY <1>1, <1>2, <1>4, <1>8
    <2> QED
        BY <1>3, <1>4, <1>6, <2>1
<1> QED
    BY <1>7, <1>8

\* system_enemy_turn(): the enemy stays, or leaves its tile for one that is free.
LEMMA EnemyStep ==
    ASSUME BoardTyped, EnemyTurn
    PROVE  /\ BoardTyped'
           /\ \/ UNCHANGED <<pos, walk, occupiedBy, rushed>>
              \/ \E t \in Tile :
                    /\ occupiedBy[t] = "none"
                    /\ walk'["enemy"] = <<t>> /\ walk'["player"] = walk["player"]
                    /\ pos' = pos
                    /\ t # pos["enemy"] =>
                         \A x \in Tile : occupiedBy'[x] =
                            IF x = t THEN "enemy" ELSE IF x = pos["enemy"] THEN "none" ELSE occupiedBy[x]
                    /\ rushed' = rushed \cup Rush("enemy", "order")
<1> DEFINE here == pos["enemy"]
           open == Edges[here] \cap FreeIn(occupiedBy)
<1>1. /\ here \in Tile /\ "enemy" \in Unit /\ "player" \in Unit
      /\ walk \in [Unit -> Seq(Tile)]
      /\ occupiedBy \in [Tile -> Unit \cup {"campfire", "none"}]
      /\ highlight \in [Tile -> {"NONE", "ATTACKABLE", "MOVEABLE_AREA"}]
    BY DEF BoardTyped, Unit
<1>2. CASE UNCHANGED <<board, history>>
    BY <1>2 DEF board, history, BoardTyped
<1>3. ASSUME NEW t \in open,
             walk' = [walk EXCEPT !.enemy = <<t>>],
             occupiedBy' = Taken("enemy", here, t),
             highlight' = [highlight EXCEPT ![t] = "ATTACKABLE", ![here] = "NONE"],
             rushed' = rushed \cup Rush("enemy", "order"),
             UNCHANGED <<pos, movement, steps>>
      PROVE  /\ BoardTyped'
             /\ \E t2 \in Tile :
                   /\ occupiedBy[t2] = "none"
                   /\ walk'["enemy"] = <<t2>> /\ walk'["player"] = walk["player"]
                   /\ pos' = pos
                   /\ t2 # here =>
                        \A x \in Tile : occupiedBy'[x] =
                           IF x = t2 THEN "enemy" ELSE IF x = here THEN "none" ELSE occupiedBy[x]
                   /\ rushed' = rushed \cup Rush("enemy", "order")
    <2>1. t \in Tile /\ occupiedBy[t] = "none"
        BY DEF FreeIn
    <2>2. <<t>> \in Seq(Tile)
        BY <2>1
    <2>3. /\ walk' \in [Unit -> Seq(Tile)]
          /\ walk'["enemy"] = <<t>> /\ walk'["player"] = walk["player"]
        BY <1>1, <1>3, <2>2
    <2>4. t # here =>
              \A x \in Tile : occupiedBy'[x] =
                 IF x = t THEN "enemy" ELSE IF x = here THEN "none" ELSE occupiedBy[x]
        BY <1>1, <1>3, <2>1, TakenIs
    <2>5. occupiedBy' \in [Tile -> Unit \cup {"campfire", "none"}]
        BY <1>1, <1>3, Zenon DEF Taken
    <2>6. highlight' \in [Tile -> {"NONE", "ATTACKABLE", "MOVEABLE_AREA"}]
        BY <1>1, <1>3, Zenon
    <2>7. rushed' \in SUBSET {"order", "turn"}
        BY <1>3 DEF BoardTyped, Rush
    <2>8. BoardTyped'
        BY <1>3, <2>3, <2>5, <2>6, <2>7 DEF BoardTyped
    <2> QED
        BY <1>3, <2>1, <2>3, <2>4, <2>8
<1>4. \/ UNCHANGED <<board, history>>
      \/ \E t \in open :
            /\ walk' = [walk EXCEPT !.enemy = <<t>>]
            /\ occupiedBy' = Taken("enemy", here, t)
            /\ highlight' = [highlight EXCEPT ![t] = "ATTACKABLE", ![here] = "NONE"]
            /\ rushed' = rushed \cup Rush("enemy", "order")
            /\ UNCHANGED <<pos, movement, steps>>
    BY Zenon DEF EnemyTurn
<1>5. CASE UNCHANGED <<board, history>>
    BY <1>2, <1>5, Zenon DEF board, history
<1> QED
    BY <1>3, <1>4, <1>5

----------------------------------------------------------------------------
(* The invariant is kept. *)

\* The states of After, and what they lead to, are states.
LEMMA AfterType ==
    ASSUME NEW s \in DOMAIN After
    PROVE  /\ s \in State /\ After[s] \in State
           /\ s \in {"BATTLE_BEGIN", "TURN_ENTITY_BEGIN", "TURN_ENTITY_IN_PROGRESS", "TURN_ENTITY_END", "ROUND_END"}
           /\ After[s] \in {"ROUND_BEGIN", "TURN_ENTITY_IN_PROGRESS", "TURN_ENTITY_END", "ROUND_END"}
<1>1. DOMAIN After = {"BATTLE_BEGIN", "TURN_ENTITY_BEGIN", "TURN_ENTITY_IN_PROGRESS", "TURN_ENTITY_END", "ROUND_END"}
    BY DEF After
<1>2. /\ After["BATTLE_BEGIN"] = "ROUND_BEGIN"
      /\ After["TURN_ENTITY_BEGIN"] = "TURN_ENTITY_IN_PROGRESS"
      /\ After["TURN_ENTITY_IN_PROGRESS"] = "TURN_ENTITY_END"
      /\ After["TURN_ENTITY_END"] = "ROUND_END"
      /\ After["ROUND_END"] = "ROUND_BEGIN"
    BY DEF After
<1> QED
    BY <1>1, <1>2 DEF State

LEMMA SomeStates ==
    {"ROUND_BEGIN", "TURN_PLAYER_BEGIN", "TURN_PLAYER_IN_PROGRESS", "TURN_PLAYER_END",
     "TURN_ENTITY_BEGIN", "BATTLE_BEGIN"} \subseteq State
<1>1. {"TURN_ENTITY_BEGIN", "BATTLE_BEGIN"} \subseteq DOMAIN After
    BY DEF After
<1> QED
    BY <1>1 DEF State

\* The part of a step that says which call of the frame it is.
Stage ==
    \/ phase = "game" /\ phase' = "walk" /\ state' = state
    \/ phase = "walk" /\ phase' \in {"switch", "game"} /\ UNCHANGED <<state, nextState>>
       /\ (phase' = "game" => nextState = state)
    \/ phase = "switch" /\ phase' = "game" /\ state' = nextState /\ nextState' = nextState

LEMMA StageStep == ASSUME BattleTypeOK, Next PROVE Stage /\ nextState' \in State
<1>1. nextState \in State
    BY DEF BattleTypeOK
<1>2. CASE Lead
    BY <1>2, AfterType DEF Lead, Game, Stage
<1>3. CASE RoundBegin
    BY <1>3, SomeStates DEF RoundBegin, Game, Stage
<1>4. CASE Draw
    BY <1>1, <1>4 DEF Draw, Game, Stage
<1>5. CASE Drawn
    BY <1>5, SomeStates DEF Drawn, Game, Stage
<1>6. CASE NotYet
    BY <1>1, <1>6 DEF NotYet, Game, Stage
<1>7. CASE PlayerTurn
    BY <1>1, <1>7, TurnBoard, SomeStates DEF Stage
<1>8. CASE PlayerEnd
    BY <1>8, SomeStates DEF PlayerEnd, Game, Stage
<1>9. CASE Walk
    BY <1>1, <1>9 DEF Walk, Stage
<1>10. CASE SwitchOnly
    BY <1>1, <1>10 DEF SwitchOnly, Switch, Stage
<1>11. CASE GrantMovement
    BY <1>1, <1>11 DEF GrantMovement, Switch, Stage
<1>12. CASE EnemyTurn
    BY <1>1, <1>12 DEF EnemyTurn, Switch, Stage
<1> QED
    BY <1>2, <1>3, <1>4, <1>5, <1>6, <1>7, <1>8, <1>9, <1>10, <1>11, <1>12 DEF Next

LEMMA FlowStep == ASSUME BattleTypeOK, Flow, Next PROVE Flow'
<1>1. Stage
    BY StageStep
<1>2. CASE Lead
    BY <1>1, <1>2, AfterType DEF Lead, Game, Flow
<1>3. CASE RoundBegin
    BY <1>3 DEF RoundBegin, Game, Flow
<1>4. CASE Draw
    BY <1>4 DEF Draw, Game, Flow
<1>5. CASE Drawn
    BY <1>5 DEF Drawn, Game, Flow
<1>6. CASE NotYet
    BY <1>6 DEF NotYet, Game, Flow
<1>7. CASE PlayerTurn
    BY <1>7, TurnBoard DEF Flow
<1>8. CASE PlayerEnd
    BY <1>8 DEF PlayerEnd, Game, Flow
<1>9. CASE Walk
    BY <1>9 DEF Walk, Flow
<1>10. CASE SwitchOnly \/ GrantMovement \/ EnemyTurn
    <2>1. phase' = "game" /\ state' = nextState /\ nextState' = nextState
        BY <1>10 DEF SwitchOnly, GrantMovement, EnemyTurn, Switch
    <2> QED
        BY <2>1 DEF Flow
<1> QED
    BY <1>2, <1>3, <1>4, <1>5, <1>6, <1>7, <1>8, <1>9, <1>10 DEF Next

\* Cards are spawned and drawn with their types.
LEMMA RoundBeginCards ==
    ASSUME CardsTyped, RoundBegin
    PROVE  CardsTyped' /\ hand' = hand /\ Total(pile') + Total(hand') >= HandSize
<1> DEFINE number == Total(pile) + Total(hand)
           wanted == IF number < HandSize THEN HandSize - number ELSE 0
<1>1. pile \in [Card -> Nat] /\ hand \in [Card -> Nat] /\ number \in Nat /\ wanted \in Nat
    BY TotalType, Constants DEF CardsTyped
<1>2. PICK new \in Spawned(wanted) : pile' = Plus(pile, new)
    BY DEF RoundBegin
<1>3. hand' = hand /\ UNCHANGED <<hp, selected, placeable>>
    BY DEF RoundBegin
<1> HIDE DEF wanted
<1>4. pile' \in [Card -> Nat] /\ Total(pile') = Total(pile) + wanted
    BY <1>1, <1>2, SpawnedType, PlusType
<1>5. Total(pile') + Total(hand') >= HandSize
    BY <1>1, <1>3, <1>4, TotalType, Constants DEF wanted
<1> QED
    BY <1>3, <1>4, <1>5 DEF CardsTyped

LEMMA DrawCards ==
    ASSUME CardsTyped, Draw
    PROVE  CardsTyped' /\ Total(pile') + Total(hand') = Total(pile) + Total(hand)
<1>1. PICK c \in Card : pile[c] > 0 /\ pile' = Move(pile, c, -1) /\ hand' = Move(hand, c, 1)
    BY DEF Draw
<1>2. pile \in [Card -> Nat] /\ hand \in [Card -> Nat] /\ pile[c] + (-1) \in Nat /\ hand[c] + 1 \in Nat
    BY <1>1 DEF CardsTyped
<1>3. /\ pile' \in [Card -> Nat] /\ Total(pile') = Total(pile) + (-1)
    BY <1>1, <1>2, MoveType
<1>4. /\ hand' \in [Card -> Nat] /\ Total(hand') = Total(hand) + 1
      /\ \A d \in Card : hand'[d] >= hand[d]
    <2>1. /\ hand' \in [Card -> Nat] /\ Total(hand') = Total(hand) + 1
          /\ \A d \in Card : hand'[d] = IF d = c THEN hand[c] + 1 ELSE hand[d]
        BY <1>1, <1>2, MoveType
    <2> QED
        BY <1>2, <2>1
<1>5. UNCHANGED <<hp, selected, placeable>>
    BY DEF Draw
<1>6. CardsTyped'
    BY <1>2, <1>3, <1>4, <1>5 DEF CardsTyped
<1> QED
    BY <1>2, <1>3, <1>4, <1>6, TotalType

LEMMA CardsStep == ASSUME CardsTyped, Next PROVE CardsTyped'
<1>1. CASE UNCHANGED <<hp, cards>>
    BY <1>1 DEF cards, CardsTyped
<1>2. CASE RoundBegin
    BY <1>2, RoundBeginCards
<1>3. CASE Draw
    BY <1>3, DrawCards
<1>4. CASE PlayerTurn
    BY <1>4, TurnCards
<1>5. CASE Lead \/ Drawn \/ NotYet \/ PlayerEnd \/ Walk
    BY <1>1, <1>5 DEF Lead, Drawn, NotYet, PlayerEnd, Walk
<1>6. CASE SwitchOnly \/ GrantMovement \/ EnemyTurn
    BY <1>1, <1>6 DEF SwitchOnly, GrantMovement, EnemyTurn, Switch
<1> QED
    BY <1>2, <1>3, <1>4, <1>5, <1>6 DEF Next

LEMMA CardsReadyStep ==
    ASSUME BattleTypeOK, Flow, CardsReady, Next
    PROVE  CardsReady'
<1>1. Stage /\ CardsTyped
    BY StageStep, TypeParts
<1>2. pile \in [Card -> Nat] /\ hand \in [Card -> Nat] /\ Total(pile) \in Nat /\ Total(hand) \in Nat
    BY <1>1, TotalType DEF CardsTyped
<1>3. CASE Lead
    BY <1>3, AfterType DEF Lead, Game, CardsReady
<1>4. CASE RoundBegin
    BY <1>1, <1>4, RoundBeginCards DEF RoundBegin, Game, CardsReady
<1>5. CASE Draw
    BY <1>1, <1>2, <1>5, DrawCards DEF Draw, Game, Flow, CardsReady
<1>6. CASE Drawn
    BY <1>6 DEF Drawn, Game, cards, CardsReady
<1>7. CASE NotYet
    BY <1>7 DEF NotYet, Game, cards, CardsReady
<1>8. CASE PlayerTurn
    BY <1>8, TurnBoard DEF Flow, CardsReady
<1>9. CASE PlayerEnd
    BY <1>9 DEF PlayerEnd, Game, CardsReady
<1>10. CASE Walk
    BY <1>10 DEF Walk, cards, CardsReady
<1>11. CASE SwitchOnly \/ GrantMovement \/ EnemyTurn
    <2>1. state' = nextState /\ nextState' = nextState /\ UNCHANGED <<pile, hand>>
        BY <1>11 DEF SwitchOnly, GrantMovement, EnemyTurn, Switch, cards
    <2> QED
        BY <2>1 DEF CardsReady
<1> QED
    BY <1>3, <1>4, <1>5, <1>6, <1>7, <1>8, <1>9, <1>10, <1>11 DEF Next

\* Steps that leave the board alone, and do not bring the player's turn nearer.
LEMMA QuietStep ==
    ASSUME BoardInv, UNCHANGED <<board, history>>,
           "TURN_PLAYER_IN_PROGRESS" \in {state', nextState'} => "TURN_PLAYER_IN_PROGRESS" \in {state, nextState},
           state' = "TURN_PLAYER_BEGIN" => state = "TURN_PLAYER_BEGIN",
           state' \in {"TURN_PLAYER_BEGIN", "TURN_PLAYER_IN_PROGRESS"}
               => state \in {"TURN_PLAYER_BEGIN", "TURN_PLAYER_IN_PROGRESS"}
    PROVE  BoardInv'
<1>1. /\ TilesHeld /\ StandsAtBegin /\ MarksInReach /\ PaidFromBegin /\ WayIsClear
      /\ UNCHANGED <<pos, walk, occupiedBy, highlight, movement, steps, rushed>>
    BY DEF BoardInv, board, history
<1>2. \A u \in Unit : Destination(u)' = Destination(u)
    BY <1>1 DEF Destination
<1>3. TilesHeld'
    BY <1>1, <1>2 DEF TilesHeld
<1>4. StandsAtBegin'
    BY <1>1 DEF StandsAtBegin
<1>5. MarksInReach'
    BY <1>1 DEF MarksInReach, Destination
<1>6. PaidFromBegin'
    BY <1>1 DEF PaidFromBegin
<1>7. WayIsClear'
    BY <1>1 DEF WayIsClear
<1> QED
    BY <1>3, <1>4, <1>5, <1>6, <1>7 DEF BoardInv

\* Steps that only mark tiles: the beginning and the end of the player's turn.
LEMMA MarkStep ==
    ASSUME BattleInv, Drawn \/ PlayerEnd
    PROVE  BoardTyped' /\ BoardInv'
<1>1. /\ TilesHeld /\ StandsAtBegin /\ PaidFromBegin /\ WayIsClear /\ BoardTyped
    BY TypeParts DEF BattleInv, BoardInv
<1>2. UNCHANGED <<pos, walk, occupiedBy, movement, steps, rushed>> /\ state' = state
    BY DEF Drawn, PlayerEnd, Game, history
<1>3. TilesHeld' /\ StandsAtBegin' /\ PaidFromBegin' /\ WayIsClear'
    <2>1. \A u \in Unit : Destination(u)' = Destination(u)
        BY <1>2 DEF Destination
    <2>2. TilesHeld'
        BY <1>1, <1>2, <2>1 DEF TilesHeld
    <2>3. StandsAtBegin' /\ PaidFromBegin' /\ WayIsClear'
        BY <1>1, <1>2 DEF StandsAtBegin, PaidFromBegin, WayIsClear
    <2> QED
        BY <2>2, <2>3
<1>4. CASE Drawn
    <2>1. state = "TURN_PLAYER_BEGIN" /\ highlight' = Highlighted(occupiedBy, pos["player"], movement)
        BY <1>4 DEF Drawn, Game
    <2>2. /\ highlight' \in [Tile -> {"NONE", "ATTACKABLE", "MOVEABLE_AREA"}]
          /\ {t \in Tile : highlight'[t] = "MOVEABLE_AREA"} = Reach(pos["player"], occupiedBy, movement)
        <3>1. /\ pos["player"] \in Tile /\ movement \in Nat
              /\ highlight \in [Tile -> {"NONE", "ATTACKABLE", "MOVEABLE_AREA"}]
            BY <1>1, Constants DEF BoardTyped, Unit
        <3>2. PICK o, from, m : o = occupiedBy /\ from = pos["player"] /\ m = movement
            OBVIOUS
        <3>3. /\ Highlighted(o, from, m) \in [Tile -> {"NONE", "ATTACKABLE", "MOVEABLE_AREA"}]
              /\ {t \in Tile : Highlighted(o, from, m)[t] = "MOVEABLE_AREA"} = Reach(from, o, m)
            BY <3>1, <3>2, MarksReach
        <3>4. highlight' = Highlighted(o, from, m)
            BY <2>1, <3>2
        <3> QED
            BY <3>2, <3>3, <3>4
    <2>3. MarksInReach'
        <3> SUFFICES ASSUME "turn" \notin rushed
                     PROVE  {t \in Tile : highlight'[t] = "MOVEABLE_AREA"}
                              = Reach(Destination("player")', occupiedBy', movement')
            BY <1>2 DEF MarksInReach
        <3>1. Destination("player")' = pos["player"]
            BY <1>1, <1>2, <2>1 DEF StandsAtBegin, Destination
        <3> QED
            BY <1>2, <2>2, <3>1
    <2>4. BoardTyped'
        BY <1>1, <1>2, <2>2 DEF BoardTyped
    <2> QED
        BY <1>3, <2>3, <2>4 DEF BoardInv
<1>5. CASE PlayerEnd
    <2>1. /\ state = "TURN_PLAYER_END" /\ nextState' = "TURN_ENTITY_BEGIN"
          /\ highlight' = [t \in Tile |-> IF t = pos["player"] \/ highlight[t] = "MOVEABLE_AREA"
                                          THEN "NONE" ELSE highlight[t]]
        BY <1>5 DEF PlayerEnd, Game
    <2>2. MarksInReach'
        BY <1>2, <2>1 DEF MarksInReach
    <2>3. BoardTyped'
        BY <1>1, <1>2, <2>1 DEF BoardTyped
    <2> QED
        BY <1>3, <2>2, <2>3 DEF BoardInv
<1> QED
    BY <1>4, <1>5

\* An order to walk takes the goal instead of the tile where the player stands, marks what
\* is left in reach from there, and is paid for.
LEMMA OrderStep ==
    ASSUME BattleInv, PlayerTurn, NEW t, WalkTo(t), nextState' = nextState
    PROVE  BoardTyped' /\ BoardInv'
<1> DEFINE here == pos["player"]
           w == walk'["player"]
<1>1. /\ TilesHeld /\ StandsAtBegin /\ PaidFromBegin /\ WayIsClear /\ BoardTyped
    BY TypeParts DEF BattleInv, BoardInv
<1>2. /\ BoardTyped'
      /\ t \in Tile /\ t # here /\ occupiedBy[t] = "none"
      /\ \A x \in Tile : occupiedBy'[x] =
            IF x = t THEN "player" ELSE IF x = here THEN "none" ELSE occupiedBy[x]
      /\ w # <<>> /\ Last(w) = t /\ walk'["enemy"] = walk["enemy"]
      /\ \A i \in 1..Len(w) : w[i] \in Tile /\ occupiedBy[w[i]] = "none"
      /\ Len(w) + movement' = movement
      /\ {x \in Tile : highlight'[x] = "MOVEABLE_AREA"} = Reach(t, occupiedBy', movement')
      /\ rushed' = rushed \cup Rush("player", "order")
      /\ UNCHANGED <<pos, steps>>
    BY <1>1, WalkToStep
<1>3. state' = "TURN_PLAYER_IN_PROGRESS" /\ state = "TURN_PLAYER_IN_PROGRESS" /\ here \in Tile
    BY <1>1, TurnBoard DEF BoardTyped, Unit
<1>4. Destination("player")' = t
    BY <1>2 DEF Destination
<1>5. Destination("enemy")' = Destination("enemy")
    BY <1>2 DEF Destination
<1>6. "order" \notin rushed' => walk["player"] = <<>> /\ "order" \notin rushed
    BY <1>2 DEF Rush
<1>7. TilesHeld'
    <2> SUFFICES ASSUME "order" \notin rushed', NEW x \in Tile
                 PROVE  /\ occupiedBy'[x] = "player" <=> x = t
                        /\ occupiedBy'[x] = "enemy" <=> x = Destination("enemy")
                        /\ occupiedBy'[x] = "campfire" <=> x = Camp
        BY <1>4, <1>5 DEF TilesHeld, Unit
    <2>1. /\ \A y \in Tile : occupiedBy[y] = "player" <=> y = here
          /\ \A y \in Tile : occupiedBy[y] = "enemy" <=> y = Destination("enemy")
          /\ \A y \in Tile : occupiedBy[y] = "campfire" <=> y = Camp
        <3>1. Destination("player") = here
            BY <1>6 DEF Destination
        <3> QED
            BY <1>1, <1>6, <3>1 DEF TilesHeld, Unit
    <2> QED
        BY <1>2, <1>3, <2>1
<1>8. StandsAtBegin'
    BY <1>3 DEF StandsAtBegin
<1>9. MarksInReach'
    BY <1>2, <1>4 DEF MarksInReach
<1>10. PaidFromBegin'
    <2> SUFFICES ASSUME rushed' = {} PROVE steps + Len(w) + movement' = TurnMovement
        BY <1>2 DEF PaidFromBegin
    <2>1. walk["player"] = <<>> /\ rushed = {}
        BY <1>2, <1>6
    <2>2. Len(walk["player"]) = 0
        BY <1>1, <2>1, EmptyWalk DEF BoardTyped, Unit
    <2>3. steps + Len(walk["player"]) + movement = TurnMovement
        BY <1>1, <1>3, <2>1 DEF PaidFromBegin
    <2>4. Len(w) \in Nat /\ movement' \in Nat /\ steps \in Nat /\ movement \in Nat
        BY <1>1, <1>2, Constants, EmptyWalk DEF BoardTyped, Unit
    <2>5. steps + movement = TurnMovement
        BY <2>2, <2>3, <2>4
    <2>6. Len(w) + movement' = movement
        BY <1>2
    <2> HIDE DEF w
    <2> QED
        BY <2>4, <2>5, <2>6
<1>11. WayIsClear'
    BY <1>2, <1>3 DEF WayIsClear
<1> QED
    BY <1>2, <1>7, <1>8, <1>9, <1>10, <1>11 DEF BoardInv

LEMMA WalkKeeps ==
    ASSUME BattleInv, Walk
    PROVE  BoardTyped' /\ BoardInv'
<1> DEFINE w == walk["player"]
           v == walk'["player"]
<1>1. /\ TilesHeld /\ StandsAtBegin /\ MarksInReach /\ PaidFromBegin /\ WayIsClear /\ BoardTyped
    BY TypeParts DEF BattleInv, BoardInv
<1>2. /\ BoardTyped'
      /\ \A u \in Unit : Destination(u)' = Destination(u)
      /\ w = <<>> => v = <<>>
      /\ \/ pos'["player"] = pos["player"] /\ v = w /\ steps' = steps
         \/ /\ w # <<>> /\ pos'["player"] = w[1] /\ v = Tail(w)
            /\ steps' = IF rushed = {} THEN steps + 1 ELSE steps
    BY <1>1, WalkStep
<1>3. UNCHANGED <<state, nextState, occupiedBy, highlight, movement, rushed>>
    BY DEF Walk
<1>4. w \in Seq(Tile) /\ steps \in Nat /\ movement \in Nat
    BY <1>1, Constants DEF BoardTyped, Unit
<1>5. w # <<>> => /\ Len(w) \in Nat \ {0} /\ Len(Tail(w)) = Len(w) - 1
                  /\ \A i \in 1..Len(Tail(w)) : Tail(w)[i] = w[i + 1]
    BY <1>4, NextTile
<1>6. TilesHeld'
    BY <1>1, <1>2, <1>3 DEF TilesHeld
<1>7. StandsAtBegin'
    BY <1>1, <1>2, <1>3 DEF StandsAtBegin
<1>8. MarksInReach'
    <2>1. Destination("player")' = Destination("player")
        BY <1>2 DEF Unit
    <2> QED
        BY <1>1, <1>3, <2>1 DEF MarksInReach
<1> HIDE DEF w, v
<1>9. PaidFromBegin'
    <2>1. rushed = {} => steps' + Len(v) = steps + Len(w)
        <3>1. CASE v = w /\ steps' = steps
            BY <3>1
        <3>2. CASE w # <<>> /\ v = Tail(w) /\ steps' = IF rushed = {} THEN steps + 1 ELSE steps
            <4>1. Len(v) = Len(w) - 1 /\ Len(w) \in Nat
                BY <1>5, <3>2, Zenon
            <4> QED
                BY <1>4, <3>2, <4>1
        <3> QED
            BY <1>2, <3>1, <3>2
    <2>2. v \in Seq(Tile) /\ steps' \in Nat
        BY <1>2 DEF BoardTyped, Unit, v
    <2> QED
        BY <1>1, <1>3, <1>4, <2>1, <2>2, EmptyWalk DEF PaidFromBegin, w, v
<1>10. WayIsClear'
    <2> SUFFICES ASSUME state \in {"TURN_PLAYER_BEGIN", "TURN_PLAYER_IN_PROGRESS"}, rushed = {}
                 PROVE  /\ occupiedBy[pos'["player"]] # "enemy"
                        /\ \A i \in 1..Len(v) : occupiedBy[v[i]] # "enemy"
        BY <1>3 DEF WayIsClear, v
    <2>1. /\ occupiedBy[pos["player"]] # "enemy"
          /\ \A i \in 1..Len(w) : occupiedBy[w[i]] # "enemy"
        BY <1>1 DEF WayIsClear, w
    <2>2. CASE pos'["player"] = pos["player"] /\ v = w
        BY <2>1, <2>2
    <2>3. CASE w # <<>> /\ pos'["player"] = w[1] /\ v = Tail(w)
        <3>1. 1 \in 1..Len(w) /\ \A i \in 1..Len(v) : i + 1 \in 1..Len(w) /\ v[i] = w[i + 1]
            BY <1>5, <2>3
        <3> QED
            BY <2>1, <2>3, <3>1
    <2> QED
        BY <1>2, <2>2, <2>3
<1> QED
    BY <1>2, <1>6, <1>7, <1>8, <1>9, <1>10 DEF BoardInv

\* A turn's movement is granted: what was not walked before is a mark, and not paid for.
LEMMA GrantStep ==
    ASSUME BattleInv, GrantMovement
    PROVE  BoardTyped' /\ BoardInv'
<1>1. TilesHeld /\ BoardTyped
    BY TypeParts DEF BattleInv, BoardInv
<1>2. /\ state' = "TURN_PLAYER_BEGIN" /\ nextState' = "TURN_PLAYER_BEGIN"
      /\ movement' = TurnMovement /\ steps' = 0
      /\ rushed' = (rushed \ {"turn"}) \cup Rush("player", "turn")
      /\ UNCHANGED <<pos, walk, occupiedBy, highlight>>
    BY DEF GrantMovement, Switch
<1>3. \A u \in Unit : Destination(u)' = Destination(u)
    BY <1>2 DEF Destination
<1>4. "turn" \notin rushed' => walk["player"] = <<>>
    BY <1>2 DEF Rush
<1>5. BoardTyped'
    BY <1>1, <1>2, Constants DEF BoardTyped, Rush
<1>6. TilesHeld'
    BY <1>1, <1>2, <1>3 DEF TilesHeld
<1>7. StandsAtBegin'
    BY <1>2, <1>4 DEF StandsAtBegin
<1>8. MarksInReach'
    BY <1>2 DEF MarksInReach
<1>9. rushed' = {} => Len(walk["player"]) = 0 /\ occupiedBy[pos["player"]] = "player"
    <2> SUFFICES ASSUME rushed' = {}
                 PROVE  Len(walk["player"]) = 0 /\ occupiedBy[pos["player"]] = "player"
        OBVIOUS
    <2>1. walk["player"] = <<>> /\ "order" \notin rushed
        BY <1>2, <1>4
    <2>2. Len(walk["player"]) = 0 /\ pos["player"] \in Tile
        BY <1>1, <2>1, EmptyWalk DEF BoardTyped, Unit
    <2>3. Destination("player") = pos["player"]
        BY <2>1 DEF Destination
    <2> QED
        BY <1>1, <2>1, <2>2, <2>3 DEF TilesHeld, Unit
<1>10. PaidFromBegin'
    BY <1>2, <1>9, Constants DEF PaidFromBegin
<1>11. WayIsClear'
    BY <1>2, <1>9 DEF WayIsClear
<1> QED
    BY <1>5, <1>6, <1>7, <1>8, <1>10, <1>11 DEF BoardInv

LEMMA EnemyKeeps ==
    ASSUME BattleInv, EnemyTurn
    PROVE  BoardTyped' /\ BoardInv'
<1> DEFINE here == pos["enemy"]
<1>1. TilesHeld /\ BoardTyped
    BY TypeParts DEF BattleInv, BoardInv
<1>2. state' = "TURN_ENTITY_BEGIN" /\ nextState' = "TURN_ENTITY_BEGIN"
    BY DEF EnemyTurn, Switch
<1>3. StandsAtBegin' /\ MarksInReach' /\ PaidFromBegin' /\ WayIsClear'
    BY <1>2 DEF StandsAtBegin, MarksInReach, PaidFromBegin, WayIsClear
<1>4. /\ BoardTyped'
      /\ \/ UNCHANGED <<pos, walk, occupiedBy, rushed>>
         \/ \E t \in Tile :
               /\ occupiedBy[t] = "none"
               /\ walk'["enemy"] = <<t>> /\ walk'["player"] = walk["player"]
               /\ pos' = pos
               /\ t # here =>
                    \A x \in Tile : occupiedBy'[x] =
                       IF x = t THEN "enemy" ELSE IF x = here THEN "none" ELSE occupiedBy[x]
               /\ rushed' = rushed \cup Rush("enemy", "order")
    BY <1>1, EnemyStep
<1>5. CASE UNCHANGED <<pos, walk, occupiedBy, rushed>>
    <2>1. \A u \in Unit : Destination(u)' = Destination(u)
        BY <1>5 DEF Destination
    <2>2. TilesHeld'
        BY <1>1, <1>5, <2>1 DEF TilesHeld
    <2> QED
        BY <1>3, <1>4, <2>2 DEF BoardInv
<1>6. ASSUME NEW t \in Tile,
             occupiedBy[t] = "none",
             walk'["enemy"] = <<t>>, walk'["player"] = walk["player"],
             pos' = pos,
             t # here =>
                 \A x \in Tile : occupiedBy'[x] =
                    IF x = t THEN "enemy" ELSE IF x = here THEN "none" ELSE occupiedBy[x],
             rushed' = rushed \cup Rush("enemy", "order")
      PROVE  TilesHeld'
    <2>1. Destination("player")' = Destination("player")
        BY <1>6 DEF Destination
    <2>2. Destination("enemy")' = t
        BY <1>6 DEF Destination, Last
    <2> SUFFICES ASSUME "order" \notin rushed', NEW x \in Tile
                 PROVE  /\ occupiedBy'[x] = "player" <=> x = Destination("player")
                        /\ occupiedBy'[x] = "enemy" <=> x = t
                        /\ occupiedBy'[x] = "campfire" <=> x = Camp
        BY <2>1, <2>2 DEF TilesHeld, Unit
    <2>3. walk["enemy"] = <<>> /\ "order" \notin rushed
        BY <1>6 DEF Rush
    <2>4. /\ \A y \in Tile : occupiedBy[y] = "enemy" <=> y = here
          /\ \A y \in Tile : occupiedBy[y] = "player" <=> y = Destination("player")
          /\ \A y \in Tile : occupiedBy[y] = "campfire" <=> y = Camp
        <3>1. Destination("enemy") = here
            BY <2>3 DEF Destination
        <3> QED
            BY <1>1, <2>3, <3>1 DEF TilesHeld, Unit
    <2>5. t # here
        BY <1>6, <2>4
    <2> QED
        BY <1>6, <2>4, <2>5
<1>7. TilesHeld'
    BY <1>4, <1>5, <1>6 DEF BoardInv
<1> QED
    BY <1>3, <1>4, <1>7 DEF BoardInv

LEMMA BoardStep == ASSUME BattleInv, Next PROVE BoardTyped' /\ BoardInv'
<1>1. BoardTyped /\ BoardInv /\ Flow
    BY TypeParts DEF BattleInv
<1>2. CASE Lead \/ RoundBegin \/ Draw \/ NotYet \/ SwitchOnly
    <2>1. /\ UNCHANGED <<board, history>>
          /\ \/ state' = state /\ nextState' # "TURN_PLAYER_IN_PROGRESS"
             \/ state' = state /\ nextState' = nextState
             \/ state' = nextState /\ nextState' = nextState /\ nextState # "TURN_PLAYER_BEGIN"
        <3>1. CASE Lead
            BY <3>1, AfterType DEF Lead, Game
        <3>2. CASE RoundBegin
            BY <3>2 DEF RoundBegin, Game
        <3>3. CASE Draw
            BY <3>3 DEF Draw, Game
        <3>4. CASE NotYet
            BY <3>4 DEF NotYet, Game
        <3>5. CASE SwitchOnly
            BY <3>5 DEF SwitchOnly, Switch
        <3> QED
            BY <1>2, <3>1, <3>2, <3>3, <3>4, <3>5
    <2>2. BoardTyped'
        BY <1>1, <2>1 DEF BoardTyped, board, history
    <2>3. BoardInv'
        BY <1>1, <2>1, QuietStep DEF Flow
    <2> QED
        BY <2>2, <2>3
<1>3. CASE PlayerTurn
    <2>1. CASE UNCHANGED <<board, history>>
        <3>1. state' = state /\ state = "TURN_PLAYER_IN_PROGRESS"
            BY <1>3, TurnBoard
        <3>2. BoardTyped'
            BY <1>1, <2>1 DEF BoardTyped, board, history
        <3>3. BoardInv'
            BY <1>1, <2>1, <3>1, QuietStep
        <3> QED
            BY <3>2, <3>3
    <2>2. ASSUME NEW t, WalkTo(t), nextState' = nextState PROVE BoardTyped' /\ BoardInv'
        BY <1>3, <2>2, OrderStep
    <2> QED
        BY <1>3, <2>1, <2>2, TurnBoard
<1> QED
    BY <1>2, <1>3, MarkStep, WalkKeeps, GrantStep, EnemyKeeps DEF Next

LEMMA BattleStep == BattleInv /\ [Next]_vars => BattleInv'
<1> SUFFICES ASSUME BattleInv, [Next]_vars PROVE BattleInv'
    OBVIOUS
<1>1. CASE Next
    <2>1. BattleTypeOK /\ Flow /\ CardsReady /\ CardsTyped /\ phase \in {"game", "walk", "switch"}
          /\ state \in State /\ nextState \in State
        BY <1>1, TypeParts DEF BattleInv
    <2>2. Stage /\ nextState' \in State
        BY <1>1, <2>1, StageStep
    <2>3. phase' \in {"game", "walk", "switch"} /\ state' \in State
        BY <2>1, <2>2 DEF Stage
    <2>4. BoardTyped' /\ BoardInv' /\ CardsTyped'
        BY <1>1, <2>1, BoardStep, CardsStep
    <2>5. BattleTypeOK'
        BY <2>2, <2>3, <2>4, Zenon DEF BattleTypeOK, BoardTyped, CardsTyped
    <2>6. Flow' /\ CardsReady'
        BY <1>1, <2>1, FlowStep, CardsReadyStep
    <2> QED
        BY <2>4, <2>5, <2>6 DEF BattleInv
<1>2. CASE UNCHANGED vars
    <2>1. /\ UNCHANGED <<phase, state, nextState, board, hp, cards, history>>
          /\ UNCHANGED <<pos, walk, occupiedBy, highlight, movement, hp, pile, hand, selected, placeable, steps, rushed>>
        BY <1>2 DEF vars, board, cards, history
    <2>2. BattleTypeOK'
        BY <2>1 DEF BattleInv, BattleTypeOK
    <2>3. Flow' /\ CardsReady'
        BY <2>1 DEF BattleInv, Flow, CardsReady
    <2>4. BoardInv'
        BY <2>1, QuietStep DEF BattleInv
    <2> QED
        BY <2>2, <2>3, <2>4 DEF BattleInv
<1> QED
    BY <1>1, <1>2

LEMMA BattleInit == Init => BattleInv
<1> SUFFICES ASSUME Init PROVE BattleInv
    OBVIOUS
<1>1. /\ phase = "game" /\ state = "BATTLE_BEGIN" /\ nextState = "BATTLE_BEGIN"
      /\ pos = [player |-> PlayerStart, enemy |-> EnemyStart] /\ walk = [u \in Unit |-> <<>>]
      /\ highlight = [t \in Tile |-> "NONE"] /\ movement = 0
      /\ hp = [player |-> PlayerHp, enemy |-> EnemyMax]
      /\ pile = [c \in Card |-> 0] /\ hand = [c \in Card |-> 0]
      /\ selected = NoCard /\ placeable = FALSE /\ steps = 0 /\ rushed = {}
    BY DEF Init
<1>2. \A t \in Tile : occupiedBy[t] =
         IF t = PlayerStart THEN "player" ELSE IF t = EnemyStart THEN "enemy"
         ELSE IF t = Camp THEN "campfire" ELSE "none"
    BY Constants, Zenon DEF Init
<1>3. occupiedBy \in [Tile -> Unit \cup {"campfire", "none"}]
    <2>1. \A t \in Tile : occupiedBy[t] \in Unit \cup {"campfire", "none"}
        BY <1>2 DEF Unit
    <2> DEFINE Holder(t) == CASE t = PlayerStart -> "player"
                              [] t = EnemyStart -> "enemy"
                              [] t = Camp -> "campfire"
                              [] OTHER -> "none"
    <2>2. occupiedBy = [t \in Tile |-> Holder(t)]
        BY Zenon DEF Init
    <2> HIDE DEF Holder
    <2> QED
        BY <2>1, <2>2
<1>4. <<>> \in Seq(Tile)
    OBVIOUS
<1>5. BoardTyped
    BY <1>1, <1>3, <1>4, Constants DEF BoardTyped, Unit
<1>6. CardsTyped
    <2>1. hp \in [Unit -> Nat] /\ \A u \in Unit : hp[u] <= MaxHp[u]
        BY <1>1, Constants, MaxHpIs DEF Unit
    <2> QED
        BY <1>1, <2>1, Zenon DEF CardsTyped
<1>7. BattleTypeOK
    BY <1>1, <1>5, <1>6, TypeParts, SomeStates
<1>8. Destination("player") = PlayerStart /\ Destination("enemy") = EnemyStart
    BY <1>1 DEF Destination, Unit
<1>9. TilesHeld
    BY <1>2, <1>8, Constants DEF TilesHeld, Unit
<1>10. Flow /\ CardsReady /\ StandsAtBegin /\ MarksInReach /\ PaidFromBegin /\ WayIsClear
    BY <1>1 DEF Flow, CardsReady, StandsAtBegin, MarksInReach, PaidFromBegin, WayIsClear
<1> QED
    BY <1>7, <1>9, <1>10 DEF BattleInv, BoardInv

\* The inductive invariant holds throughout a battle.
THEOREM BattleInvariant == Spec => []BattleInv
BY BattleInit, BattleStep, PTL DEF Spec

----------------------------------------------------------------------------
(* What follows. *)

\* Every variable of the battle keeps its type: in particular, no unit has more health than
\* its maximum or less than none, and no turn's movement is overdrawn.
THEOREM BattleTyped == Spec => []BattleTypeOK
<1>1. BattleInv => BattleTypeOK
    BY DEF BattleInv
<1> QED
    BY <1>1, BattleInvariant, PTL

\* As long as no unit is given a way while it walks, each holds exactly the tile it goes
\* to, and the campfire its own.
THEOREM TilesAreHeld == Spec => []OneTileEach
<1>1. BattleInv => OneTileEach
    <2> SUFFICES ASSUME BattleInv, "order" \notin rushed
                 PROVE  /\ \A u \in Unit : {t \in Tile : occupiedBy[t] = u} = {Destination(u)}
                        /\ {t \in Tile : occupiedBy[t] = "campfire"} = {Camp}
        BY DEF OneTileEach
    <2>1. \A t \in Tile : /\ \A u \in Unit : occupiedBy[t] = u <=> t = Destination(u)
                          /\ occupiedBy[t] = "campfire" <=> t = Camp
        BY DEF BattleInv, BoardInv, TilesHeld
    <2>2. ASSUME NEW u \in Unit PROVE Destination(u) \in Tile
        <3>1. pos[u] \in Tile /\ walk[u] \in Seq(Tile)
            BY DEF BattleInv, BattleTypeOK
        <3>2. walk[u] # <<>> => Last(walk[u]) \in Tile
            <4>1. walk[u] # <<>> => Len(walk[u]) \in 1..Len(walk[u])
                BY <3>1, EmptyWalk
            <4> QED
                BY <3>1, <4>1, ElementOfSeq DEF Last
        <3> QED
            BY <3>1, <3>2 DEF Destination
    <2> QED
        BY <2>1, <2>2, Constants
<1> QED
    BY <1>1, BattleInvariant, PTL

\* In its turn, a player who stands still sees as reachable exactly the tiles to which an
\* order to walk would be obeyed.
THEOREM HighlightsAreRight == Spec => []HighlightsAreOrders
<1>1. BattleInv => HighlightsAreOrders
    <2> SUFFICES ASSUME BattleInv, state = "TURN_PLAYER_IN_PROGRESS", walk["player"] = <<>>,
                        "turn" \notin rushed
                 PROVE  {t \in Tile : highlight[t] = "MOVEABLE_AREA"} =
                            IF movement = 0 THEN {} ELSE {t \in DOMAIN Ways : Ways[t] <= movement}
        BY Zenon DEF HighlightsAreOrders
    <2>1. {t \in Tile : highlight[t] = "MOVEABLE_AREA"}
             = Reach(Destination("player"), occupiedBy, movement)
        BY DEF BattleInv, BoardInv, MarksInReach
    <2>2. pos["player"] \in Tile /\ Destination("player") = pos["player"]
        BY DEF BattleInv, BattleTypeOK, Destination, Unit
    <2>3. Ways = Distances(pos["player"], FreeIn(occupiedBy))
        BY <2>2, FoundIs DEF Ways
    <2> QED
        BY <2>1, <2>2, <2>3, Zenon DEF Reach
<1> QED
    BY <1>1, BattleInvariant, PTL

\* What the player has walked in a turn, has ahead of it and may still order add up to the
\* movement of one turn.
THEOREM StepsPaid == Spec => []StepsArePaid
<1>1. BattleInv => StepsArePaid
    BY DEF BattleInv, BoardInv, PaidFromBegin, StepsArePaid
<1> QED
    BY <1>1, BattleInvariant, PTL

\* The player's turn begins with all cards drawn, and with no fewer than HandSize.
THEOREM TurnsStartFull == Spec => TurnStartsFull
<1>1. BattleInv /\ [Next]_vars =>
        ((state # "TURN_PLAYER_IN_PROGRESS" /\ state' = "TURN_PLAYER_IN_PROGRESS") =>
             Total(pile') = 0 /\ Total(hand') >= HandSize)
    <2> SUFFICES ASSUME BattleInv, [Next]_vars,
                        state # "TURN_PLAYER_IN_PROGRESS", state' = "TURN_PLAYER_IN_PROGRESS"
                 PROVE  Total(pile') = 0 /\ Total(hand') >= HandSize
        OBVIOUS
    <2>1. Next
        BY DEF vars
    <2>2. CASE SwitchOnly
        <3>1. state' = nextState /\ UNCHANGED <<pile, hand>>
            BY <2>2 DEF SwitchOnly, Switch, cards
        <3>2. state = "TURN_PLAYER_BEGIN" /\ nextState = "TURN_PLAYER_IN_PROGRESS"
            BY <3>1 DEF BattleInv, Flow
        <3>3. Total(pile) = 0 /\ Total(pile) + Total(hand) >= HandSize
            BY <3>2 DEF BattleInv, CardsReady
        <3>4. Total(hand) \in Nat
            BY TotalType DEF BattleInv, BattleTypeOK
        <3> QED
            BY <3>1, <3>3, <3>4, Constants
    <2>3. ASSUME ~SwitchOnly PROVE FALSE
        <3>1. CASE GrantMovement \/ EnemyTurn
            BY <3>1 DEF GrantMovement, EnemyTurn, Switch
        <3>2. CASE ~(GrantMovement \/ EnemyTurn)
            <4>1. state' = state
                BY <2>1, <2>3, <3>2, TurnBoard
                DEF Next, Lead, RoundBegin, Draw, Drawn, NotYet, PlayerEnd, Walk, Game
            <4> QED
                BY <4>1
        <3> QED
            BY <3>1, <3>2
    <2> QED
        BY <2>2, <2>3
<1> QED
    BY <1>1, BattleInvariant, PTL DEF Spec, TurnStartsFull

\* The enemy is only hurt by an attack on the tile it holds.
LEMMA OnlyAttacksHurt ==
    ASSUME CardsTyped, Next, hp'["enemy"] < hp["enemy"]
    PROVE  \E d \in Draws, t \in Tile : Attack(d[1], d[2], t) /\ occupiedBy[t] = "enemy"
<1>1. hp \in [Unit -> Nat] /\ "enemy" \in Unit /\ hp["enemy"] \in Nat
    BY DEF CardsTyped, Unit
<1>2. hp' # hp
    BY <1>1
<1>3. PlayerTurn
    BY <1>2 DEF Next, Lead, RoundBegin, Draw, Drawn, NotYet, PlayerEnd, Walk, SwitchOnly,
                GrantMovement, EnemyTurn, Switch
<1>4. PICK d \in Draws :
        LET p == d[1]
            h == d[2]
        IN  \/ NoInput(p, h) \/ ClickEnd(p, h) \/ PickNone(p, h)
            \/ \E c \in Card : PickUp(p, h, c)
            \/ \E over \in BOOLEAN : Drag(p, h, over) \/ Release(p, h, over)
            \/ \E t \in Tile : ClickFreeTile(p, h, t) \/ ClickFar(p, h, t) \/ Attack(p, h, t)
    BY <1>3, Zenon DEF PlayerTurn
<1> DEFINE p == d[1]
           h == d[2]
<1>5. p \in [Card -> Nat] /\ h \in [Card -> Nat] /\ \A c \in Card : h[c] >= hand[c]
    BY DrawsType DEF CardsTyped
<1> HIDE DEF p, h
<1>6. ASSUME NEW over \in BOOLEAN, Release(p, h, over) PROVE FALSE
    BY <1>1, <1>5, <1>6, ReleaseStep
<1>7. \E t \in Tile : Attack(p, h, t)
    BY <1>2, <1>4, <1>6 DEF p, h, NoInput, ClickEnd, PickNone, PickUp, Drag, ClickFreeTile, ClickFar
<1>8. PICK t \in Tile : Attack(p, h, t)
    BY <1>7
<1>9. occupiedBy[t] = "enemy"
    <2>1. hp' = Hurt(occupiedBy[t])
        BY <1>8 DEF Attack
    <2>2. "enemy" # occupiedBy[t] => hp'["enemy"] = hp["enemy"]
        BY <1>1, <2>1, HurtType DEF CardsTyped
    <2> QED
        BY <1>1, <2>2
<1> QED
    BY <1>8, <1>9 DEF p, h

\* Every loss of the enemy's health costs one basic attack card; and, if no unit was given
\* a way while it walked, the enemy is then on a tile beside the player.
THEOREM AttacksPaid == Spec => AttacksArePaid
<1>1. BattleInv /\ [Next]_vars =>
        (hp'["enemy"] < hp["enemy"] =>
            /\ pile'["ATTACK"] + hand'["ATTACK"] = pile["ATTACK"] + hand["ATTACK"] - 1
            /\ rushed = {} => Destination("enemy") \in Edges[pos["player"]])
    <2> SUFFICES ASSUME BattleInv, [Next]_vars, hp'["enemy"] < hp["enemy"]
                 PROVE  /\ pile'["ATTACK"] + hand'["ATTACK"] = pile["ATTACK"] + hand["ATTACK"] - 1
                        /\ rushed = {} => Destination("enemy") \in Edges[pos["player"]]
        OBVIOUS
    <2>1. CardsTyped /\ BoardTyped /\ hp["enemy"] \in Nat
        BY TypeParts DEF BattleInv, CardsTyped, Unit
    <2>2. Next
        <3>1. hp' # hp
            BY <2>1
        <3> QED
            BY <3>1 DEF vars
    <2>3. PICK d \in Draws, t \in Tile : Attack(d[1], d[2], t) /\ occupiedBy[t] = "enemy"
        BY <2>1, <2>2, OnlyAttacksHurt
    <2> DEFINE p == d[1]
               h == d[2]
    <2>4. /\ p \in [Card -> Nat] /\ h \in [Card -> Nat]
          /\ \A c \in Card : p[c] + h[c] = pile[c] + hand[c]
        BY <2>1, DrawsType DEF CardsTyped
    <2> HIDE DEF p, h
    <2>5. /\ state = "TURN_PLAYER_IN_PROGRESS"
          /\ pos["player"] \in Beside(t)
          /\ h["ATTACK"] > 0 /\ hand' = Move(h, "ATTACK", -1) /\ pile' = p
        <3>1. PlayerTurn
            BY <2>1, <2>2 DEF Next, Lead, RoundBegin, Draw, Drawn, NotYet, PlayerEnd, Walk,
                              SwitchOnly, GrantMovement, EnemyTurn, Switch
        <3> QED
            BY <2>3, <3>1, TurnBoard DEF Attack, p, h
    <2>6. pile'["ATTACK"] + hand'["ATTACK"] = pile["ATTACK"] + hand["ATTACK"] - 1
        <3>1. "ATTACK" \in Card /\ h["ATTACK"] + (-1) \in Nat
            BY <2>4, <2>5, Constants
        <3>2. hand'["ATTACK"] = h["ATTACK"] + (-1)
            BY <2>4, <2>5, <3>1, MoveType
        <3>3. p["ATTACK"] + h["ATTACK"] = pile["ATTACK"] + hand["ATTACK"]
            BY <2>4, <3>1
        <3>4. p["ATTACK"] \in Nat /\ h["ATTACK"] \in Nat /\ pile["ATTACK"] \in Nat /\ hand["ATTACK"] \in Nat
            BY <2>1, <2>4, <3>1 DEF CardsTyped
        <3> QED
            BY <2>5, <3>2, <3>3, <3>4
    <2>7. ASSUME rushed = {} PROVE Destination("enemy") \in Edges[pos["player"]]
        <3>1. t = Destination("enemy")
            BY <2>3, <2>7 DEF BattleInv, BoardInv, TilesHeld, Unit
        <3>2. t # pos["player"]
            BY <2>3, <2>5, <2>7 DEF BattleInv, BoardInv, WayIsClear
        <3>3. pos["player"] \in Edges[t] /\ pos["player"] \in Tile
            BY <2>1, <2>5, <3>2 DEF Beside, BoardTyped, Unit
        <3> QED
            BY <3>1, <3>3, EdgesSymmetric
    <2> QED
        BY <2>6, <2>7
<1> QED
    BY <1>1, BattleInvariant, PTL DEF Spec, AttacksArePaid
=============================================================================
