------------------------------- MODULE Battle -------------------------------
(***************************************************************************)
(* The battle scene, scenes/battle.c: the turns of the player and of its   *)
(* one enemy on the hex map, the player's cards, and the walks that go on  *)
(* while the game does.                                                    *)
(*                                                                         *)
(* One frame is one call of update(): update_gamestate() with the frame's  *)
(* input, then system_move_along_path(), then gamestate_changed() if the   *)
(* state is to change; `phase` says which comes next. How long a frame     *)
(* takes is open, so a timer may or may not have run out in it.            *)
(*                                                                         *)
(* A unit's c_position follows its walk from tile to tile, while the tile  *)
(* it holds in the map changes at once, when the walk is ordered.          *)
(***************************************************************************)
EXTENDS HexMap

CONSTANTS Rocks,                      \* tiles of movement cost HEXMAP_MOVEMENT_COST_MAX
          Camp,                       \* the campfire's tile
          PlayerStart, EnemyStart,
          TurnMovement,               \* tiles the player may move in a turn (2 in the code)
          HandSize,                   \* cards are filled up to this number (5 in the code)
          PlayerHp, PlayerMax,        \* (7 and 10 in the code)
          EnemyMax,                   \* (8 in the code)
          Card,                       \* the kinds of cards in res/data/cards/base.json
          Damage, Heal,               \* what cards do (7 and 2 in the code)
          MaxCards,                   \* bound: a lamp is not played beyond this many cards
          MayRush                     \* bound: whether a unit is given a way while it walks

ASSUME BattleAssumption ==
    /\ Rocks \subseteq Tile
    /\ {Camp, PlayerStart, EnemyStart} \subseteq Tile \ Rocks
    /\ Camp # PlayerStart /\ Camp # EnemyStart /\ PlayerStart # EnemyStart
    /\ {TurnMovement, HandSize, PlayerHp, PlayerMax, EnemyMax, Damage, Heal, MaxCards} \subseteq Nat
    /\ PlayerHp <= PlayerMax
    /\ Card \subseteq {"ATTACK", "FOOD", "LAMP", "OTHER"} /\ "ATTACK" \in Card
    /\ MayRush \in BOOLEAN

VARIABLES phase,
          state, nextState,   \* g_gamestate, g_next_gamestate
          pos,                \* c_position
          walk,               \* the tiles that are left of c_move_along_path
          occupiedBy,         \* of each tile
          highlight,          \* of each tile
          movement,           \* g_player_movement_this_turn
          hp,
          pile, hand,         \* cards spawned, and those with a c_handcard, by kind
          selected,           \* g_selected_card
          placeable,          \* its can_be_placed
          steps,              \* history: tiles the player has entered in this turn
          rushed              \* history: what was begun while its unit was still walking

board == <<pos, walk, occupiedBy, highlight, movement>>
cards == <<pile, hand, selected, placeable>>
history == <<steps, rushed>>
vars == <<phase, state, nextState, board, hp, cards, history>>

Unit == {"player", "enemy"}
MaxHp == [player |-> PlayerMax, enemy |-> EnemyMax]

\* Cards are told apart by what they do here: a basic attack, Ration of Food, Cursed Lamp,
\* and the others.
NoCard == "NO_CARD"

Count(bag, c) == IF c \in Card THEN bag[c] ELSE 0
Total(bag) == Count(bag, "ATTACK") + Count(bag, "FOOD") + Count(bag, "LAMP") + Count(bag, "OTHER")

\* n cards of random kinds.
Spawned(n) == {bag \in [Card -> 0..n] : Total(bag) = n}

Plus(a, b) == [c \in Card |-> a[c] + b[c]]

Init == /\ phase = "game"
        /\ state = "BATTLE_BEGIN" /\ nextState = "BATTLE_BEGIN"
        /\ pos = [player |-> PlayerStart, enemy |-> EnemyStart]
        /\ walk = [u \in Unit |-> <<>>]
        /\ occupiedBy = [t \in Tile |-> CASE t = PlayerStart -> "player"
                                          [] t = EnemyStart -> "enemy"
                                          [] t = Camp -> "campfire"
                                          [] OTHER -> "none"]
        /\ highlight = [t \in Tile |-> "NONE"]
        /\ movement = 0
        /\ hp = [player |-> PlayerHp, enemy |-> EnemyMax]
        /\ pile = [c \in Card |-> 0] /\ hand = [c \in Card |-> 0]
        /\ selected = NoCard /\ placeable = FALSE
        /\ steps = 0 /\ rushed = {}

----------------------------------------------------------------------------
(* The map. *)

\* Tiles that are no obstacle when `o` holds them.
FreeIn(o) == {t \in Tile \ Rocks : o[t] = "none"}

\* What a path search from a tile finds, for any set of free tiles.
Found == [from \in Tile |-> [free \in SUBSET Tile |-> Distances(from, free)]]

\* What it finds from where the player is.
Ways == Found[pos["player"]][FreeIn(occupiedBy)]

\* The shortest paths over free tiles to t. Which of them the search yields depends on
\* the order of the edges, and is left open.
Paths(t) == LET D == Ways
            IN  {p \in [1..D[t] -> DOMAIN D] :
                    /\ p[D[t]] = t
                    /\ \A i \in 1..D[t] :
                          /\ D[p[i]] = i
                          /\ p[i] \in Edges[IF i = 1 THEN pos["player"] ELSE p[i - 1]]}

\* Mutant of Highlighted: what was reachable before stays so.
HighlightedStill(o, origin, reach) ==
    LET D == Found[origin][FreeIn(o)]
    IN  [t \in Tile |-> IF (t = origin /\ reach >= 1) \/ (t \in DOMAIN D /\ D[t] \in 1..reach)
                        THEN "MOVEABLE_AREA" ELSE highlight[t]]

\* highlight_reachable_tiles(), when `o` holds the tiles.
Highlighted(o, origin, reach) ==
    LET D == Found[origin][FreeIn(o)]
    IN  [t \in Tile |->
            CASE t = origin /\ reach >= 1 -> "MOVEABLE_AREA"
              [] t \in DOMAIN D /\ D[t] \in 1..reach -> "MOVEABLE_AREA"
              [] OTHER -> IF highlight[t] = "MOVEABLE_AREA" THEN "NONE" ELSE highlight[t]]

\* Mutant of Taken: the tile that is left stays taken.
TakenToo(u, from, to) == [occupiedBy EXCEPT ![to] = u]

\* The tiles when u holds `to` instead of `from`.
Taken(u, from, to) == [occupiedBy EXCEPT ![to] = u, ![from] = "none"]

\* The mark of something that is begun while unit u is still on its way.
Rush(u, what) == IF walk[u] # <<>> THEN {what} ELSE {}

----------------------------------------------------------------------------
(* update_gamestate(): each action is a frame's call in one state. *)

Game(s) == phase = "game" /\ state = s /\ phase' = "walk" /\ UNCHANGED state

\* Mutant of After: an assignment is missing.
AfterStuck == [BATTLE_BEGIN            |-> "ROUND_BEGIN",
               TURN_ENTITY_BEGIN       |-> "TURN_ENTITY_IN_PROGRESS",
               TURN_ENTITY_IN_PROGRESS |-> "TURN_ENTITY_IN_PROGRESS",
               TURN_ENTITY_END         |-> "ROUND_END",
               ROUND_END               |-> "ROUND_BEGIN"]

\* The states that only lead on to the next.
After == [BATTLE_BEGIN            |-> "ROUND_BEGIN",
          TURN_ENTITY_BEGIN       |-> "TURN_ENTITY_IN_PROGRESS",
          TURN_ENTITY_IN_PROGRESS |-> "TURN_ENTITY_END",
          TURN_ENTITY_END         |-> "ROUND_END",
          ROUND_END               |-> "ROUND_BEGIN"]

\* The states that are entered; GS_BATTLE_END never is.
State == DOMAIN After \cup {"TURN_PLAYER_BEGIN", "TURN_PLAYER_IN_PROGRESS",
                            "TURN_PLAYER_END", "ROUND_BEGIN"}

Lead == \E s \in DOMAIN After :
            /\ Game(s)
            /\ nextState' = After[s]
            /\ UNCHANGED <<board, hp, cards, history>>

\* New cards, up to HandSize.
RoundBegin ==
    /\ Game("ROUND_BEGIN")
    /\ LET number == Total(pile) + Total(hand)
       IN  \E new \in Spawned(IF number < HandSize THEN HandSize - number ELSE 0) :
              pile' = Plus(pile, new)
    /\ nextState' = "TURN_PLAYER_BEGIN"
    /\ UNCHANGED <<board, hp, hand, selected, placeable, history>>

Move(bag, c, n) == [bag EXCEPT ![c] = @ + n]

\* add_cards_to_hand(), when its timer has run out: the next card is drawn ...
Draw == /\ Game("TURN_PLAYER_BEGIN")
        /\ \E c \in {d \in Card : pile[d] > 0} : /\ pile' = Move(pile, c, -1)
                                                 /\ hand' = Move(hand, c, 1)
        /\ UNCHANGED <<nextState, board, hp, selected, placeable, history>>

\* Mutant of Drawn: the turn begins when the timer has run out.
DrawnEarly == /\ Game("TURN_PLAYER_BEGIN")
              /\ highlight' = Highlighted(occupiedBy, pos["player"], movement)
              /\ nextState' = "TURN_PLAYER_IN_PROGRESS"
              /\ UNCHANGED <<pos, walk, occupiedBy, movement, hp, cards, history>>

\* ... or there is none, and the turn begins.
Drawn == /\ Game("TURN_PLAYER_BEGIN")
         /\ Total(pile) = 0
         /\ highlight' = Highlighted(occupiedBy, pos["player"], movement)
         /\ nextState' = "TURN_PLAYER_IN_PROGRESS"
         /\ UNCHANGED <<pos, walk, occupiedBy, movement, hp, cards, history>>

NotYet == /\ Game("TURN_PLAYER_BEGIN")
          /\ UNCHANGED <<nextState, board, hp, cards, history>>

PlayerEnd == /\ Game("TURN_PLAYER_END")
             /\ highlight' = [t \in Tile |-> IF t = pos["player"] \/ highlight[t] = "MOVEABLE_AREA"
                                             THEN "NONE" ELSE highlight[t]]
             /\ nextState' = "TURN_ENTITY_BEGIN"
             /\ UNCHANGED <<pos, walk, occupiedBy, movement, hp, cards, history>>

----------------------------------------------------------------------------
(* The player's turn. A frame sees the mouse as InputDrag leaves it: what  *)
(* is begun goes on until it ends, but may be begun again without an end   *)
(* (when the button is released and pressed within a frame, or a motion    *)
(* hides the release), or end without having begun.                        *)

Turn == Game("TURN_PLAYER_IN_PROGRESS")

\* Nothing is pressed or released, or nothing comes of it.
NoInput(p, h) == /\ selected = NoCard
                 /\ pile' = p /\ hand' = h
                 /\ UNCHANGED <<nextState, board, hp, selected, placeable, history>>

\* interact_with_handcards(): pick up the card next to the pointer, ...
\* A card that was selected until now stays where it was dragged, with can_be_placed as it
\* was; which cards were left like that is not kept, and any card may be one of them.
PickUp(p, h, c) == /\ h[c] > 0
                   /\ selected' = c /\ placeable' \in BOOLEAN
                   /\ pile' = p /\ hand' = h
                   /\ UNCHANGED <<nextState, board, hp, history>>

\* ... or let go of the one before, where there is no card, ...
PickNone(p, h) == /\ selected # NoCard
                  /\ selected' = NoCard /\ placeable' = FALSE
                  /\ pile' = p /\ hand' = h
                  /\ UNCHANGED <<nextState, board, hp, history>>

\* ... drag it over the board or back, ...
Drag(p, h, over) == /\ selected # NoCard
                    /\ placeable' = over
                    /\ pile' = p /\ hand' = h
                    /\ UNCHANGED <<nextState, board, hp, selected, history>>

\* ... and play it or let go of it. The pointer may have come from the end-turn button
\* and be there again.
Release(p, h, onButton) ==
    /\ selected # NoCard
    /\ IF placeable
       THEN /\ hand' = Move(h, selected, -1)
            /\ hp' = [hp EXCEPT !.player =
                         IF selected = "FOOD" THEN Min({@ + Heal, MaxHp["player"]}) ELSE @]
            /\ IF selected = "LAMP"
               THEN /\ Total(p) + Total(h) < MaxCards
                    /\ \E new \in Spawned(2) : pile' = Plus(p, new)
               ELSE pile' = p
       ELSE pile' = p /\ hand' = h /\ UNCHANGED hp
    /\ selected' = NoCard /\ placeable' = FALSE
    /\ nextState' = IF onButton THEN "TURN_PLAYER_END" ELSE nextState
    /\ UNCHANGED <<board, history>>

ClickEnd(p, h) == /\ selected = NoCard
                  /\ nextState' = "TURN_PLAYER_END"
                  /\ pile' = p /\ hand' = h
                  /\ UNCHANGED <<board, hp, selected, placeable, history>>

\* on_game_event(EVENT_MOVE_ENTITY), for a goal within reach. (Unless MayRush, the
\* player stands still.)
WalkTo(t) ==
    LET D == Ways
    IN  /\ MayRush \/ walk["player"] = <<>>
        /\ t \in DOMAIN D
        /\ D[t] \in 1..movement
        /\ occupiedBy' = Taken("player", pos["player"], t)
        /\ movement' = movement - D[t]
        /\ highlight' = Highlighted(occupiedBy', t, movement')
        /\ \E path \in Paths(t) : walk' = [walk EXCEPT !.player = path]
        /\ rushed' = rushed \cup Rush("player", "order")
        /\ UNCHANGED <<pos, steps>>

ClickFreeTile(p, h, t) == /\ selected = NoCard
                          /\ occupiedBy[t] = "none"
                          /\ WalkTo(t)
                          /\ pile' = p /\ hand' = h
                          /\ UNCHANGED <<nextState, hp, selected, placeable>>

\* Mutant of Beside: the search stops at the first tile it looks at.
BesideAnything(t) == {pos["player"]}

\* The tiles beside t that are nearest to the player: one is what hexmap_path_find_ex()
\* finds with PATH_FLAGS_FIND_NEIGHBOR. Where the player stands it looks no further.
Beside(t) == IF t = pos["player"] THEN {t}
             ELSE LET D == Ways
                      near == DOMAIN D \cap Edges[t]
                  IN  {u \in near : \A v \in near : D[u] <= D[v]}

\* A click on somebody out of range: move into range.
ClickFar(p, h, t) == /\ selected = NoCard
                     /\ occupiedBy[t] # "none"
                     /\ \E u \in Beside(t) : WalkTo(u)
                     /\ pile' = p /\ hand' = h
                     /\ UNCHANGED <<nextState, hp, selected, placeable>>

\* Mutant of Hurt: more health is lost than there is.
HurtMore(victim) == [u \in Unit |-> IF u = victim THEN hp[u] - Damage ELSE hp[u]]

Hurt(victim) == [u \in Unit |-> IF u = victim THEN hp[u] - Min({hp[u], Damage}) ELSE hp[u]]

\* A click on somebody next to the player: attack, with a basic attack from the hand.
\* (The campfire has no health to lose, and is given a component for it.)
Attack(p, h, t) ==
    /\ selected = NoCard
    /\ occupiedBy[t] # "none"
    /\ pos["player"] \in Beside(t)
    /\ h["ATTACK"] > 0
    /\ hand' = Move(h, "ATTACK", -1)
    /\ pile' = p
    /\ hp' = Hurt(occupiedBy[t])
    /\ UNCHANGED <<nextState, board, selected, placeable, history>>

\* Cards are drawn in the turn, too, before the input is looked at: the pile and the hand
\* it may find.
Draws == {<<pile, hand>>} \cup {<<Move(pile, c, -1), Move(hand, c, 1)>> : c \in {d \in Card : pile[d] > 0}}

PlayerTurn ==
    /\ Turn
    /\ \E d \in Draws :
          LET p == d[1]
              h == d[2]
          IN  \/ NoInput(p, h) \/ ClickEnd(p, h) \/ PickNone(p, h)
              \/ \E c \in Card : PickUp(p, h, c)
              \/ \E over \in BOOLEAN : Drag(p, h, over) \/ Release(p, h, over)
              \/ \E t \in Tile : ClickFreeTile(p, h, t) \/ ClickFar(p, h, t) \/ Attack(p, h, t)

----------------------------------------------------------------------------
(* The rest of the frame. *)

\* system_move_along_path(): the units whose time has come are on their next tile.
\* (Unless MayRush, the enemy has come to its tile before its next turn.)
Walk ==
    /\ phase = "walk"
    /\ \E going \in SUBSET {u \in Unit : walk[u] # <<>>} :
          /\ pos' = [u \in Unit |-> IF u \in going THEN Head(walk[u]) ELSE pos[u]]
          /\ walk' = [u \in Unit |-> IF u \in going THEN Tail(walk[u]) ELSE walk[u]]
          /\ steps' = IF "player" \in going /\ rushed = {} THEN steps + 1 ELSE steps
          /\ MayRush \/ nextState # "TURN_ENTITY_BEGIN" \/ walk'["enemy"] = <<>>
    /\ phase' = IF nextState # state THEN "switch" ELSE "game"
    /\ UNCHANGED <<state, nextState, occupiedBy, highlight, movement, hp, cards, rushed>>

\* gamestate_changed().
Switch(s) == /\ phase = "switch"
             /\ nextState = s
             /\ state' = s
             /\ phase' = "game"
             /\ UNCHANGED <<nextState, hp, cards>>

SwitchOnly == /\ nextState \notin {"TURN_PLAYER_BEGIN", "TURN_ENTITY_BEGIN"}
              /\ Switch(nextState)
              /\ UNCHANGED <<board, history>>

\* Mutant of GrantMovement: what was not used in a turn is kept for the next.
GrantMovementMore == /\ Switch("TURN_PLAYER_BEGIN")
                     /\ movement' = movement + TurnMovement
                     /\ steps' = 0
                     /\ rushed' = (rushed \ {"turn"}) \cup Rush("player", "turn")
                     /\ UNCHANGED <<pos, walk, occupiedBy, highlight>>

GrantMovement == /\ Switch("TURN_PLAYER_BEGIN")
                 /\ movement' = TurnMovement
                 /\ steps' = 0
                 /\ rushed' = (rushed \ {"turn"}) \cup Rush("player", "turn")
                 /\ UNCHANGED <<pos, walk, occupiedBy, highlight>>

\* system_enemy_turn(): a step to a random neighbour that is no obstacle, if there is one.
EnemyTurn ==
    /\ Switch("TURN_ENTITY_BEGIN")
    /\ LET here == pos["enemy"]
           open == Edges[here] \cap FreeIn(occupiedBy)
       IN  \/ /\ open = {}
              /\ UNCHANGED <<board, history>>
           \/ \E t \in open :
                 /\ walk' = [walk EXCEPT !.enemy = <<t>>]
                 /\ occupiedBy' = Taken("enemy", here, t)
                 /\ highlight' = [highlight EXCEPT ![t] = "ATTACKABLE", ![here] = "NONE"]
                 /\ rushed' = rushed \cup Rush("enemy", "order")
                 /\ UNCHANGED <<pos, movement, steps>>

----------------------------------------------------------------------------
Next == \/ Lead \/ RoundBegin \/ Draw \/ Drawn \/ NotYet \/ PlayerTurn \/ PlayerEnd
        \/ Walk
        \/ SwitchOnly \/ GrantMovement \/ EnemyTurn

Spec == Init /\ [][Next]_vars

\* Frames keep coming: their calls are made again and again. And the time they take adds
\* up, so that add_cards_to_hand()'s timer runs out in some of them.
FairSpec == Spec /\ []<>(phase = "game") /\ []<>(phase = "walk") /\ SF_vars(Draw \/ Drawn)

----------------------------------------------------------------------------
(* Properties. *)

BattleTypeOK ==
    /\ phase \in {"game", "walk", "switch"}
    /\ state \in State /\ nextState \in State
    /\ pos \in [Unit -> Tile] /\ walk \in [Unit -> Seq(Tile)]
    /\ occupiedBy \in [Tile -> Unit \cup {"campfire", "none"}]
    /\ highlight \in [Tile -> {"NONE", "ATTACKABLE", "MOVEABLE_AREA"}]
    /\ movement \in 0..TurnMovement
    /\ hp \in [Unit -> Nat] /\ \A u \in Unit : hp[u] <= MaxHp[u]
    /\ pile \in [Card -> Nat] /\ hand \in [Card -> Nat]
    /\ selected \in Card \cup {NoCard} /\ (selected # NoCard => hand[selected] > 0)
    /\ placeable \in BOOLEAN
    /\ steps \in Nat /\ rushed \in SUBSET {"order", "turn"}

\* Where unit u will be when it stands still.
Destination(u) == IF walk[u] = <<>> THEN pos[u] ELSE Last(walk[u])

\* As long as no unit is given a way while it walks, each holds the tile it goes to and no
\* other, so no two go to the same; and the campfire stays where it is.
OneTileEach ==
    "order" \notin rushed =>
        /\ \A u \in Unit : {t \in Tile : occupiedBy[t] = u} = {Destination(u)}
        /\ {t \in Tile : occupiedBy[t] = "campfire"} = {Camp}

\* In its turn, a player who stands still sees as reachable its own tile, if it may move,
\* and exactly those tiles to which an order to walk would be obeyed.
HighlightsAreOrders ==
    (state = "TURN_PLAYER_IN_PROGRESS" /\ walk["player"] = <<>> /\ "turn" \notin rushed) =>
        {t \in Tile : highlight[t] = "MOVEABLE_AREA"} =
            LET D == Ways
            IN  IF movement = 0 THEN {} ELSE {t \in DOMAIN D : D[t] <= movement}

\* What the player has walked in a turn, has ahead of it and may still order add up to
\* the movement of one turn.
StepsArePaid ==
    (state = "TURN_PLAYER_IN_PROGRESS" /\ rushed = {}) =>
        steps + Len(walk["player"]) + movement = TurnMovement

\* The enemy is only ever hurt by one basic attack card, which is used up; and, if no unit
\* was given a way while it walked, only when it is on a tile beside the player.
AttacksArePaid ==
    [][hp'["enemy"] < hp["enemy"] =>
          /\ pile'["ATTACK"] + hand'["ATTACK"] = pile["ATTACK"] + hand["ATTACK"] - 1
          /\ rushed = {} => Destination("enemy") \in Edges[pos["player"]]]_vars

\* The player's turn begins with all cards drawn, and with no fewer than HandSize.
TurnStartsFull ==
    [][(state # "TURN_PLAYER_IN_PROGRESS" /\ state' = "TURN_PLAYER_IN_PROGRESS") =>
          Total(pile') = 0 /\ Total(hand') >= HandSize]_vars

\* Once the player has ended its turn, the next one comes.
TurnComesBack == (state = "TURN_PLAYER_END") ~> (state = "TURN_PLAYER_IN_PROGRESS")

\* What the list of things done says, "can only attack entity in range (direct neighbor for
\* now)": the enemy is only hurt when it is, or goes to, a tile beside one where the player
\* is or goes to.
AttackInRange ==
    [][hp'["enemy"] < hp["enemy"] =>
          \E a \in {pos["player"], Destination("player")}, b \in {pos["enemy"], Destination("enemy")} :
              b \in Edges[a]]_vars
=============================================================================
