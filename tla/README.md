# A TLA+ model of c-engine's lobby server and its clients

c-engine is a C99 game engine with one multiplayer feature, a lobby server. This
directory models the parts of it that are state machines with more than one actor,
the server's sessions and lobbies, the games that talk to it, the byte stream between
them, and the two threads of the server program, the rules of its card game (the
searches on the hex map and the turns of a battle), and the game's main loop with its
events, scenes and console. TLC checks small instances; TLAPS proves every safety property
that the runs check, for instances of any size. Liveness is left to TLC.

    tlc -config MCLobbyServer.cfg MCLobbyServer.tla      # one run; PROJECT.json lists all
    tlapm LobbyServer_proofs.tla                          # the proofs of one component

The proofs are in `LobbyServer_proofs`, `LobbySystem_proofs`, `ServerConsole_proofs`,
`MessageFraming_proofs`, `HexMap_proofs`, `PathFinding_proofs`, `Battle_proofs` and
`Engine_proofs`.

## Inventory

| Component | State | Operations | What is hard, and what makes it correct |
|---|---|---|---|
| Session registry and queues, `server/gameserver.c` | `server->sessions`; per session `id`, `group_id`, `message_queue`; pending writable callbacks | connect, disconnect, message, writable, send to one or to a filtered set, abort on an assertion | responses are written later than they are decided; sessions are found by a random id. The registry holds the live sessions under different ids; nothing queued is stranded |
| Group service, `server/services/` | `group_id` only: a lobby exists while a session has its number | create, join, leave (join 0), list | who is told of a move depends on whether the message goes before or after the change. Every client is in one lobby at most, and those concerned are told |
| Network part of the engine, `engine.c` | `gameserver_tcp`, `gameserver_ip`, a static receive buffer | connect, send, receive, disconnect | short sends disconnect, several messages come in one read, a read may end inside a message |
| Multiplayer part of the menu, `scenes/menu.c` | `id_of_current_lobby`, `others_in_lobby`, `ids_of_lobbies` | three buttons, `on_message`, reset in `load()` | the state is a guess kept from notices; messages are lost while another scene is shown |
| Server console, `server/server_main.c` | the log queue and its mutex, `gserver` | log, drain, commands, raw broadcast, quit; the network thread's callbacks | two threads; `gserver` is shared under no lock |
| Messages, `net/message.c` | none | pack, unpack | assertions on what is not a message |
| Scenes and input, `engine.c`, `scenes/scene.c`, `scenes/intro.c`, `scenes/menu.c`, `input.h` | current scene, `g_next_scene`, the menu's modal and active button, drag state, queued events | set scene, go back, reload, quit, poll events, update, draw | events of one frame in any order; a scene that is freed while its callback runs; a picked game that waits while the menu is replaced. Every scene has one owner, and what a scene sees of the mouse is a drag from begin to end |
| Battle, `scenes/battle.c` | `g_gamestate` and the next one, `c_position` and `c_move_along_path` of the units, `occupied_by` and the highlight of tiles, movement, health, cards | one `update()` per frame; clicks walk, attack, play cards and end the turn; the enemy's turn; the walks | a unit's tile and its position change at different times, and turns go on while units walk. Tiles, highlights, movement and cards agree |
| Hex map, `game/hexmap.c` | tiles and edges; within a search its frontier and `came_from` | neighbours, two path searches, flow field and distance | borders, odd and even rows, a queue that overwrites. Every answer is that of a shortest way |
| Console overlay, `gui/console.c` | 16 messages with state and age | add, update, remove | removal while iterating, the full list, messages shown for different times. Older messages leave first |
| Everything else | | | drawing, terrain, physics scenes, the web shell, vendored libraries: not modelled, see below |

Interaction: the games and the server exchange JSON messages over TCP (or
WebSockets); libwebsockets calls the server's handlers on the network thread, one
event at a time; the UI thread reads and writes `gserver` directly; the engine calls
the current scene's `on_message`, `update` and `on_callback`.

`PROJECT.json` lists the places in the code where something can go wrong that a test
would hardly reach, each with the properties that cover it.

## Modules

### Lobbies and LobbyServer

`Lobbies` says what the service promises, with nothing but who is in which lobby and
which lobbies are open. `LobbyServer` is the server: one action per handler
(`OnConnect`, `OnDisconnect`, `OnMessage`, `OnWritable`), and under `OnMessage` one
operator per outcome of the group service (`CreateRefused`, `CreateGranted`,
`JoinRefused`, `JoinGranted`, `LeaveGranted`, `List`). Handlers are atomic because
they all run inside `lws_service()` on one thread. Queues are sequences of records
with the fields of `message.h`; JSON is left out, because packing and unpacking keep
every field of the messages the server and the menu send. `OnConnectCollision` and
`OnMessageTail` are the two assertions that the environment can make fail: an id that
`rand()` repeats, and the tail of a request that TCP cut in two; `abort()` ends the
process, and `Restart` starts it anew. The variable `told` is history: the lobby a
client knows to be in, by the rule of `menu.c`, after what was written to it.

The model keeps several peculiarities of the code. Joining another lobby straight out
of one tells the new lobby and not the old one. Disconnecting tells nobody. Creating
lobby 0 is always refused, since every session starts in group 0. The list looks at
`ListLimit` sessions (8 in the code).

### LobbySystem

Extends `LobbyServer` with game processes and the two directions of each connection.
`Adopt`, `ReadChunk`, `Write`, `Close` and `Crash` are the server's actions joined
with what they do to the streams; `ReadChunk(c, k)` takes k requests in one read,
handles the first and drops the rest, as `gameserver_on_message()` does. A process
may leave the menu while it is connected (messages are then lost), come back (which
resets what it knew), fail a send (which disconnects) or be relaunched at any moment.
The menu sends what its buttons send: list, create 123, join 123. It has no button to leave a
lobby, which would be a request to join lobby 0 (`MenuAssumption`, menu.c:679-688).

The game reads one message at a time here; how it finds the messages in the bytes is
the subject of `MessageFraming`. A game that stops on an assertion there is a
`Relaunch` here.

### ServerConsole

The two threads, with `pc[t]` for where each is. A step is one access to the registry, or one
side of a lock. The registry is an stb_ds array: `slots` is its memory, `len` the length in its
header, and `block` what the pointer in `gserver` points to. Everything that the macros do one
after the other is a step of its own. `stbds_arrpush()` is `NetConnect` (is there room?), `Grow`
(`realloc()`, in place or by a move, after which `gserver` points to freed memory), `Publish`
(the new address is stored), `Push` and `Pushed` (the session and the raised length, in either
order). `stbds_arrdel()` is `Remove`, which moves the later slots down, and `Removed`, which lowers
the length; only the moving itself, a `memmove()`, is one step, which is coarser than the code.
The UI thread loads the address (`StatusArray`, `Broadcast`, `CastArray`), then what is behind
it (`StatusMore`, `CastLength`, `StatusSlot`, `CastSlot`), and then uses the session that it found
(`StatusSession`, `CastWrite`). What it reads of freed memory, or of a slot that is counted and
not yet written, is any length that fits and any session or none, or the end of the process;
and a freed session is used in vain, or ends the process. `cast` keeps, as history, what a broadcast
met with. Log lines are numbers, modulo one more than can be in the queue, so that a lost, doubled
or overtaken line shows. Not modelled: the input line (`in_command`: 256 characters without a
check, where the comment on `MAX_INPUT_BYTES` says 4096) and the wording of lines (so also the
static buffers of `fmt_time()`).

### MessageFraming

Bytes are brackets and other characters. `Recv(k)` overwrites the first k bytes of
the static buffer, which keeps the rest from earlier reads; `Object`, `NoObject` and
`LoopEnds` are the loop around `str_match_bracket()`. `ObjectAssumption` is what the
messages are: those that cJSON prints end with the bracket that closes their first one;
what the operator types into the server console is sent without packing, is longer than
nothing, and does not begin with a bracket. (An operator who types an opening bracket that
is never closed makes two messages one; the model does not include that.)

### HexMap and PathFinding

`HexMap` is the grid (`NeighborCoord`, `Edges`) and, apart from the code, what
distance on it means: `Layers` lists, for k from 0 on, the tiles at most k steps away,
and `Distances` reads the distance off. `PathFinding` is one call of
`hexmap_path_find_ex()`, with or without `PATH_FLAGS_FIND_NEIGHBOR`, or of
`hexmap_generate_flowfield()` and then `hexmap_flowfield_distance()`, on an arbitrary
map: `Consume`, `LookAtEdge`, `EdgesDone` are the loop that the searches share,
`WalkBack` and `WalkEnds` build the path, `Measure` follows the flow field. `RingAppend`
keeps the ring buffer's behaviour when it is full, and a failing assertion is the state
"aborted". The tables of edges are compacted in the code and have gaps in the model:
the directions are looked at in the same order.

### Battle

One frame is `update()`: a step of `update_gamestate()` (one action per game state, and
under `PlayerTurn` one operator per thing the player may do with the mouse in that
frame), then `Walk`, in which any of the walking units may come to their next tile, and
then `gamestate_changed()` if the game state is to change (`GrantMovement`, `EnemyTurn`,
`SwitchOnly`). Timers are left open: a card may or may not be drawn in a frame, and a
walk may take any number of frames. What a path search yields is taken from `HexMap`'s
`Distances`, which `AnswersAreExact` proves to be its answer; which of several
shortest paths it yields is left open. Cards of a kind are counted and not told apart.
The campfire, which gets a health component when it is attacked, is left without one.
The mouse is seen as `InputDrag` leaves it: a drag may begin anew without having ended,
when the release is hidden, and then the card that was held stays where it is. Which cards
were left like that is not kept; any card that is picked up may be one. `rushed` is a
history variable: whether a unit was given a way, or the player a new turn, while it
was still walking. After that the position and the tile a unit holds may disagree for
good, and `OneTileEach`, `StepsArePaid` and the second half of `AttacksArePaid` claim
nothing any more.

### InputDrag, ConsoleOverlay and Engine

`InputDrag` is what the events of a frame make of the drag state, `ConsoleOverlay` what
happens to the list of messages; both are operators from one value to the next.
`Engine` is the main loop that owns both: `Receive`, then any number of events (`Press`,
`Release`, `Move`, `Escape`, `ReloadShaders`, `Quit`, `Reload`, `GoBack`), then `Update`
and `Draw`, each with what the current scene does in it. The intro hands over to the menu
from its update and from its draw handler; the menu's handler for the mouse opens the
modal and picks games, and its update replaces it by what was picked; the battle answers
the event of going back by itself; the arcade scenes do nothing of the kind.

Memory is part of the model: `heap` says what is allocated where, and `Created`,
`SetScene` and `Enter` are `malloc()` with the scene's init, `engine_setscene()`, and
both. A scene that is not the current one can only be reached through `g_next_scene`.
When a long press makes the intro set the menu from its draw handler, the handler goes on to draw
with the fields of the scene that it has freed (`ReadsFreed`): the frame then ends as any
other, or the process is `"dead"`, as it is in the build with the address sanitizer. Escape puts an event behind those that wait, so a quit in
the same frame may come before it is handled: then a menu is created in an engine without
a scene, and the game goes on. This is what the code does and `RequestsAreServed` allows
for it; what the user meant by the order of two such keys is not for the model to say.

The list of messages may begin with the errors after which `engine_new()` goes on
(`Failures`). Messages carry their age instead of the time they were made at. `swallowed` is a history
variable: whether a motion has hidden the release of the last button. After that the
scenes see a drag that goes on although no button is down, until the next release.

Left out: window sizes, notifications (nobody registers for them), the texts, and the
loop of the web build, which goes on without a scene; that loop is the mutant of `Draw`.
The battle by `SIGUSR1` exists in debug builds only, and is in the model. What is said
between game and server is in `LobbySystem`: here the menu may hear and write anything.
In a build for a phone a window may be so small that the modal's items lie over the
buttons of the menu: one release may then both open the modal and pick a game.

## Runs

| Run | Shows | Bounds |
|---|---|---|
| `lobby_server` | types, `RegistryExact`, `MembershipTold`, `NothingStranded`, `NoticesReachTheGroup`, `ImplementsLobbies` | 3 connections, 2 lobbies, 3 ids, list of 2, no event while 3 or more messages wait |
| `lobby_system` | `ViewFollows`, `ListStaysComplete`, `FounderMissesNobody` | 2 processes, 2 connections, the menu's one lobby, 2 ids, a button only while 1 message is on the way |
| `lobby_system_live` | `MembershipShown` and `CutIsNoticed`, under fairness | 1 process, 2 connections |
| `server_console` | `LogIntact`, `RegistryLive`, `BroadcastReachesAll`, `EndsLast`, `QuitEnds` | 2 sessions, an array that has room for 1 at first, a log of 3 lines, commands of 1 or 2 lines |
| `message_framing` | `HeardExactly`, `WholeReadsSurvive` | 3 messages of up to 5 characters, reads of up to 6 |
| `path_finding` | `NothingFails`, `EdgesBothWays`, `NothingForgotten`, `AnswerIsExact`, `PathIsWalk`, `Ends` | every map of 3 by 3 tiles with up to 3 obstacles, every start and goal |
| `battle` | `OneTileEach`, `HighlightsAreOrders`, `StepsArePaid`, `AttacksArePaid`, `TurnStartsFull`, `TurnComesBack` | a map of 3 by 2 tiles with a rock and the campfire, hands of 1 card, attacks and lamps, health 1, no way given to a unit that walks |
| `engine` | `SceneOwned`, `DragFollowsButtons`, `OlderIsAhead`, `RequestsAreServed` | 3 addresses, a console of 3 messages and 2 written at once, messages of 1 or 2 ticks that move for 1, frames of 0 to 2 ticks, one button, one waiting event of going back |
| `attack_in_range` | violated: see findings | as `battle`, attacks only, but units may be given a way while they walk |
| `list_is_complete` | violated: see findings | 3 connections, list of 2 |
| `log_has_room` | violated: see findings | as `server_console` |
| `broadcast_misses_nobody` | violated: see findings | as `server_console` |

Why the bounds are enough to be of use. Three connections and two lobbies are the
least with which a notice can go to the wrong client: one that moves, one that
should hear of it, one that should not; with a list of 2 the third session is beyond
the limit. Two processes and two connections give a connection that outlives its
owner, one that is used again, and a founder with a second member. Two sessions give
a deletion that moves another slot, and with room for one at first (4 in the code) the second
makes the array grow, in place or by a move. A log of 3 lines fills up. Three messages and
reads of 6 give a read with two objects, one that ends inside a message and one whose
tail is completed by bytes of the read before. Three rows and columns give tiles with
two to six neighbours in rows of both kinds, and three obstacles can wall a tile in. The
battle's map has detours (the direct way may be taken), tiles that are out of reach of
one turn, and enemies to walk up to; a lamp gives more cards than a hand is filled to.
`MayRush` FALSE keeps units from being given a way while they walk: nearly all properties
stop speaking there, and what is left behind on the map then multiplies the states. A
walk may still last into the next turn of the player. Three addresses are what two owned
scenes and a third that is being created need; a leak or a double free shows at once,
because every allocated address must have its owner. A console of 3 messages is full with
a first, a middle and a last one, and frames of up to 2 ticks let several messages come
due in one frame, and one message be late for two of its states. One button suffices,
because the code does not ask which it is. Food in place of the lamp
(`Card = {"ATTACK", "FOOD"}`) passes as well. `MaxQueued`, `MaxOnTheWay`,
`MaxOthers`, `MaxSent` and the battle's `MaxCards` only stop new events while they are exceeded; whatever is
under way still finishes.

Two instances use symmetry (connections, lobbies, processes and ids: no definition
orders them, and the runs have no liveness property), and `lobby_system` uses a view
that leaves out `told` and the contents of streams that no property speaks of any more.
`ListStaysComplete` depends on there being no more connections than `ListLimit`; with
more, `list_is_complete` shows the list incomplete.

Deadlock is checked where the system cannot stop. The console's threads do end, a call
of a search returns, and a game that failed an assertion does stop, so those runs leave
the check out.

### Fairness

`MembershipShown` assumes that a requested writable callback comes (`lws_service()`
polls for it) and that a connected game with something to read reads it
(`engine_update()` polls once per frame), or, `CutIsNoticed`, notices the end of its stream.
Nobody has to press a button and no
connection has to last. `QuitEnds` assumes that both threads are scheduled, outside of
`lws_service()`: nothing makes that call return, because it waits for sockets and timers, and
`gameserver_shutdown()` only sets a flag. So the property has a premise, that the
network thread is out of the call again and again. Without traffic a ^D may leave `main()` in
`pthread_join()` for ever. So does one that comes before `gameserver_init()` has cleared
`gserver`, because it is lost with the shutdown flag. `Ends` assumes that a call
runs. `TurnComesBack` assumes that frames keep coming (the engine's main loop calls
`update()` without end) and that the timer of `add_cards_to_hand()`, to which every frame
adds, runs out again and again; no unit has to arrive and nobody has to click.
`RequestsAreServed` assumes that the loop runs and that events do not come faster than
they are taken out of the queue, so that no frame lasts for ever; no event has to come.

### Findings

- `list_is_complete`: the comment on `group_service_list_lobbies()` promises all
  lobbies, the code looks at the first eight sessions.
- `log_has_room`: the assertion in `console_log()` claims room for a line, and nothing
  in the program ensures it.
- `broadcast_misses_nobody`: the operator's broadcast is sent "to everybody" from the
  UI thread while the network thread deletes sessions; a session that stays connected
  can be passed over.
- `attack_in_range`: the enemy's next turn clears the tile under the enemy and not the one
  it was walking to. If the player ends its turn within the half second that a walk takes,
  the enemy holds both tiles from then on, and can be hurt at the one it left behind, from
  any distance. The same happens to the player's own tile when it is sent elsewhere while
  it walks, which takes no more than two clicks: the tile stays blocked.

Not a finding, for want of an effect: the loops over `map->edges` read one entry past the
sixth before they look at `edge_i`, and for the last tiles past the array.

## Proofs

`LobbyServer_proofs` proves, from `ServerAssumption` only (the
number 0 is no lobby, `NoId` is no id, the limits are natural numbers, there are
finitely many connections), for any number of connections, lobbies and ids:

- `Spec => []IInv`, and with it `TypeOK`, `RegistryExact`, `NothingStranded` and
  `MembershipTold`;
- `Spec => NoticesReachTheGroup`, the action property about who hears of a move;
- `Spec => ImplementsLobbies`, the refinement of the abstract lobbies.

The inductive invariant `IInv` is the conjunction of the four state properties. None
is inductive alone: `told` keeps its type because a client has always read enough to
know *some* lobby (`MembershipTold`); that holds for a freshly connected client because
a free session has an empty queue and no lobby (`RegistryExact`); and `RegistryExact`
is preserved by a disconnect only because ids differ. The lemma `MessageStep` says
once, for all six outcomes of a request, what it does to the queues and to `group_id`;
the invariance, the refinement and the action property use it. A lobby that is created
maps to `Create`, a join to `Enter`, a leave or a disconnect of a member to `Leave`, an
abort to `Collapse`, and everything else to a stutter.

`LobbySystem_proofs` carries them over to the server in the company of its games, for any
number of processes too, and proves what the games may rely on. Beside the server's
assumptions it uses `SystemAssumption` (`NoConn` is no connection) and `MenuAssumption`.

- `ServerOfTheSystem`: `SysSpec => Spec`. Every step of the system is a step of the server
  (`StepOfServer`) or leaves it alone, so whatever is proved of `LobbyServer` holds here.
- `SystemTyped`, from `SysInv`: the server's `IInv`, the games' types, and what the streams are to
  the proofs (`ConnectionsApart`: a connection has one owner and is served for nobody else). `others_in_lobby` stays a natural number because no menu can be told that
  somebody left its lobby (`Said`): leaving is a request that no button sends.
- `ViewsFollow`. A menu's view lags behind what the server told by exactly what is queued and on
  the way, so the proof needs that a connection nobody has adopted yet has nothing on it (`Fresh`).
- `FoundersMissNobody`: who founded a lobby hears of everybody who joins it, because a founder is
  in a lobby as long as it is one (`FoundersLobbies`).
- `ListsStayComplete`, with the hypothesis `[](Len(sessions) <= ListLimit)`: without it the
  property is false, as `list_is_complete` shows.

`ServerConsole_proofs` is about two threads with any number of sessions, any length of the log
queue and any first capacity of the registry (`ConsoleAssumption`: a session is no `NoSession`,
the queue and the first allocation have room for something, and `/help` prints a line).
The inductive invariant `CInv` adds to the properties where each thread is while it holds
something: the mutex is held exactly between lock and unlock (`Control`), lines that were
printed and are still in the queue are those that the UI thread walks over (`LogInv`), a session
is opening or closing only in its callback, and `Push` finds room (`RegInv`: this is what the
test in `NetConnect` and the growth are for), the UI thread's index stays inside the memory, which
never shrinks (`WalkInv`), and the slots that a broadcast has yet to visit hold what they held when
it began, wherever the array is by then, as long as nobody leaves and nothing freed is
read (`CastInv`). `LogSafe`, `RegistrySafe`, `BroadcastReaches`, `JoinedAtEnd` and
`ConsoleTyped` follow from it. After an abort only the types are claimed; the rest is about
a program that has not aborted.

`MessageFraming_proofs` is about any messages, any reads and a buffer of any size, from
`FramingAssumption` and `ObjectAssumption`. What was heard is not a prefix of the bytes read at
every moment; `FrameInv` says how far it lags: the messages heard so far and the data behind
`begin` make up what was read (`Keeping`), as long as `begin` has not run past the data, and the
first bytes of the buffer are the last ones read (`LastRead`). If `begin` has run past them, the
read ended within a message, or the operator's text is in it (`Overrun`). `ObjectStep` is the
heart: the search stops at the end of the message or, when this was not read yet, nowhere
within the data, because no beginning of an object has all its brackets closed. `FlattenIs`,
`FlattenAppend` and `PartsNest` say what `FlattenSeq` does. `HeardAlways`,
`WholeReadsAreSurvived` and `FramingTyped` follow.

`HexMap_proofs` holds what the other two need of the grid, for any width and height: that edges
go both ways in rows of both kinds, that the layers grow, stop growing within as many steps as
there are tiles, and that the distance is the number of the first layer a tile is in.

`PathFinding_proofs` proves breadth-first search as the code does it, for any map and any
obstacles. `PathInv` says that `came_from` is a tree in which depths grow by one (`Tree`), that a
tile's depth is its layer (`Layered`), that the frontier is ordered by depth and holds two depths at
most (`Ordered`), that what was found waits or is closed (`Consuming`, `Expanding`), and what a
walk back or a measurement has yet to do (`Walking`, `Measuring`). The count of tiles found, waiting
and consumed bounds the ring buffer, so that it loses nothing and no assertion fails.
`AnswersAreExact` is the correctness of all three kinds of search, the one for a neighbour of
the goal included; `PathsAreWalks`, `FrontierForgetsNothing`, `NothingEverFails`,
`EdgesGoBothWays` and `PathTyped` are the other properties of the run.

`Battle_proofs` is about any map, any hands and any numbers (`BattleAssumption`: where the units
and the campfire stand is free and different, numbers are natural). `BattleInv` follows the turn
(`Flow`: the player's turn is entered in one way only; `CardsReady`: the cards are drawn before it
is), and states the board's properties from the beginning of a turn on and not only where a run
looks: tiles are held by who goes there (`TilesHeld`), the marked tiles are those in reach of where
the player goes to (`MarksInReach`), steps, way and movement add up (`PaidFromBegin`), and the
enemy is not on the player's way (`WayIsClear`). `TilesAreHeld`, `HighlightsAreRight`, `StepsPaid`
and `BattleTyped` are invariants; `TurnsStartFull` and `AttacksPaid` are action properties.

`Engine_proofs` is about the main loop for any number of buttons and of addresses, any console
and any length of a frame. It uses the part of `EngineAssumption` that says that `malloc()`
succeeds (`Null` is no address, and beside two scenes there is room for a third) and
`ConsoleAssumption`.

- `DragSafe`: `Spec => []DragFollowsButtons`. The property speaks of the moments at which
  the scenes look at the mouse; `DragInv` claims it from the first event of a frame on and
  is inductive, as each event is judged by the drag state of the frame before.
- `SceneSafe`: `Spec => []SceneOwned`. `SceneInv` adds when a pick may wait: never while
  the intro runs or the menu draws (the next pick would lose it), and the modal never
  covers a menu whose "Start" button is the active one (one release would make two
  scenes, and lose one). What a handler reads of a scene that it has replaced is not the subject of
  `SceneOwned`. `SetSceneStep` says what `engine_setscene()` does to the memory;
  `EnterStep`, `QuitStep`, `ReloadStep`, `PickStep` and `ReleaseStep` follow the handlers
  that use it, and `SceneStep` has one step per action.
- `OlderAlways`: `Spec => []OlderIsAhead`. The order of states is inductive only together with
  the order of ages (`InOrder`): of two messages in the same state the older one is due whenever
  the younger one is, if it is not shown for longer. `SteppedInOrder`, `LaterInOrder` and
  `LoggedKeeps` say that a step, the clock and a new message keep two messages in order;
  `RemainingLeft` says that removing while iterating leaves the rest as it was.
- `EngineTyped`, from these invariants and the rest of the types (`PlainInv`).

The library's induction theorems take an operator as a parameter, which the provers cannot
instantiate. Where a proof goes over a list, or over the steps of a search, it uses `SetInduction`
instead: a set of numbers that holds 0 and with each number the next one holds all numbers. It
follows from `<` being well-founded. The recursive functions of the model (`Layers`, `Remaining`,
and the community modules' `FlattenSeq`) are shown in this way to exist and to be what their equations say.

Only model-checked: the liveness properties `MembershipShown`, `CutIsNoticed`, `QuitEnds`, `Ends`,
`TurnComesBack` and `RequestsAreServed`, which are out of the prover's reach, and the four
violated properties of the findings, which are false.

## Plan

1. The lobby server, its abstract specification and its proofs (done); the system of
   server and games, the console, the framing (done, proved).
2. The hex map's searches and the battle (done, proved).
3. Scenes and input: setting a scene, going back, and the drag state of the mouse, with a
   release that gets lost; the console overlay's list (done, proved).
4. Proofs: every invariant and every action property that a run checks is a theorem (done).
   What could be added: that the searches, seen from the battle, are one step from the question
   to an answer that `Distances` describes, as a refinement instead of an invariant.

## Not modelled

Rendering, terrain, particles and the arcade scenes are about floating-point positions
and what is drawn of them. Their rules that are discrete (two equal fruits that touch
become one, in `scenes/experiments.c`) hang on the contacts that box2d reports; read but
not modelled: a new fruit gets tile 0, which is not in `tiles`, when seven coin flips all
fail, and the assertion at `experiments.c:264` would not hold if two of those touched.
`scenes/game.c` is used by nothing. Most of the repository by lines is the vendored code under `lib/`
(flecs, box2d, cJSON, cgltf, nanovg, stb), which is why the modelled lines are a small share
of all. The vendored libraries under `lib/` are used as they are; what libwebsockets, stb_ds
and TCP do for the server is modelled from how the code uses it and marked external
in `PROJECT.json`. The web shell has no logic. Receiving over WebSockets frames messages
by itself and needs no bracket matching; the handlers it reaches are the same.
