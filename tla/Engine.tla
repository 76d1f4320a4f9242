------------------------------- MODULE Engine -------------------------------
(***************************************************************************)
(* The game's main loop, engine.c: one frame reads what the server sent,  *)
(* polls the events, updates the console and the current scene, and draws  *)
(* it. What the scenes do to one another is modelled with their memory: a  *)
(* scene is malloc'ed by the one before it, belongs to the engine from     *)
(* engine_setscene() on, and is freed by the engine_setscene() after that, *)
(* from inside whatever handler called it. In between a scene that was     *)
(* picked in the menu waits in g_next_scene, a static variable that        *)
(* outlives the menu.                                                      *)
(*                                                                         *)
(* A frame is Receive, a number of event steps (phase "poll"), Update, and *)
(* Draw. The kinds of scenes are told apart by what they do to others:     *)
(* the intro hands over to the menu by itself, the menu to what is picked, *)
(* the battle answers the event of going back, the arcade scenes           *)
(* (asteroids, suika, planes) leave it to the engine. What goes on inside  *)
(* a battle is the subject of Battle, what the menu sends and learns, and  *)
(* when it is connected, is in LobbySystem.                                *)
(***************************************************************************)
EXTENDS ConsoleOverlay, InputDrag

CONSTANTS Address, Null,    \* where scenes are allocated, and NULL
          Mouse,            \* the buttons of the mouse
          FrameTicks,       \* how many ticks a frame may take
          MaxGoback         \* bound: going back is not asked for while so many wait

\* Memory does not run out: beside two scenes there is room for a third.
ASSUME EngineAssumption ==
    /\ Null \notin Address
    /\ \A a, b \in Address \cup {Null} : \E c \in Address : c \notin {a, b}
    /\ FrameTicks \subseteq Nat
    /\ MaxGoback \in Nat

VARIABLES phase,
          scene,     \* engine->scene
          heap,      \* what is allocated at each address
          pending,   \* g_next_scene
          modal,     \* g_minigame_selection_visible
          active,    \* active_button_id of the menu
          drag,      \* engine->input_drag.state
          before,    \* prev_input_drag.state
          console,   \* engine->console->messages
          goback,    \* USR_EVENT_GOBACK events that wait in the queue
          held,      \* the buttons that are down in the player's hand
          swallowed  \* history: a motion has overridden the release of the last button

input == <<drag, before, held, swallowed>>
scenes == <<scene, heap, pending>>
menu == <<modal, active>>
vars == <<phase, scenes, menu, input, console, goback>>

Kind == {"intro", "menu", "battle", "arcade"}

\* The buttons of the menu: "Mini Game", "Start" with an arrow, and all others, which set no
\* scene; one of those, "Search Friends", may connect to the server and say so.
Button == {"mini", "start", "other"}
NoButton == "none"

Free == [kind |-> "free", loaded |-> FALSE]
Fresh(mem) == CHOOSE a \in Address : mem[a] = Free

\* malloc() and scene_*_init(): a scene that nobody has loaded yet.
Created(mem, a, kind) == [mem EXCEPT ![a] = [kind |-> kind, loaded |-> FALSE]]

Is(kind) == scene # Null /\ heap[scene].kind = kind

\* engine_setscene(): the old scene is destroyed and freed, then the new one, if any, is
\* loaded. The menu's load() closes its modal, and that of the battle writes to the console.
SetScene(mem, old, new) ==
    /\ scene' = new
    /\ heap' = [a \in Address |-> CASE a = new -> [mem[a] EXCEPT !.loaded = TRUE]
                                    [] a # new /\ a = old -> Free
                                    [] OTHER -> mem[a]]
    /\ modal' = (modal /\ ~(new # Null /\ mem[new].kind = "menu"))

\* What becomes of the list of messages in a call that writes some of the given durations
\* to the console: two at most, which is a bound.
Written(list, durations) ==
    {list} \cup {Logged(list, d) : d \in durations}
           \cup {Logged(Logged(list, d), e) : d, e \in durations}

Announced(kind, list) == IF kind = "battle" THEN Logged(list, Normal) ELSE list

\* malloc(), init and engine_setscene() in one go, as most scenes are replaced.
Enter(kind) ==
    LET new == Fresh(heap) IN SetScene(Created(heap, new, kind), scene, new)

\* What becomes of any of these lists when one message more may or may not be written.
Perhaps(lists, duration) == lists \cup {Logged(list, duration) : list \in lists}

----------------------------------------------------------------------------
\* engine_new() goes on after any of five errors, which it writes to the console.
Failures == Perhaps(Perhaps(Perhaps(Perhaps(Perhaps({<<>>},
                Long), Long), Longest), Longest), Long)

\* Then comes the first scene, by the command line. The intro's load() writes to the
\* console, and once more in a debug build.
Init ==
    /\ phase = "receive"
    /\ scene = Fresh([a \in Address |-> Free])
    /\ \E kind \in Kind :
         /\ heap = [a \in Address |-> IF a = scene THEN [kind |-> kind, loaded |-> TRUE] ELSE Free]
         /\ \E list \in Failures :
              console \in CASE kind = "intro"  -> {Logged(list, Normal),
                                                  Logged(Logged(list, Long), Normal)}
                            [] kind = "menu"   -> {Logged(list, Normal)}
                            [] kind = "battle" -> {Logged(list, Normal)}
                            [] kind = "arcade" -> {list}
    /\ pending = Null
    /\ modal = FALSE
    /\ active = NoButton
    /\ drag = "none" /\ before = "none"
    /\ goback = 0
    /\ held = {}
    /\ swallowed = FALSE

----------------------------------------------------------------------------
(* engine_gameserver_receive(), and the events of a frame. *)

\* The menu's on_message() writes of everything it hears to the console; the other scenes
\* hear nothing. Then the drag state of the frame begins.
Receive ==
    /\ phase = "receive"
    /\ phase' = "poll"
    /\ console' \in Written(console, IF Is("menu") THEN {Normal, Long} ELSE {})
    /\ before' = drag /\ drag' = Rolled(drag)
    /\ UNCHANGED <<scenes, menu, held, swallowed, goback>>

\* SDL_MOUSEBUTTONDOWN.
Press(b) ==
    /\ phase = "poll" /\ b \notin held
    /\ held' = held \cup {b}
    /\ drag' = Pressed
    /\ swallowed' = FALSE
    /\ UNCHANGED <<phase, scenes, menu, before, console, goback>>

\* SDL_MOUSEBUTTONUP.
Release(b) ==
    /\ phase = "poll" /\ b \in held
    /\ held' = held \ {b}
    /\ drag' = Released
    /\ swallowed' = FALSE
    /\ UNCHANGED <<phase, scenes, menu, before, console, goback>>

\* SDL_MOUSEMOTION.
Move ==
    /\ phase = "poll"
    /\ drag' = Moved(before, drag)
    /\ swallowed' = (swallowed \/ (before = "begin" /\ drag = "end"))
    /\ UNCHANGED <<phase, scenes, menu, before, held, console, goback>>

\* SDL_KEYUP of the escape key: the event of going back is put behind those that wait.
Escape ==
    /\ phase = "poll" /\ goback < MaxGoback
    /\ goback' = goback + 1
    /\ UNCHANGED <<phase, scenes, menu, input, console>>

\* SDL_KEYDOWN of R: the battle reloads its shaders.
ReloadShaders ==
    /\ phase = "poll" /\ Is("battle")
    /\ console' = Logged(console, Short)
    /\ UNCHANGED <<phase, scenes, menu, input, goback>>

\* SDL_QUIT: no scene is left, but the loop over the events goes on.
Quit ==
    /\ phase = "poll"
    /\ SetScene(heap, scene, Null)
    /\ UNCHANGED <<phase, pending, active, input, console, goback>>

\* USR_EVENT_RELOAD, by SIGUSR1 in a debug build: a battle from a library, whatever ran.
Reload ==
    /\ phase = "poll"
    /\ LET mem == [a \in Address |-> IF a = scene THEN Free ELSE heap[a]]
           new == Fresh(mem)
       IN  SetScene(Created(mem, new, "battle"), Null, new)
    /\ console' = Announced("battle", console)
    /\ UNCHANGED <<phase, pending, active, input, goback>>

\* USR_EVENT_GOBACK. The menu goes back to its first page; the battle sets a menu from its
\* own on_callback(); where there is no scene, or one without on_callback(), the engine does.
GoBack ==
    /\ phase = "poll" /\ goback > 0
    /\ goback' = goback - 1
    /\ console' = Logged(console, Normal)
    /\ \/ /\ Is("menu")
          /\ modal' = FALSE
          /\ UNCHANGED <<scene, heap>>
       \/ /\ ~Is("menu")
          /\ Enter("menu")
    /\ UNCHANGED <<phase, pending, active, input>>

\* The queue is empty.
PollEnds ==
    /\ phase = "poll" /\ goback = 0
    /\ phase' = "update"
    /\ UNCHANGED <<scenes, menu, input, console, goback>>

----------------------------------------------------------------------------
(* engine_update() after the events: console_update(), scene_update(), and the clock. *)

\* intro_update(): after a while the menu, set by the scene it replaces.
IntroUpdate(list, ticks) ==
    /\ Is("intro")
    /\ Enter("menu") \/ UNCHANGED <<scene, heap, modal>>
    /\ pending' = pending
    /\ console' = Elapsed(list, ticks)

\* The menu's update(), with g_next_scene kept.
MenuUpdateKeeping(list, ticks) ==
    /\ Is("menu")
    /\ IF pending # Null
       THEN /\ SetScene(heap, scene, pending)
            /\ pending' = pending
            /\ console' = Elapsed(Announced(heap[pending].kind, list), ticks)
       ELSE UNCHANGED <<scenes, modal>> /\ console' = Elapsed(list, ticks)

\* The menu's update(): what was picked replaces the menu.
MenuUpdate(list, ticks) ==
    /\ Is("menu")
    /\ IF pending # Null
       THEN /\ SetScene(heap, scene, pending)
            /\ pending' = Null
            /\ console' = Elapsed(Announced(heap[pending].kind, list), ticks)
       ELSE UNCHANGED <<scenes, modal>> /\ console' = Elapsed(list, ticks)

\* The update() of a battle writes of its turns, cards and attacks to the console; the arcade
\* scenes write nothing, and no scene does nothing.
OtherUpdate(list, ticks) ==
    /\ ~Is("intro") /\ ~Is("menu")
    /\ \E written \in Written(list, IF Is("battle") THEN {Short, Normal} ELSE {}) :
         console' = Elapsed(written, ticks)
    /\ UNCHANGED <<scenes, modal>>

Update ==
    /\ phase = "update"
    /\ phase' = "draw"
    /\ LET list == Updated(console)
       IN  \E ticks \in FrameTicks :
             IntroUpdate(list, ticks) \/ MenuUpdate(list, ticks) \/ OtherUpdate(list, ticks)
    /\ UNCHANGED <<active, input, goback>>

----------------------------------------------------------------------------
(* engine_draw(), and the loop's condition. *)

\* intro_draw(): a long press takes the menu. What follows draws with the fields of the
\* scene that the handler was called with.
IntroDraw ==
    /\ Is("intro")
    /\ \/ /\ held # {}
          /\ Enter("menu")
       \/ UNCHANGED <<scene, heap, modal>>
    /\ UNCHANGED <<pending, active, console>>

\* A press that the menu sees: the button under it becomes the active one, unless the modal
\* covers them.
MenuPress ==
    /\ drag = "begin" /\ ~modal
    /\ \E b \in Button :
         /\ active' = b
         /\ \/ console' = console
            \/ b = "other" /\ console' = Logged(console, Long)
    /\ UNCHANGED <<scenes, modal>>

\* A release over the active button clicks it, which may send to the server and lose the
\* connection over that; one over an item of the modal, which the click before may have
\* opened, picks that game. The window may be so small that a button and an item lie over
\* each other.
MenuRelease ==
    /\ drag = "end"
    /\ \E over \in {NoButton, active}, onItem \in BOOLEAN :
         LET opened  == modal \/ over = "mini"
             first   == Fresh(heap)
             started == IF over = "start" THEN Created(heap, first, "battle") ELSE heap
             second  == Fresh(started)
             picked  == opened /\ onItem
         IN  /\ modal' = opened
             /\ heap' = IF picked THEN Created(started, second, "arcade") ELSE started
             /\ pending' = CASE picked -> second
                             [] ~picked /\ over = "start" -> first
                             [] OTHER -> pending
             /\ \/ console' = console
                \/ over = "other" /\ console' = Logged(console, Long)
    /\ UNCHANGED <<scene, active>>

\* Neither: the active button fades out while nothing is pressed.
MenuRest ==
    /\ \/ drag = "none" /\ active' \in {active, NoButton}
       \/ drag \in {"begin", "in_progress"} /\ active' = active
    /\ UNCHANGED <<scenes, modal, console>>

MenuDraw == Is("menu") /\ (MenuPress \/ MenuRelease \/ MenuRest)

OtherDraw ==
    /\ ~Is("intro") /\ ~Is("menu")
    /\ UNCHANGED <<scenes, menu, console>>

\* The fields that intro_draw() goes on to read are those of a scene that it has freed. The
\* picture of this frame is then anybody's guess, and the process may die of it, as it does
\* in the build with the address sanitizer (extra_debug).
ReadsFreed == Is("intro") /\ heap'[scene] = Free

\* The loop of the web build, whose frames go on without a scene.
DrawOnward ==
    /\ phase = "draw"
    /\ IntroDraw \/ MenuDraw \/ OtherDraw
    /\ \/ phase' = "receive"
       \/ ReadsFreed /\ phase' = "dead"
    /\ UNCHANGED <<input, goback>>

\* After the frame the loop ends where no scene is left; otherwise the next one begins.
Draw ==
    /\ phase = "draw"
    /\ IntroDraw \/ MenuDraw \/ OtherDraw
    /\ \/ phase' = IF scene = Null THEN "stopped" ELSE "receive"
       \/ ReadsFreed /\ phase' = "dead"
    /\ UNCHANGED <<input, goback>>

----------------------------------------------------------------------------
Poll ==
    \/ \E b \in Mouse : Press(b) \/ Release(b)
    \/ Move \/ Escape \/ ReloadShaders \/ Quit \/ Reload \/ GoBack
    \/ PollEnds

Next == Receive \/ Poll \/ Update \/ Draw

Spec == Init /\ [][Next]_vars

\* The loop runs, and the events do not come faster than it takes them out of the queue: no
\* phase of a frame lasts for ever.
Fairness ==
    /\ []<>(phase # "poll")
    /\ []<>(phase \in {"poll", "stopped", "dead"})

FairSpec == Spec /\ Fairness

----------------------------------------------------------------------------
EngineTypeOK ==
    /\ phase \in {"receive", "poll", "update", "draw", "stopped", "dead"}
    /\ scene \in Address \cup {Null} /\ pending \in Address \cup {Null}
    /\ heap \in [Address -> [kind : Kind \cup {"free"}, loaded : BOOLEAN]]
    /\ modal \in BOOLEAN /\ active \in Button \cup {NoButton}
    /\ drag \in DragState /\ before \in DragState
    /\ ConsoleTypeOK(console)
    /\ goback \in 0 .. MaxGoback
    /\ held \subseteq Mouse /\ swallowed \in BOOLEAN

\* Every scene that is allocated belongs to somebody, and to one only: it is the current
\* one, which is loaded, or the one picked in the menu, which is not. So none is freed
\* twice, loaded twice or lost, and neither engine->scene nor g_next_scene points to one that
\* was freed, although g_next_scene outlives the menu that set it and scenes are replaced
\* from inside their own handlers. (It says nothing of what such a handler does next: the
\* intro goes on with the scene that it has freed, see ReadsFreed.)
SceneOwned ==
    /\ scene = Null \/ scene # pending
    /\ \A a \in Address :
         /\ heap[a].kind # "free" <=> a \in {scene, pending}
         /\ heap[a].loaded <=> a = scene

\* What the scenes see of the mouse. A drag goes on only after they saw it begin, and is
\* over only after they saw its end; and with no button down no scene sees a drag, except
\* after a motion that came behind the last release in the frame after the press.
DragFollowsButtons ==
    phase \in {"update", "draw"} =>
        /\ drag = "in_progress" => IsDown(before)
        /\ drag = "none" => ~IsDown(before)
        /\ IsDown(drag) /\ held = {} => swallowed

\* Messages leave the screen in the order of their age, unless a younger one is shown for
\* a shorter time.
OlderIsAhead == OlderIsAheadIn(console)

\* What was picked in the menu replaces it, unless the game is left or the menu is replaced
\* by something else in the same frame; and once no scene is left, the main loop ends,
\* unless an event that waits in the queue brings a scene back.
RequestsAreServed ==
    /\ Is("menu") /\ pending # Null ~> pending = Null \/ ~Is("menu")
    /\ scene = Null ~> scene # Null \/ phase = "stopped"
=============================================================================
