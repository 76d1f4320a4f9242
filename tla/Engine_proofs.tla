--------------------------- MODULE Engine_proofs ---------------------------
(***************************************************************************)
(* Proofs about Engine, for any number of addresses and buttons, and any   *)
(* console.                                                                *)
(*                                                                         *)
(* DragFollowsButtons speaks of the moments at which the scenes look; that *)
(* it holds there follows from what each event does to the drag state, so  *)
(* DragInv claims it from the first event of the frame on.                 *)
(*                                                                         *)
(* SceneOwned is inductive only together with who may be waiting when:     *)
(* the intro and a menu that draws have nothing pending (a pick would      *)
(* otherwise lose the one before it), and the modal only covers a menu     *)
(* whose "Start" button is not the active one (one release would otherwise *)
(* pick two games).                                                        *)
(***************************************************************************)
EXTENDS Engine, SequenceTheorems, NaturalsInduction, WellFoundedInduction, TLAPS

----------------------------------------------------------------------------
(* The drag state. *)

DragInv ==
    /\ drag \in DragState /\ before \in DragState
    /\ phase \in {"poll", "update", "draw"} =>
         /\ drag = "in_progress" => IsDown(before)
         /\ drag = "none" => ~IsDown(before)
    /\ IsDown(drag) /\ held = {} => swallowed

\* Whatever happens to scenes and console, only Receive and the events of the mouse touch
\* what DragInv speaks of.
LEMMA DragStep == DragInv /\ [Next]_vars => DragInv'
<1> SUFFICES ASSUME DragInv, [Next]_vars PROVE DragInv'
    OBVIOUS
<1> USE DEF DragInv, DragState, IsDown
<1>1. CASE Receive
    BY <1>1 DEF Receive, Rolled
<1>2. ASSUME NEW b \in Mouse, Press(b) PROVE DragInv'
    BY <1>2 DEF Press, Pressed
<1>3. ASSUME NEW b \in Mouse, Release(b) PROVE DragInv'
    BY <1>3 DEF Release, Released
<1>4. CASE Move
    BY <1>4 DEF Move, Moved
<1>5. CASE Escape \/ ReloadShaders \/ Quit \/ Reload \/ GoBack
    BY <1>5 DEF Escape, ReloadShaders, Quit, Reload, GoBack, input
<1>6. CASE PollEnds \/ Update \/ Draw
    BY <1>6 DEF PollEnds, Update, Draw, input
<1>7. CASE UNCHANGED vars
    BY <1>7 DEF vars, input
<1> QED
    BY <1>1, <1>2, <1>3, <1>4, <1>5, <1>6, <1>7 DEF Next, Poll

\* What the scenes see of the mouse is a drag from its begin to its end, as long as no
\* motion hides a release.
THEOREM DragSafe == Spec => []DragFollowsButtons
<1>1. Init => DragInv
    BY DEF Init, DragInv, DragState, IsDown
<1>2. DragInv => DragFollowsButtons
    BY DEF DragInv, DragFollowsButtons
<1> QED
    BY <1>1, <1>2, DragStep, PTL DEF Spec

----------------------------------------------------------------------------
(* The scenes and their memory. *)

Heap == [Address -> [kind : Kind \cup {"free"}, loaded : BOOLEAN]]

SceneInv ==
    /\ heap \in Heap
    /\ scene \in Address \cup {Null} /\ pending \in Address \cup {Null}
    /\ modal \in BOOLEAN
    /\ SceneOwned
    /\ Is("intro") => pending = Null
    /\ phase = "draw" /\ Is("menu") => pending = Null
    /\ modal => active # "start"

\* Where at most two scenes are allocated, malloc() finds room.
LEMMA FreshIsFree ==
    ASSUME NEW mem \in Heap, NEW a \in Address \cup {Null}, NEW b \in Address \cup {Null},
           \A c \in Address \ {a, b} : mem[c] = Free
    PROVE  Fresh(mem) \in Address /\ mem[Fresh(mem)] = Free
<1>1. PICK c \in Address : c \notin {a, b}
    BY EngineAssumption DEF EngineAssumption
<1>2. mem[c] = Free
    BY <1>1
<1> QED
    BY <1>2 DEF Fresh

\* What is neither the current scene nor the picked one is free.
LEMMA OthersAreFree ==
    ASSUME SceneInv, NEW a \in Address, a \notin {scene, pending}
    PROVE  heap[a] = Free
<1>1. heap[a] \in [kind : Kind \cup {"free"}, loaded : BOOLEAN]
    BY DEF SceneInv, Heap
<1>2. heap[a].kind = "free" /\ ~heap[a].loaded
    BY DEF SceneInv, SceneOwned
<1> QED
    BY <1>1, <1>2 DEF Free

\* engine_setscene() with a scene: the old one is free, the new one loaded, and nothing
\* else has changed.
LEMMA SetSceneStep ==
    ASSUME NEW mem \in Heap, NEW old \in Address \cup {Null}, NEW new \in Address,
           modal \in BOOLEAN, old # new, SetScene(mem, old, new)
    PROVE  /\ scene' = new /\ heap' \in Heap
           /\ heap'[new] = [kind |-> mem[new].kind, loaded |-> TRUE]
           /\ \A a \in Address \ {new} : heap'[a] = IF a = old THEN Free ELSE mem[a]
           /\ modal' \in BOOLEAN /\ (modal' => modal)
<1>1. heap' = [a \in Address |-> CASE a = new -> [mem[a] EXCEPT !.loaded = TRUE]
                                   [] a # new /\ a = old -> Free
                                   [] OTHER -> mem[a]]
    BY DEF SetScene
<1>2. \A a \in Address : mem[a] \in [kind : Kind \cup {"free"}, loaded : BOOLEAN]
    BY DEF Heap
<1>3. heap'[new] = [mem[new] EXCEPT !.loaded = TRUE]
    BY <1>1, Zenon
<1>4. heap'[new] = [kind |-> mem[new].kind, loaded |-> TRUE]
    BY <1>2, <1>3
<1>5. ASSUME NEW a \in Address, a # new
      PROVE  heap'[a] = IF a = old THEN Free ELSE mem[a]
    <2>1. heap'[a] = CASE a = new -> [mem[a] EXCEPT !.loaded = TRUE]
                       [] a # new /\ a = old -> Free
                       [] OTHER -> mem[a]
        BY <1>1, Zenon
    <2> QED
        BY <1>5, <2>1
<1>6. heap' \in Heap
    <2>1. ASSUME NEW a \in Address
          PROVE  heap'[a] \in [kind : Kind \cup {"free"}, loaded : BOOLEAN]
        <3>1. CASE a = new
            <4>1. mem[new].kind \in Kind \cup {"free"}
                BY <1>2
            <4>2. [kind |-> mem[new].kind, loaded |-> TRUE]
                    \in [kind : Kind \cup {"free"}, loaded : BOOLEAN]
                BY <4>1
            <4> QED
                BY <1>4, <3>1, <4>2, Zenon
        <3>2. CASE a # new /\ a = old
            <4>1. heap'[a] = Free
                BY <1>5, <3>2
            <4>2. Free \in [kind : Kind \cup {"free"}, loaded : BOOLEAN]
                BY DEF Free
            <4> QED
                BY <4>1, <4>2, Zenon
        <3>3. CASE a # new /\ a # old
            BY <1>2, <1>5, <3>3
        <3> QED
            BY <3>1, <3>2, <3>3
    <2>2. heap' = [a \in Address |-> heap'[a]]
        BY <1>1, Zenon
    <2> QED
        BY <2>1, <2>2, Zenon DEF Heap
<1>7. scene' = new /\ modal' \in BOOLEAN /\ (modal' => modal)
    BY DEF SetScene
<1> QED
    BY <1>4, <1>5, <1>6, <1>7

\* malloc() and init: one address more is allocated.
LEMMA CreatedStep ==
    ASSUME NEW mem \in Heap, NEW a \in Address, NEW kind \in Kind
    PROVE  /\ Created(mem, a, kind) \in Heap
           /\ Created(mem, a, kind)[a] = [kind |-> kind, loaded |-> FALSE]
           /\ \A c \in Address \ {a} : Created(mem, a, kind)[c] = mem[c]
BY DEF Created, Heap

\* A scene that is made and set in one go: it is the current one, the old one is gone, and
\* a pick that waits is left alone.
LEMMA EnterStep ==
    ASSUME SceneInv, NEW kind \in Kind, Enter(kind), pending' = pending
    PROVE  /\ heap' \in Heap /\ scene' \in Address
           /\ heap'[scene'].kind = kind
           /\ SceneOwned'
           /\ modal' \in BOOLEAN /\ (modal' => modal)
<1> DEFINE new == Fresh(heap)
           mem == Created(heap, new, kind)
<1>1. heap \in Heap /\ scene \in Address \cup {Null} /\ pending \in Address \cup {Null}
      /\ modal \in BOOLEAN /\ SceneOwned /\ Null \notin Address
    BY EngineAssumption DEF SceneInv, EngineAssumption
<1>2. new \in Address /\ heap[new] = Free
    BY <1>1, FreshIsFree, OthersAreFree
<1>3. new # scene /\ new # pending
    BY <1>1, <1>2 DEF SceneOwned, Free
<1>4. /\ mem \in Heap /\ mem[new] = [kind |-> kind, loaded |-> FALSE]
      /\ \A c \in Address \ {new} : mem[c] = heap[c]
    BY <1>1, <1>2, CreatedStep
<1>5. SetScene(mem, scene, new)
    BY DEF Enter
<1> HIDE DEF new, mem
<1>6. /\ scene' = new /\ heap' \in Heap
      /\ heap'[new] = [kind |-> mem[new].kind, loaded |-> TRUE]
      /\ \A a \in Address \ {new} : heap'[a] = IF a = scene THEN Free ELSE mem[a]
      /\ modal' \in BOOLEAN /\ (modal' => modal)
    BY <1>1, <1>2, <1>3, <1>4, <1>5, SetSceneStep
<1>7. heap'[new] = [kind |-> kind, loaded |-> TRUE]
    BY <1>4, <1>6
<1>8. ASSUME NEW a \in Address
      PROVE  /\ heap'[a].kind # "free" <=> a \in {scene', pending'}
             /\ heap'[a].loaded <=> a = scene'
    <2>1. CASE a = new
        BY <1>6, <1>7, <2>1 DEF Kind
    <2>2. CASE a = scene
        BY <1>1, <1>3, <1>6, <2>2 DEF SceneOwned, Free
    <2>3. CASE a # new /\ a # scene
        <3>1. heap'[a] = heap[a]
            BY <1>4, <1>6, <2>3
        <3> QED
            BY <1>1, <1>6, <2>3, <3>1 DEF SceneOwned
    <2> QED
        BY <2>1, <2>2, <2>3
<1> QED
    BY <1>2, <1>3, <1>6, <1>7, <1>8 DEF SceneOwned

\* engine_setscene() without a scene: the old one is gone, and a pick goes on waiting.
LEMMA QuitStep ==
    ASSUME SceneInv, SetScene(heap, scene, Null), pending' = pending
    PROVE  /\ heap' \in Heap /\ scene' = Null
           /\ SceneOwned'
           /\ modal' \in BOOLEAN /\ (modal' => modal)
<1>1. heap \in Heap /\ modal \in BOOLEAN /\ SceneOwned /\ Null \notin Address
      /\ pending \in Address \cup {Null} /\ scene \in Address \cup {Null}
    BY EngineAssumption DEF SceneInv, EngineAssumption
<1>2. heap' = [a \in Address |-> CASE a = Null -> [heap[a] EXCEPT !.loaded = TRUE]
                                   [] a # Null /\ a = scene -> Free
                                   [] OTHER -> heap[a]]
    BY DEF SetScene
<1>3. ASSUME NEW a \in Address
      PROVE  heap'[a] = IF a = scene THEN Free ELSE heap[a]
    <2>1. heap'[a] = CASE a = Null -> [heap[a] EXCEPT !.loaded = TRUE]
                       [] a # Null /\ a = scene -> Free
                       [] OTHER -> heap[a]
        BY <1>2, Zenon
    <2> QED
        BY <1>1, <2>1
<1>4. heap' \in Heap
    <2>1. ASSUME NEW a \in Address
          PROVE  heap'[a] \in [kind : Kind \cup {"free"}, loaded : BOOLEAN]
        <3>1. heap[a] \in [kind : Kind \cup {"free"}, loaded : BOOLEAN]
            BY <1>1 DEF Heap
        <3>2. Free \in [kind : Kind \cup {"free"}, loaded : BOOLEAN]
            BY DEF Free
        <3> QED
            BY <1>3, <3>1, <3>2, Zenon
    <2>2. heap' = [a \in Address |-> heap'[a]]
        BY <1>2, Zenon
    <2> QED
        BY <2>1, <2>2, Zenon DEF Heap
<1>5. scene' = Null /\ modal' \in BOOLEAN /\ (modal' => modal)
    BY <1>1 DEF SetScene
<1>6. ASSUME NEW a \in Address
      PROVE  /\ heap'[a].kind # "free" <=> a \in {scene', pending'}
             /\ heap'[a].loaded <=> a = scene'
    BY <1>1, <1>3, <1>5 DEF SceneOwned, Free
<1> QED
    BY <1>4, <1>5, <1>6 DEF SceneOwned

\* A reload: the new scene may be put where the old one was.
LEMMA ReloadStep ==
    ASSUME SceneInv, Reload
    PROVE  /\ heap' \in Heap /\ scene' \in Address
           /\ heap'[scene'].kind = "battle"
           /\ SceneOwned'
           /\ modal' \in BOOLEAN /\ (modal' => modal)
<1> DEFINE mem == [a \in Address |-> IF a = scene THEN Free ELSE heap[a]]
           new == Fresh(mem)
           made == Created(mem, new, "battle")
<1>1. heap \in Heap /\ modal \in BOOLEAN /\ SceneOwned /\ Null \notin Address
      /\ pending \in Address \cup {Null} /\ scene \in Address \cup {Null}
    BY EngineAssumption DEF SceneInv, EngineAssumption
<1>2. SetScene(made, Null, new) /\ pending' = pending
    BY DEF Reload
<1>3. \A a \in Address : mem[a] = IF a = scene THEN Free ELSE heap[a]
    OBVIOUS
<1>4. mem \in Heap
    <2>1. ASSUME NEW a \in Address
          PROVE  (IF a = scene THEN Free ELSE heap[a])
                   \in [kind : Kind \cup {"free"}, loaded : BOOLEAN]
        <3>1. heap[a] \in [kind : Kind \cup {"free"}, loaded : BOOLEAN]
            BY <1>1 DEF Heap
        <3>2. Free \in [kind : Kind \cup {"free"}, loaded : BOOLEAN]
            BY DEF Free
        <3> QED
            BY <3>1, <3>2, Zenon
    <2> QED
        BY <2>1, Zenon DEF Heap
<1> HIDE DEF mem
<1>5. new \in Address /\ mem[new] = Free
    <2>1. \A c \in Address \ {Null, pending} : mem[c] = Free
        BY <1>3, OthersAreFree
    <2> QED
        BY <1>1, <1>4, <2>1, FreshIsFree
<1>6. new # pending
    BY <1>1, <1>3, <1>5 DEF SceneOwned, Free
<1>7. /\ made \in Heap /\ made[new] = [kind |-> "battle", loaded |-> FALSE]
      /\ \A c \in Address \ {new} : made[c] = mem[c]
    BY <1>4, <1>5, CreatedStep DEF Kind
<1> HIDE DEF new, made
<1>8. /\ scene' = new /\ heap' \in Heap
      /\ heap'[new] = [kind |-> made[new].kind, loaded |-> TRUE]
      /\ \A a \in Address \ {new} : heap'[a] = IF a = Null THEN Free ELSE made[a]
      /\ modal' \in BOOLEAN /\ (modal' => modal)
    BY <1>1, <1>2, <1>5, <1>7, SetSceneStep
<1>9. heap'[new] = [kind |-> "battle", loaded |-> TRUE]
    BY <1>7, <1>8
<1>10. ASSUME NEW a \in Address
       PROVE  /\ heap'[a].kind # "free" <=> a \in {scene', pending'}
              /\ heap'[a].loaded <=> a = scene'
    <2>1. CASE a = new
        BY <1>8, <1>9, <2>1
    <2>2. CASE a # new
        <3>1. heap'[a] = IF a = scene THEN Free ELSE heap[a]
            BY <1>1, <1>3, <1>7, <1>8, <2>2
        <3> QED
            BY <1>1, <1>2, <1>8, <2>2, <3>1 DEF SceneOwned, Free
    <2> QED
        BY <2>1, <2>2
<1> QED
    BY <1>2, <1>5, <1>6, <1>8, <1>9, <1>10 DEF SceneOwned

\* The menu's update: the picked scene takes the place of the menu, and nothing waits.
LEMMA PickStep ==
    ASSUME SceneInv, pending # Null, SetScene(heap, scene, pending), pending' = Null
    PROVE  /\ heap' \in Heap /\ scene' \in Address
           /\ SceneOwned'
           /\ modal' \in BOOLEAN /\ (modal' => modal)
<1>1. heap \in Heap /\ modal \in BOOLEAN /\ SceneOwned /\ Null \notin Address
      /\ pending \in Address /\ scene \in Address \cup {Null} /\ scene # pending
    BY EngineAssumption DEF SceneInv, EngineAssumption, SceneOwned
<1>2. /\ scene' = pending /\ heap' \in Heap
      /\ heap'[pending] = [kind |-> heap[pending].kind, loaded |-> TRUE]
      /\ \A a \in Address \ {pending} : heap'[a] = IF a = scene THEN Free ELSE heap[a]
      /\ modal' \in BOOLEAN /\ (modal' => modal)
    BY <1>1, SetSceneStep
<1>3. ASSUME NEW a \in Address
      PROVE  /\ heap'[a].kind # "free" <=> a \in {scene', pending'}
             /\ heap'[a].loaded <=> a = scene'
    <2>1. CASE a = pending
        BY <1>1, <1>2, <2>1 DEF SceneOwned
    <2>2. CASE a # pending
        BY <1>1, <1>2, <2>2 DEF SceneOwned, Free
    <2> QED
        BY <2>1, <2>2
<1> QED
    BY <1>1, <1>2, <1>3 DEF SceneOwned

\* The menu's draw in the frame of a release: nothing waits yet, and the release makes at
\* most one scene that does.
LEMMA ReleaseStep ==
    ASSUME SceneInv, Is("menu"), phase = "draw", MenuRelease
    PROVE  /\ heap' \in Heap /\ pending' \in Address \cup {Null}
           /\ SceneOwned' /\ Is("menu")'
           /\ modal' \in BOOLEAN /\ (modal' => active' # "start")
<1>1. heap \in Heap /\ modal \in BOOLEAN /\ SceneOwned /\ Null \notin Address
      /\ pending = Null /\ scene \in Address /\ heap[scene].kind = "menu"
      /\ (modal => active # "start")
    BY EngineAssumption DEF SceneInv, EngineAssumption, Is
<1>2. \A c \in Address \ {scene, Null} : heap[c] = Free
    BY <1>1, OthersAreFree
<1> DEFINE new == Fresh(heap)
<1>3. new \in Address /\ heap[new] = Free
    BY <1>1, <1>2, FreshIsFree
<1>4. new # scene
    BY <1>1, <1>3 DEF SceneOwned, Free
<1>5. PICK over \in {NoButton, active}, onItem \in BOOLEAN :
        LET opened  == modal \/ over = "mini"
            started == IF over = "start" THEN Created(heap, new, "battle") ELSE heap
            second  == Fresh(started)
            picked  == opened /\ onItem
        IN  /\ modal' = opened
            /\ heap' = IF picked THEN Created(started, second, "arcade") ELSE started
            /\ pending' = CASE picked -> second
                            [] ~picked /\ over = "start" -> new
                            [] OTHER -> pending
    BY DEF MenuRelease
<1>6. scene' = scene /\ active' = active
    BY DEF MenuRelease
<1>7. modal' = (modal \/ over = "mini")
    BY <1>5, Zenon
<1>8. modal' \in BOOLEAN /\ (modal' => active' # "start" /\ over # "start")
    BY <1>1, <1>6, <1>7 DEF NoButton
<1>9. \/ heap' = heap /\ pending' = Null
      \/ \E kind \in Kind : heap' = Created(heap, new, kind) /\ pending' = new
    <2>1. CASE over = "start"
        <3>1. ~modal'
            BY <1>8, <2>1
        <3> QED
            BY <1>5, <1>7, <2>1, <3>1 DEF Kind
    <2>2. CASE over # "start"
        BY <1>1, <1>5, <2>2 DEF Kind
    <2> QED
        BY <2>1, <2>2
<1> HIDE DEF new
<1>10. CASE heap' = heap /\ pending' = Null
    BY <1>1, <1>6, <1>8, <1>10 DEF SceneOwned, Is
<1>11. ASSUME NEW kind \in Kind, heap' = Created(heap, new, kind), pending' = new
       PROVE  /\ heap' \in Heap /\ pending' \in Address \cup {Null}
              /\ SceneOwned' /\ Is("menu")'
    <2>1. /\ heap' \in Heap /\ heap'[new] = [kind |-> kind, loaded |-> FALSE]
          /\ \A c \in Address \ {new} : heap'[c] = heap[c]
        BY <1>1, <1>3, <1>11, CreatedStep
    <2>2. ASSUME NEW a \in Address
          PROVE  /\ heap'[a].kind # "free" <=> a \in {scene', pending'}
                 /\ heap'[a].loaded <=> a = scene'
        <3>1. CASE a = new
            BY <1>4, <1>6, <1>11, <2>1, <3>1 DEF Kind
        <3>2. CASE a # new
            BY <1>1, <1>6, <1>11, <2>1, <3>2 DEF SceneOwned
        <3> QED
            BY <3>1, <3>2
    <2> QED
        BY <1>1, <1>3, <1>4, <1>6, <1>11, <2>1, <2>2 DEF SceneOwned, Is
<1> QED
    BY <1>8, <1>9, <1>10, <1>11

----------------------------------------------------------------------------
(* One step of the program. *)

\* A handler that leaves the scenes alone, and the modal and the active button too, leaves
\* SceneInv alone as long as no draw begins.
LEMMA UntouchedStep ==
    ASSUME SceneInv, UNCHANGED <<scene, heap, pending, modal, active>>,
           phase' = "draw" => phase = "draw"
    PROVE  SceneInv'
BY DEF SceneInv, SceneOwned, Is

\* A scene that was just entered is no intro, and the pick that may wait is the one from
\* before.
LEMMA EnteredStep ==
    ASSUME SceneInv, NEW kind \in {"menu", "battle"},
           heap' \in Heap, scene' \in Address, heap'[scene'].kind = kind, SceneOwned',
           modal' \in BOOLEAN, modal' => modal, pending' = pending, active' = active,
           phase' = "draw" => pending = Null
    PROVE  SceneInv'
BY DEF SceneInv, Is

LEMMA UpdateStep == SceneInv /\ Update => SceneInv'
<1> SUFFICES ASSUME SceneInv, Update PROVE SceneInv'
    OBVIOUS
<1>1. phase = "update" /\ phase' = "draw" /\ active' = active
    BY DEF Update
<1>2. PICK list, ticks :
        IntroUpdate(list, ticks) \/ MenuUpdate(list, ticks) \/ OtherUpdate(list, ticks)
    BY Zenon DEF Update
<1>3. CASE IntroUpdate(list, ticks)
    <2>1. pending = Null /\ pending' = pending
        BY <1>3 DEF IntroUpdate, SceneInv
    <2>2. CASE Enter("menu")
        <3>1. /\ heap' \in Heap /\ scene' \in Address /\ heap'[scene'].kind = "menu"
              /\ SceneOwned' /\ modal' \in BOOLEAN /\ (modal' => modal)
            BY <2>1, <2>2, EnterStep DEF Kind
        <3> QED
            BY <1>1, <2>1, <3>1, EnteredStep
    <2>3. CASE UNCHANGED <<scene, heap, modal>>
        BY <1>1, <2>1, <2>3 DEF SceneInv, SceneOwned, Is
    <2> QED
        BY <1>3, <2>2, <2>3 DEF IntroUpdate
<1>4. CASE MenuUpdate(list, ticks)
    <2>1. CASE pending # Null
        <3>1. SetScene(heap, scene, pending) /\ pending' = Null
            BY <1>4, <2>1 DEF MenuUpdate
        <3>2. /\ heap' \in Heap /\ scene' \in Address /\ SceneOwned'
              /\ modal' \in BOOLEAN /\ (modal' => modal)
            BY <2>1, <3>1, PickStep
        <3> QED
            BY <1>1, <3>1, <3>2 DEF SceneInv
    <2>2. CASE pending = Null
        <3>1. UNCHANGED <<scenes, modal>>
            BY <1>4, <2>2 DEF MenuUpdate
        <3> QED
            BY <1>1, <2>2, <3>1 DEF SceneInv, SceneOwned, Is, scenes
    <2> QED
        BY <2>1, <2>2
<1>5. CASE OtherUpdate(list, ticks)
    BY <1>1, <1>5 DEF OtherUpdate, SceneInv, SceneOwned, Is, scenes
<1> QED
    BY <1>2, <1>3, <1>4, <1>5

LEMMA DrawStep == SceneInv /\ Draw => SceneInv'
<1> SUFFICES ASSUME SceneInv, Draw PROVE SceneInv'
    OBVIOUS
<1>1. phase = "draw" /\ phase' # "draw"
    BY DEF Draw
<1>2. CASE IntroDraw
    <2>1. pending = Null /\ pending' = pending /\ active' = active
        BY <1>2 DEF IntroDraw, SceneInv
    <2>2. CASE Enter("menu")
        <3>1. /\ heap' \in Heap /\ scene' \in Address /\ heap'[scene'].kind = "menu"
              /\ SceneOwned' /\ modal' \in BOOLEAN /\ (modal' => modal)
            BY <2>1, <2>2, EnterStep DEF Kind
        <3> QED
            BY <1>1, <2>1, <3>1, EnteredStep
    <2>3. CASE UNCHANGED <<scene, heap, modal>>
        BY <1>1, <2>1, <2>3, UntouchedStep
    <2> QED
        BY <1>2, <2>2, <2>3 DEF IntroDraw
<1>3. CASE Is("menu") /\ MenuPress
    BY <1>1, <1>3 DEF MenuPress, SceneInv, SceneOwned, Is, scenes
<1>4. CASE Is("menu") /\ MenuRelease
    <2>1. /\ heap' \in Heap /\ pending' \in Address \cup {Null}
          /\ SceneOwned' /\ Is("menu")'
          /\ modal' \in BOOLEAN /\ (modal' => active' # "start")
        BY <1>1, <1>4, ReleaseStep
    <2>2. scene' = scene
        BY <1>4 DEF MenuRelease
    <2> QED
        BY <1>1, <2>1, <2>2 DEF SceneInv, Is
<1>5. CASE Is("menu") /\ MenuRest
    BY <1>1, <1>5 DEF MenuRest, SceneInv, SceneOwned, Is, scenes, NoButton
<1>6. CASE OtherDraw
    BY <1>1, <1>6, UntouchedStep DEF OtherDraw, scenes, menu
<1> QED
    BY <1>2, <1>3, <1>4, <1>5, <1>6 DEF Draw, MenuDraw

LEMMA SceneStep == SceneInv /\ [Next]_vars => SceneInv'
<1> SUFFICES ASSUME SceneInv, [Next]_vars PROVE SceneInv'
    OBVIOUS
<1>1. CASE Receive
    BY <1>1, UntouchedStep DEF Receive, scenes, menu
<1>2. ASSUME NEW b \in Mouse, Press(b) \/ Release(b) PROVE SceneInv'
    BY <1>2, UntouchedStep DEF Press, Release, scenes, menu
<1>3. CASE Move \/ Escape \/ ReloadShaders
    BY <1>3, UntouchedStep DEF Move, Escape, ReloadShaders, scenes, menu
<1>4. CASE Quit
    <2>1. /\ SetScene(heap, scene, Null) /\ pending' = pending /\ active' = active
          /\ phase = "poll" /\ phase' = phase
        BY <1>4 DEF Quit
    <2>2. heap' \in Heap /\ scene' = Null /\ SceneOwned' /\ modal' \in BOOLEAN
          /\ (modal' => modal)
        BY <2>1, QuitStep
    <2> QED
        BY <2>1, <2>2 DEF SceneInv, Is
<1>5. CASE Reload
    <2>1. pending' = pending /\ active' = active /\ phase' # "draw"
        BY <1>5 DEF Reload
    <2>2. /\ heap' \in Heap /\ scene' \in Address /\ heap'[scene'].kind = "battle"
          /\ SceneOwned' /\ modal' \in BOOLEAN /\ (modal' => modal)
        BY <1>5, ReloadStep
    <2> QED
        BY <2>1, <2>2, EnteredStep
<1>6. CASE GoBack
    <2>1. pending' = pending /\ active' = active /\ phase' # "draw"
        BY <1>6 DEF GoBack
    <2>2. CASE Is("menu")
        BY <1>6, <2>1, <2>2 DEF GoBack, SceneInv, SceneOwned, Is
    <2>3. CASE Enter("menu")
        <3>1. /\ heap' \in Heap /\ scene' \in Address /\ heap'[scene'].kind = "menu"
              /\ SceneOwned' /\ modal' \in BOOLEAN /\ (modal' => modal)
            BY <2>1, <2>3, EnterStep DEF Kind
        <3> QED
            BY <2>1, <3>1, EnteredStep
    <2> QED
        BY <1>6, <2>2, <2>3 DEF GoBack
<1>7. CASE PollEnds
    BY <1>7, UntouchedStep DEF PollEnds, scenes, menu
<1>8. CASE UNCHANGED vars
    BY <1>8, UntouchedStep DEF vars, scenes, menu
<1> QED
    BY <1>1, <1>2, <1>3, <1>4, <1>5, <1>6, <1>7, <1>8, UpdateStep, DrawStep DEF Next, Poll

LEMMA SceneInit == Init => SceneInv
<1> SUFFICES ASSUME Init PROVE SceneInv
    OBVIOUS
<1> DEFINE none == [a \in Address |-> Free]
<1>1. none \in Heap
    <2>1. Free \in [kind : Kind \cup {"free"}, loaded : BOOLEAN]
        BY DEF Free
    <2> QED
        BY <2>1, Zenon DEF Heap
<1>2. scene \in Address
    <2>1. \A c \in Address \ {Null, Null} : none[c] = Free
        OBVIOUS
    <2>2. Fresh(none) \in Address
        BY <1>1, <2>1, FreshIsFree
    <2> QED
        BY <2>2, Zenon DEF Init
<1>3. PICK kind \in Kind :
        heap = [a \in Address |-> IF a = scene THEN [kind |-> kind, loaded |-> TRUE] ELSE Free]
    BY Zenon DEF Init
<1>4. heap \in Heap
    BY <1>3 DEF Heap, Free
<1>5. pending = Null /\ modal = FALSE /\ phase = "receive" /\ Null \notin Address
    BY EngineAssumption DEF Init, EngineAssumption
<1>6. ASSUME NEW a \in Address
      PROVE  /\ heap[a].kind # "free" <=> a \in {scene, pending}
             /\ heap[a].loaded <=> a = scene
    BY <1>2, <1>3, <1>5 DEF Free, Kind
<1> QED
    BY <1>2, <1>4, <1>5, <1>6 DEF SceneInv, SceneOwned

\* Every scene that is allocated belongs to the engine or to the menu's pick, and to one of
\* them only, whatever handler replaces it.
THEOREM SceneSafe == Spec => []SceneOwned
<1>1. SceneInv => SceneOwned
    BY DEF SceneInv
<1> QED
    BY <1>1, SceneInit, SceneStep, PTL DEF Spec

----------------------------------------------------------------------------
(* The list of messages. *)

\* Induction, for a set of numbers instead of a property of them.
LEMMA SetInduction ==
    ASSUME NEW S, 0 \in S, \A i \in Nat : i \in S => i + 1 \in S
    PROVE  Nat \subseteq S
<1> DEFINE T == Nat \ S
<1> SUFFICES ASSUME T # {} PROVE FALSE
    OBVIOUS
<1>1. IsWellFoundedOn(OpToRel(<, Nat), Nat)
    BY NatLessThanWellFounded
<1>2. \E x \in T : \A y \in T : ~ (<<y, x>> \in OpToRel(<, Nat))
    BY <1>1, WFMin
<1>3. PICK x \in T : \A y \in T : ~ (y < x)
    BY <1>2 DEF OpToRel
<1>4. x - 1 \in Nat /\ x - 1 < x /\ x - 1 + 1 = x
    OBVIOUS
<1> QED
    BY <1>3, <1>4


\* The time that a message is in the list altogether.
Whole(msg) == InTime + msg.shown + OutTime

\* Of two messages, the first is the older one: it has no less age, unless it has all it
\* can have, and it is not behind, unless it is shown for longer.
InOrder(a, b) ==
    /\ a.age >= b.age \/ a.age = Whole(a)
    /\ a.shown <= b.shown => Rank[a.state] >= Rank[b.state]

Aged(list) == \A i, j \in 1..Len(list) : i < j => InOrder(list[i], list[j])

ListInv(list) == ConsoleTypeOK(list) /\ Aged(list)

LEMMA MessageParts ==
    ASSUME NEW msg \in Message
    PROVE  /\ msg.shown \in {Short, Normal, Long, Longest} /\ msg.shown \in Nat \ {0}
           /\ msg.age \in 0..Whole(msg) /\ msg.age \in Nat /\ Whole(msg) \in Nat
           /\ msg.state \in MessageState
           /\ msg = [shown |-> msg.shown, age |-> msg.age, state |-> msg.state]
<1>1. PICK d \in {Short, Normal, Long, Longest} :
        msg \in [shown : {d}, age : 0 .. InTime + d + OutTime, state : MessageState]
    BY DEF Message
<1>2. msg.shown = d /\ msg.age \in 0 .. InTime + d + OutTime /\ msg.state \in MessageState
      /\ msg = [shown |-> msg.shown, age |-> msg.age, state |-> msg.state]
    BY <1>1
<1>3. d \in Nat \ {0} /\ InTime \in Nat /\ OutTime \in Nat
    BY ConsoleAssumption
<1> QED
    BY <1>2, <1>3 DEF Whole

LEMMA MessageMade ==
    ASSUME NEW d \in {Short, Normal, Long, Longest}, NEW age \in 0 .. InTime + d + OutTime,
           NEW state \in MessageState
    PROVE  [shown |-> d, age |-> age, state |-> state] \in Message
BY DEF Message

\* A step of a message, and of two that are in order: where the younger one is due and has
\* come as far as the older one, the older one is due as well.
LEMMA SteppedMessage ==
    ASSUME NEW msg \in Message
    PROVE  /\ Stepped(msg) \in Message
           /\ Stepped(msg).shown = msg.shown /\ Stepped(msg).age = msg.age
           /\ Stepped(msg).state = IF ~Due(msg) THEN msg.state
                                   ELSE IF msg.state = "in" THEN "visible" ELSE "out"
<1> DEFINE next == IF msg.state = "in" THEN "visible" ELSE "out"
<1>1. /\ msg = [shown |-> msg.shown, age |-> msg.age, state |-> msg.state]
      /\ msg.shown \in {Short, Normal, Long, Longest} /\ msg.age \in 0 .. InTime + msg.shown + OutTime
    BY MessageParts DEF Whole
<1>2. next \in MessageState
    BY DEF MessageState
<1>3. [msg EXCEPT !.state = next] = [shown |-> msg.shown, age |-> msg.age, state |-> next]
    BY <1>1
<1>4. Stepped(msg) = IF ~Due(msg) THEN msg
                     ELSE [shown |-> msg.shown, age |-> msg.age, state |-> next]
    BY <1>3 DEF Stepped
<1> HIDE DEF next
<1>5. [shown |-> msg.shown, age |-> msg.age, state |-> next] \in Message
    BY <1>1, <1>2, MessageMade
<1> QED
    BY <1>4, <1>5 DEF next

LEMMA SteppedInOrder ==
    ASSUME NEW a \in Message, NEW b \in Message, InOrder(a, b), ~Gone(a), ~Gone(b)
    PROVE  InOrder(Stepped(a), Stepped(b))
<1> DEFINE s == Stepped(a)
           t == Stepped(b)
<1>1. /\ s.shown = a.shown /\ s.age = a.age
      /\ s.state = IF ~Due(a) THEN a.state ELSE IF a.state = "in" THEN "visible" ELSE "out"
      /\ t.shown = b.shown /\ t.age = b.age
      /\ t.state = IF ~Due(b) THEN b.state ELSE IF b.state = "in" THEN "visible" ELSE "out"
    BY SteppedMessage
<1> HIDE DEF s, t
<1>2. /\ a.shown \in Nat /\ a.age \in Nat /\ a.state \in MessageState
      /\ b.shown \in Nat /\ b.age \in Nat /\ b.state \in MessageState
      /\ InTime \in Nat /\ OutTime \in Nat
    BY MessageParts, ConsoleAssumption
<1>3. s.age >= t.age \/ s.age = Whole(s)
    BY <1>1 DEF InOrder, Whole
<1>4. /\ Rank["in"] = 1 /\ Rank["visible"] = 2 /\ Rank["out"] = 3
    BY DEF Rank
<1>5. ASSUME a.shown <= b.shown PROVE Rank[s.state] >= Rank[t.state]
    <2>1. Rank[a.state] >= Rank[b.state]
        BY <1>5 DEF InOrder
    <2>2. a.state = b.state /\ Due(b) => Due(a)
        <3> SUFFICES ASSUME a.state = b.state, Due(b) PROVE Due(a)
            OBVIOUS
        <3>1. a.age >= b.age \/ a.age = InTime + a.shown + OutTime
            BY DEF InOrder, Whole
        <3>2. CASE a.state = "in"
            BY <1>2, <3>1, <3>2 DEF Due, DueAt
        <3>3. CASE a.state = "visible"
            BY <1>2, <1>5, <3>1, <3>3 DEF Due, DueAt
        <3>4. CASE a.state = "out"
            BY <1>2, <1>5, <3>1, <3>4 DEF Due, DueAt
        <3> QED
            BY <1>2, <3>2, <3>3, <3>4 DEF MessageState
    <2> QED
        BY <1>1, <1>2, <1>4, <2>1, <2>2 DEF MessageState
<1>6. a.shown = s.shown /\ b.shown = t.shown
    BY <1>1
<1> QED
    BY <1>3, <1>5, <1>6 DEF InOrder, s, t

\* The clock goes on for a message, and for two that are in order.
Later(msg, ticks) == [msg EXCEPT !.age = Sooner(@ + ticks, InTime + msg.shown + OutTime)]

LEMMA LaterMessage ==
    ASSUME NEW msg \in Message, NEW ticks \in Nat
    PROVE  /\ Later(msg, ticks) \in Message
           /\ Later(msg, ticks).shown = msg.shown /\ Later(msg, ticks).state = msg.state
           /\ Later(msg, ticks).age = IF msg.age + ticks <= Whole(msg) THEN msg.age + ticks
                                      ELSE Whole(msg)
<1> DEFINE age == IF msg.age + ticks <= Whole(msg) THEN msg.age + ticks ELSE Whole(msg)
<1>1. /\ msg = [shown |-> msg.shown, age |-> msg.age, state |-> msg.state]
      /\ msg.shown \in {Short, Normal, Long, Longest} /\ msg.state \in MessageState
      /\ msg.age \in Nat /\ Whole(msg) \in Nat
    BY MessageParts
<1>2. Later(msg, ticks) = [msg EXCEPT !.age = age]
    BY DEF Later, Sooner, Whole
<1>3. age \in 0 .. Whole(msg)
    BY <1>1
<1> HIDE DEF age
<1>4. Later(msg, ticks) = [shown |-> msg.shown, age |-> age, state |-> msg.state]
    BY <1>1, <1>2
<1>5. [shown |-> msg.shown, age |-> age, state |-> msg.state] \in Message
    BY <1>1, <1>3, MessageMade DEF Whole
<1> QED
    BY <1>4, <1>5 DEF age

LEMMA LaterInOrder ==
    ASSUME NEW a \in Message, NEW b \in Message, NEW ticks \in Nat, InOrder(a, b)
    PROVE  InOrder(Later(a, ticks), Later(b, ticks))
<1> DEFINE s == Later(a, ticks)
           t == Later(b, ticks)
<1>1. /\ s.shown = a.shown /\ s.state = a.state
      /\ s.age = IF a.age + ticks <= Whole(a) THEN a.age + ticks ELSE Whole(a)
      /\ t.shown = b.shown /\ t.state = b.state
      /\ t.age = IF b.age + ticks <= Whole(b) THEN b.age + ticks ELSE Whole(b)
    BY LaterMessage
<1>2. /\ a.age \in Nat /\ b.age \in Nat /\ Whole(a) \in Nat /\ Whole(b) \in Nat
      /\ a.age <= Whole(a)
    BY MessageParts
<1>3. a.age >= b.age \/ a.age = Whole(a)
    BY DEF InOrder
<1> HIDE DEF s, t
<1>4. Whole(s) = Whole(a)
    BY <1>1 DEF Whole
<1>5. s.age >= t.age \/ s.age = Whole(a)
    BY <1>1, <1>2, <1>3
<1>6. s.shown <= t.shown => Rank[s.state] >= Rank[t.state]
    BY <1>1 DEF InOrder
<1> QED
    BY <1>4, <1>5, <1>6 DEF InOrder, s, t

\* A list of which every message changes, and every two in order stay in order.
LEMMA EachChanged ==
    ASSUME NEW list, ListInv(list), NEW new, new \in [1..Len(list) -> Message],
           \A i, j \in 1..Len(list) : i < j => InOrder(new[i], new[j])
    PROVE  ListInv(new)
<1>1. list \in Seq(Message) /\ Len(list) \in Nat /\ Len(list) <= MaxMessages
    BY LenProperties DEF ListInv, ConsoleTypeOK
<1>2. new \in Seq(Message) /\ Len(new) = Len(list)
    BY <1>1, IsASeq, LenProperties
<1> QED
    BY <1>1, <1>2 DEF ListInv, ConsoleTypeOK, Aged

LEMMA ElapsedKeeps ==
    ASSUME NEW list, ListInv(list), NEW ticks \in Nat PROVE ListInv(Elapsed(list, ticks))
<1> DEFINE new == Elapsed(list, ticks)
<1>1. /\ list \in Seq(Message) /\ DOMAIN list = 1..Len(list)
      /\ \A i \in 1..Len(list) : list[i] \in Message
    BY LenProperties, ElementOfSeq DEF ListInv, ConsoleTypeOK
<1>2. new = [i \in 1..Len(list) |-> Later(list[i], ticks)]
    BY <1>1, Zenon DEF Elapsed, Later
<1> HIDE DEF new
<1>3. new \in [1..Len(list) -> Message]
    BY <1>1, <1>2, LaterMessage
<1>4. ASSUME NEW i \in 1..Len(list), NEW j \in 1..Len(list), i < j
      PROVE  InOrder(new[i], new[j])
    <2>1. InOrder(list[i], list[j])
        BY <1>4 DEF ListInv, Aged
    <2>2. InOrder(Later(list[i], ticks), Later(list[j], ticks))
        BY <1>1, <2>1, LaterInOrder
    <2>3. new[i] = Later(list[i], ticks) /\ new[j] = Later(list[j], ticks)
        BY <1>2
    <2> QED
        BY <2>2, <2>3
<1>5. ListInv(new)
    BY <1>3, <1>4, EachChanged
<1> QED
    BY <1>5 DEF new

\* A new message is younger than all others, and behind none.
LEMMA LoggedKeeps ==
    ASSUME NEW list, ListInv(list), NEW d \in {Short, Normal, Long, Longest}
    PROVE  ListInv(Logged(list, d))
<1> DEFINE msg == [shown |-> d, age |-> 0, state |-> "in"]
           room == IF Len(list) >= MaxMessages THEN Removed(list, 1) ELSE list
<1>0. MaxMessages \in Nat \ {0} /\ InTime \in Nat /\ OutTime \in Nat /\ d \in Nat
    BY ConsoleAssumption
<1>1. /\ list \in Seq(Message) /\ Len(list) \in Nat /\ Len(list) <= MaxMessages
      /\ \A i \in 1..Len(list) : list[i] \in Message
    BY LenProperties, ElementOfSeq DEF ListInv, ConsoleTypeOK
<1>2. msg \in Message
    <2>1. 0 \in 0 .. (InTime + d + OutTime) /\ "in" \in MessageState
        BY <1>0 DEF MessageState
    <2> QED
        BY <2>1, MessageMade
<1>3. /\ room \in Seq(Message) /\ Len(room) \in Nat /\ Len(room) < MaxMessages
      /\ \E k \in Nat : \A i \in 1..Len(room) : i + k \in 1..Len(list) /\ room[i] = list[i + k]
    <2>1. CASE Len(list) >= MaxMessages
        <3> DEFINE none == SubSeq(list, 1, 0)
                   rest == SubSeq(list, 2, Len(list))
        <3>1. none \in Seq(Message) /\ Len(none) = 0
            <4>1. \A i \in 1..0 : list[i] \in Message
                OBVIOUS
            <4> QED
                BY <4>1, SubSeqProperties
        <3>2. none = <<>>
            BY <3>1, EmptySeq
        <3>3. \A i \in 2..Len(list) : list[i] \in Message
            BY <1>1
        <3>4. /\ rest \in Seq(Message)
              /\ Len(rest) = IF 2 <= Len(list) THEN Len(list) - 2 + 1 ELSE 0
              /\ \A i \in 1..(Len(list) - 2 + 1) : rest[i] = list[2 + i - 1]
            BY <1>1, <3>3, SubSeqProperties
        <3>5. room = rest
            <4>1. room = none \o rest
                <5>1. 1 - 1 = 0 /\ 1 + 1 = 2
                    OBVIOUS
                <5>2. Removed(list, 1) = SubSeq(list, 1, 1 - 1) \o SubSeq(list, 1 + 1, Len(list))
                    BY Zenon DEF Removed, RemoveAt
                <5> QED
                    BY <2>1, <5>1, <5>2
            <4> HIDE DEF rest, none
            <4> QED
                BY <3>2, <3>4, <4>1, ConcatEmptySeq
        <3>6. Len(list) >= 1
            BY <1>0, <1>1, <2>1
        <3> HIDE DEF room, rest
        <3> DEFINE l == Len(list)
                   r == Len(rest)
        <3>9. r = l - 1
            <4>1. l \in Nat /\ l >= 1 /\ r = IF 2 <= l THEN l - 2 + 1 ELSE 0
                BY <1>1, <3>4, <3>6
            <4> HIDE DEF l, r
            <4> QED
                BY <4>1
        <3>7. Len(rest) = Len(list) - 1
            BY <3>9
        <3>8. \A i \in 1..Len(rest) : i + 1 \in 1..Len(list) /\ rest[i] = list[i + 1]
            <4> SUFFICES ASSUME NEW i \in 1..Len(rest)
                         PROVE  i + 1 \in 1..Len(list) /\ rest[i] = list[i + 1]
                OBVIOUS
            <4>1. i \in 1..(Len(list) - 2 + 1) /\ 2 + i - 1 = i + 1 /\ i + 1 \in 1..Len(list)
                BY <1>1, <3>7
            <4> QED
                BY <3>4, <4>1
        <3>10. r \in Nat /\ r < MaxMessages
            <4>1. l \in Nat /\ l >= 1 /\ l <= MaxMessages
                BY <1>1, <3>6
            <4> HIDE DEF l, r
            <4> QED
                BY <1>0, <3>9, <4>1
        <3>11. /\ rest \in Seq(Message) /\ Len(rest) \in Nat /\ Len(rest) < MaxMessages
               /\ \E k \in Nat : \A i \in 1..Len(rest) : i + k \in 1..Len(list) /\ rest[i] = list[i + k]
            BY <3>4, <3>8, <3>10
        <3> QED
            BY <3>5, <3>11, Zenon
    <2>2. CASE ~(Len(list) >= MaxMessages)
        <3>1. room = list
            BY <2>2
        <3>2. \A i \in 1..Len(list) : i + 0 \in 1..Len(list) /\ list[i] = list[i + 0]
            OBVIOUS
        <3> HIDE DEF room
        <3> QED
            BY <1>0, <1>1, <2>2, <3>1, <3>2
    <2> QED
        BY <2>1, <2>2
<1> HIDE DEF room, msg
<1>4. PICK k \in Nat :
        \A i \in 1..Len(room) : i + k \in 1..Len(list) /\ room[i] = list[i + k]
    BY <1>3
<1> DEFINE new == Append(room, msg)
<1>5. /\ new \in Seq(Message) /\ Len(new) = Len(room) + 1 /\ new[Len(room) + 1] = msg
      /\ \A i \in 1..Len(room) : new[i] = room[i]
    BY <1>2, <1>3, AppendProperties
<1> HIDE DEF new
<1>6. ASSUME NEW i \in 1..Len(new), NEW j \in 1..Len(new), i < j PROVE InOrder(new[i], new[j])
    <2>1. i \in 1..Len(room)
        BY <1>3, <1>5, <1>6
    <2>2. new[i] = list[i + k] /\ i + k \in 1..Len(list)
        BY <1>4, <1>5, <2>1
    <2>3. CASE j = Len(room) + 1
        <3>1. new[i] \in Message
            BY <1>1, <2>2
        <3>2. new[i].age \in Nat /\ new[i].state \in MessageState
            BY <3>1, MessageParts
        <3>3. new[j] = msg /\ msg.age = 0 /\ msg.state = "in"
            BY <1>5, <2>3 DEF msg
        <3>4. Rank[new[i].state] >= Rank["in"]
            BY <3>2 DEF Rank, MessageState
        <3> QED
            BY <3>2, <3>3, <3>4 DEF InOrder
    <2>4. CASE j # Len(room) + 1
        <3>1. j \in 1..Len(room) /\ i + k < j + k
            <4>1. Len(new) = Len(room) + 1 /\ Len(room) \in Nat
                BY <1>3, <1>5
            <4>2. j \in 1..(Len(room) + 1) /\ i \in Nat /\ j \in Nat
                BY <4>1
            <4> QED
                BY <1>6, <2>4, <4>1, <4>2
        <3>2. new[j] = list[j + k] /\ j + k \in 1..Len(list)
            BY <1>4, <1>5, <3>1
        <3> QED
            BY <2>2, <3>1, <3>2 DEF ListInv, Aged
    <2> QED
        BY <2>3, <2>4
<1>7. ListInv(new)
    <2>1. Len(new) <= MaxMessages
        BY <1>0, <1>3, <1>5
    <2> QED
        BY <1>5, <1>6, <2>1 DEF ListInv, ConsoleTypeOK, Aged
<1> QED
    BY <1>7 DEF Logged, new, room, msg

\* r holds messages of the first i of a list, in the order they have there, and none that
\* is through with moving out.
Left(r, list, i) ==
    /\ r \in Seq(Message) /\ Len(r) <= i
    /\ \A k \in 1..Len(r) : ~Gone(r[k]) /\ \E p \in 1..i : r[k] = list[p]
    /\ \A k, l \in 1..Len(r) :
         k < l => \E p, q \in 1..i : p < q /\ r[k] = list[p] /\ r[l] = list[q]

LEMMA LeftMore ==
    ASSUME NEW list \in Seq(Message), NEW i \in Nat, i < Len(list), NEW r, Left(r, list, i)
    PROVE  /\ Gone(list[i + 1]) => Left(r, list, i + 1)
           /\ ~Gone(list[i + 1]) => Left(Append(r, list[i + 1]), list, i + 1)
<1>1. /\ Len(list) \in Nat /\ i + 1 \in 1..Len(list) /\ list[i + 1] \in Message
      /\ r \in Seq(Message) /\ Len(r) \in Nat /\ Len(r) <= i
    BY LenProperties, ElementOfSeq DEF Left
<1>2. \A p \in 1..i : p \in 1..(i + 1) /\ p < i + 1
    OBVIOUS
<1>3. Left(r, list, i + 1)
    BY <1>1, <1>2 DEF Left
<1>4. ASSUME ~Gone(list[i + 1]) PROVE Left(Append(r, list[i + 1]), list, i + 1)
    <2> DEFINE msg == list[i + 1]
               t == Append(r, msg)
    <2>1. /\ t \in Seq(Message) /\ Len(t) = Len(r) + 1 /\ t[Len(r) + 1] = msg
          /\ \A k \in 1..Len(r) : t[k] = r[k]
        BY <1>1, AppendProperties
    <2>2. msg = list[i + 1] /\ ~Gone(msg) /\ i + 1 \in 1..(i + 1)
        BY <1>4
    <2> HIDE DEF t, msg
    <2>3. \A k \in 1..Len(t) : k \in 1..Len(r) \/ k = Len(r) + 1
        BY <1>1, <2>1
    <2>4. Len(t) <= i + 1
        BY <1>1, <2>1
    <2>5. ASSUME NEW k \in 1..Len(t) PROVE ~Gone(t[k]) /\ \E p \in 1..(i + 1) : t[k] = list[p]
        <3>1. CASE k \in 1..Len(r)
            BY <1>2, <2>1, <3>1, SMTT(30) DEF Left
        <3>2. CASE k = Len(r) + 1
            BY <2>1, <2>2, <3>2
        <3> QED
            BY <2>3, <3>1, <3>2
    <2>6. ASSUME NEW k \in 1..Len(t), NEW l \in 1..Len(t), k < l
          PROVE  \E p, q \in 1..(i + 1) : p < q /\ t[k] = list[p] /\ t[l] = list[q]
        <3>1. k \in 1..Len(r)
            BY <1>1, <2>1, <2>6
        <3>2. CASE l \in 1..Len(r)
            <4>1. PICK p \in 1..i, q \in 1..i : p < q /\ r[k] = list[p] /\ r[l] = list[q]
                BY <2>6, <3>1, <3>2 DEF Left
            <4> QED
                BY <1>2, <2>1, <3>1, <3>2, <4>1
        <3>3. CASE l = Len(r) + 1
            <4>1. PICK p \in 1..i : r[k] = list[p]
                BY <3>1 DEF Left
            <4> QED
                BY <1>2, <2>1, <2>2, <3>1, <3>3, <4>1
        <3> QED
            BY <2>3, <3>2, <3>3
    <2>7. Left(t, list, i + 1)
        BY <2>1, <2>4, <2>5, <2>6 DEF Left
    <2> QED
        BY <2>7 DEF t, msg
<1> QED
    BY <1>3, <1>4

\* f lists what is left after the first 0, 1, ... m messages.
Keeps(f, list, m) ==
    /\ f[0] = <<>>
    /\ \A i \in 1..m : f[i] = IF Gone(list[i]) THEN f[i - 1] ELSE Append(f[i - 1], list[i])

LEMMA KeepsExists ==
    ASSUME NEW list, NEW m \in Nat PROVE \E f : DOMAIN f = 0..m /\ f = [i \in 0..m |-> f[i]] /\ Keeps(f, list, m)
<1> DEFINE Good(k) == \E f : DOMAIN f = 0..k /\ f = [i \in 0..k |-> f[i]] /\ Keeps(f, list, k)
           S == {k \in Nat : Good(k)}
<1>1. 0 \in S
    <2> DEFINE f == [i \in 0..0 |-> <<>>]
    <2>1. DOMAIN f = 0..0 /\ f = [i \in 0..0 |-> f[i]] /\ Keeps(f, list, 0)
        BY DEF Keeps
    <2> QED
        BY <2>1
<1>2. ASSUME NEW k \in Nat, k \in S PROVE k + 1 \in S
    <2>1. PICK f : DOMAIN f = 0..k /\ f = [i \in 0..k |-> f[i]] /\ Keeps(f, list, k)
        BY <1>2
    <2> DEFINE next == IF Gone(list[k + 1]) THEN f[k] ELSE Append(f[k], list[k + 1])
               g == [i \in 0..(k + 1) |-> IF i = k + 1 THEN next ELSE f[i]]
    <2>2. /\ DOMAIN g = 0..(k + 1) /\ g = [i \in 0..(k + 1) |-> g[i]] /\ g[k + 1] = next
          /\ \A i \in 0..k : g[i] = f[i]
        OBVIOUS
    <2> HIDE DEF g
    <2>3. ASSUME NEW i \in 1..(k + 1)
          PROVE  g[i] = IF Gone(list[i]) THEN g[i - 1] ELSE Append(g[i - 1], list[i])
        <3>1. CASE i = k + 1
            <4>1. i - 1 = k /\ k \in 0..k
                BY <3>1
            <4>2. g[i - 1] = f[k]
                BY <2>2, <4>1
            <4> QED
                BY <2>2, <3>1, <4>2
        <3>2. CASE i # k + 1
            <4>1. i \in 1..k /\ i \in 0..k /\ i - 1 \in 0..k
                BY <3>2
            <4>2. f[i] = IF Gone(list[i]) THEN f[i - 1] ELSE Append(f[i - 1], list[i])
                BY <2>1, <4>1 DEF Keeps
            <4> QED
                BY <2>2, <4>1, <4>2
        <3> QED
            BY <3>1, <3>2
    <2>4. g[0] = <<>>
        BY <2>1, <2>2 DEF Keeps
    <2>5. Keeps(g, list, k + 1)
        BY <2>3, <2>4 DEF Keeps
    <2> QED
        BY <2>2, <2>5
<1> HIDE DEF S
<1>3. m \in S
    BY <1>1, <1>2, SetInduction
<1> QED
    BY <1>3 DEF S

LEMMA RemainingLeft ==
    ASSUME NEW list \in Seq(Message)
    PROVE  Left(Remaining(list), list, Len(list))
<1> DEFINE m == Len(list)
           Step(f) == [i \in 0..m |->
                         IF i = 0 THEN <<>>
                         ELSE IF Gone(list[i]) THEN f[i - 1] ELSE Append(f[i - 1], list[i])]
           kept == CHOOSE f : f = Step(f)
<1>1. m \in Nat
    BY LenProperties
<1>2. Remaining(list) = kept[m]
    BY Zenon DEF Remaining
<1>3. PICK g : DOMAIN g = 0..m /\ g = [i \in 0..m |-> g[i]] /\ Keeps(g, list, m)
    BY <1>1, KeepsExists
<1>4. g = Step(g)
    <2>1. ASSUME NEW i \in 0..m
          PROVE  g[i] = IF i = 0 THEN <<>>
                        ELSE IF Gone(list[i]) THEN g[i - 1] ELSE Append(g[i - 1], list[i])
        <3>1. CASE i = 0
            BY <1>3, <3>1 DEF Keeps
        <3>2. CASE i # 0
            <4>1. i \in 1..m
                BY <1>1, <3>2
            <4> QED
                BY <1>3, <3>2, <4>1 DEF Keeps
        <3> QED
            BY <3>1, <3>2
    <2> QED
        BY <1>3, <2>1
<1>5. kept = Step(kept)
    BY <1>4
<1> HIDE DEF kept
<1>6. Keeps(kept, list, m)
    <2>1. kept[0] = <<>>
        BY <1>1, <1>5
    <2>2. ASSUME NEW i \in 1..m
          PROVE  kept[i] = IF Gone(list[i]) THEN kept[i - 1] ELSE Append(kept[i - 1], list[i])
        <3>1. i \in 0..m /\ i # 0
            BY <1>1
        <3> HIDE DEF m
        <3> QED
            BY <1>5, <3>1
    <2> QED
        BY <2>1, <2>2 DEF Keeps
<1> HIDE DEF Step
<1> DEFINE S == {i \in Nat : i <= m => Left(kept[i], list, i)}
<1>7. 0 \in S
    <2>1. kept[0] = <<>> /\ <<>> \in Seq(Message) /\ Len(<<>>) = 0
        BY <1>6, EmptySeq DEF Keeps
    <2>2. Left(<<>>, list, 0)
        BY <2>1 DEF Left
    <2> QED
        BY <2>1, <2>2
<1>8. ASSUME NEW i \in Nat, i \in S PROVE i + 1 \in S
    <2> SUFFICES ASSUME i + 1 <= m PROVE Left(kept[i + 1], list, i + 1)
        OBVIOUS
    <2>1. i < m /\ i + 1 \in 1..m /\ (i + 1) - 1 = i
        BY <1>1
    <2>2. Left(kept[i], list, i)
        BY <1>8, <2>1
    <2>3. kept[i + 1] = IF Gone(list[i + 1]) THEN kept[i] ELSE Append(kept[i], list[i + 1])
        BY <1>6, <2>1 DEF Keeps
    <2>4. /\ Gone(list[i + 1]) => Left(kept[i], list, i + 1)
          /\ ~Gone(list[i + 1]) => Left(Append(kept[i], list[i + 1]), list, i + 1)
        BY <2>1, <2>2, LeftMore
    <2> QED
        BY <2>3, <2>4
<1> HIDE DEF S
<1>9. m \in S
    BY <1>1, <1>7, <1>8, SetInduction
<1> QED
    BY <1>1, <1>2, <1>9 DEF S

\* console_update() keeps the order of the messages.
LEMMA UpdatedKeeps == ASSUME NEW list, ListInv(list) PROVE ListInv(Updated(list))
<1> DEFINE r == Remaining(list)
           new == Updated(list)
<1>1. /\ list \in Seq(Message) /\ Len(list) \in Nat /\ Len(list) <= MaxMessages
      /\ MaxMessages \in Nat /\ \A i \in 1..Len(list) : list[i] \in Message
    BY LenProperties, ElementOfSeq, ConsoleAssumption DEF ListInv, ConsoleTypeOK
<1>2. Left(r, list, Len(list))
    BY <1>1, RemainingLeft
<1>3. new = [i \in DOMAIN r |-> Stepped(r[i])]
    BY Zenon DEF Updated
<1> HIDE DEF r, new
<1>4. /\ r \in Seq(Message) /\ Len(r) \in Nat /\ Len(r) <= Len(list) /\ DOMAIN r = 1..Len(r)
      /\ \A i \in 1..Len(r) : r[i] \in Message /\ ~Gone(r[i])
    BY <1>2, LenProperties, ElementOfSeq DEF Left
<1>5. new \in [1..Len(r) -> Message] /\ \A i \in 1..Len(r) : new[i] = Stepped(r[i])
    BY <1>3, <1>4, SteppedMessage
<1>6. \A i, j \in 1..Len(r) : i < j => InOrder(r[i], r[j])
    BY <1>2 DEF Left, ListInv, Aged
<1>7. ASSUME NEW i \in 1..Len(r), NEW j \in 1..Len(r), i < j PROVE InOrder(new[i], new[j])
    <2>1. InOrder(Stepped(r[i]), Stepped(r[j]))
        BY <1>4, <1>6, <1>7, SteppedInOrder
    <2> QED
        BY <1>5, <2>1
<1>8. ListInv(r)
    BY <1>1, <1>4, <1>6 DEF ListInv, ConsoleTypeOK, Aged
<1>9. ListInv(new)
    BY <1>5, <1>7, <1>8, EachChanged
<1> QED
    BY <1>9 DEF new

LEMMA WrittenKeeps ==
    ASSUME NEW list, ListInv(list), NEW durations \in SUBSET {Short, Normal, Long, Longest},
           NEW new \in Written(list, durations)
    PROVE  ListInv(new)
<1>1. \A d \in durations : ListInv(Logged(list, d))
    BY LoggedKeeps
<1>2. \A d, e \in durations : ListInv(Logged(Logged(list, d), e))
    BY <1>1, LoggedKeeps
<1> QED
    BY <1>1, <1>2 DEF Written

LEMMA AnnouncedKeeps ==
    ASSUME NEW list, ListInv(list), NEW kind PROVE ListInv(Announced(kind, list))
BY LoggedKeeps DEF Announced

LEMMA NothingLogged == ListInv(<<>>)
<1>1. <<>> \in Seq(Message) /\ Len(<<>>) = 0
    BY EmptySeq
<1> QED
    BY <1>1, ConsoleAssumption DEF ListInv, ConsoleTypeOK, Aged

LEMMA PerhapsKeeps ==
    ASSUME NEW lists, \A list \in lists : ListInv(list), NEW d \in {Short, Normal, Long, Longest}
    PROVE  \A list \in Perhaps(lists, d) : ListInv(list)
BY LoggedKeeps DEF Perhaps

LEMMA FailuresKept == \A list \in Failures : ListInv(list)
<1> DEFINE one   == Perhaps({<<>>}, Long)
           two   == Perhaps(one, Long)
           three == Perhaps(two, Longest)
           four  == Perhaps(three, Longest)
<1>1. \A list \in {<<>>} : ListInv(list)
    BY NothingLogged
<1>2. \A list \in one : ListInv(list)
    BY <1>1, PerhapsKeeps
<1> HIDE DEF one
<1>3. \A list \in two : ListInv(list)
    BY <1>2, PerhapsKeeps
<1> HIDE DEF two
<1>4. \A list \in three : ListInv(list)
    BY <1>3, PerhapsKeeps
<1> HIDE DEF three
<1>5. \A list \in four : ListInv(list)
    BY <1>4, PerhapsKeeps
<1> HIDE DEF four
<1>6. \A list \in Perhaps(four, Long) : ListInv(list)
    BY <1>5, PerhapsKeeps
<1> QED
    BY <1>6 DEF Failures, one, two, three, four

\* What the variables beside the scenes and the drag state may be.
PlainInv ==
    /\ phase \in {"receive", "poll", "update", "draw", "stopped", "dead"}
    /\ active \in Button \cup {NoButton}
    /\ goback \in 0 .. MaxGoback
    /\ held \subseteq Mouse /\ swallowed \in BOOLEAN
    /\ ListInv(console)

LEMMA PlainInit == Init => PlainInv
<1> SUFFICES ASSUME Init PROVE PlainInv
    OBVIOUS
<1>1. PICK kind \in Kind, list \in Failures :
        console \in CASE kind = "intro"  -> {Logged(list, Normal),
                                            Logged(Logged(list, Long), Normal)}
                      [] kind = "menu"   -> {Logged(list, Normal)}
                      [] kind = "battle" -> {Logged(list, Normal)}
                      [] kind = "arcade" -> {list}
    BY Zenon DEF Init
<1>2. \/ console = list \/ console = Logged(list, Normal)
      \/ console = Logged(Logged(list, Long), Normal)
    BY <1>1 DEF Kind
<1>3. ListInv(console)
    BY <1>1, <1>2, FailuresKept, LoggedKeeps
<1>4. 0 \in 0 .. MaxGoback
    BY EngineAssumption
<1> QED
    BY <1>3, <1>4 DEF Init, PlainInv

\* The clock, the scenes and what the menu hears write to the list in no other way.
LEMMA PlainUpdate == PlainInv /\ Update => PlainInv'
<1> SUFFICES ASSUME PlainInv, Update PROVE PlainInv'
    OBVIOUS
<1>1. phase' = "draw" /\ active' = active /\ goback' = goback /\ held' = held
      /\ swallowed' = swallowed
    BY DEF Update, input
<1> DEFINE list == Updated(console)
<1>2. PICK ticks \in FrameTicks :
        IntroUpdate(list, ticks) \/ MenuUpdate(list, ticks) \/ OtherUpdate(list, ticks)
    BY Zenon DEF Update
<1>3. ticks \in Nat
    BY EngineAssumption
<1>4. ListInv(list)
    BY UpdatedKeeps DEF PlainInv
<1> HIDE DEF list
<1>5. CASE IntroUpdate(list, ticks)
    <2>1. console' = Elapsed(list, ticks)
        BY <1>5 DEF IntroUpdate
    <2>2. ListInv(console')
        BY <1>3, <1>4, <2>1, ElapsedKeeps
    <2> QED
        BY <1>1, <2>2 DEF PlainInv
<1>6. CASE MenuUpdate(list, ticks)
    <2>1. \/ console' = Elapsed(list, ticks)
          \/ console' = Elapsed(Announced(heap[pending].kind, list), ticks)
        BY <1>6 DEF MenuUpdate
    <2>2. ListInv(Announced(heap[pending].kind, list))
        BY <1>4, AnnouncedKeeps
    <2>3. ListInv(console')
        BY <1>3, <1>4, <2>1, <2>2, ElapsedKeeps
    <2> QED
        BY <1>1, <2>3 DEF PlainInv
<1>7. CASE OtherUpdate(list, ticks)
    <2>1. PICK written \in Written(list, IF Is("battle") THEN {Short, Normal} ELSE {}) :
            console' = Elapsed(written, ticks)
        BY <1>7 DEF OtherUpdate
    <2>2. (IF Is("battle") THEN {Short, Normal} ELSE {}) \in SUBSET {Short, Normal, Long, Longest}
        OBVIOUS
    <2>3. ListInv(written)
        BY <1>4, <2>2, WrittenKeeps
    <2>4. ListInv(console')
        BY <1>3, <2>1, <2>3, ElapsedKeeps
    <2> QED
        BY <1>1, <2>4 DEF PlainInv
<1> QED
    BY <1>2, <1>5, <1>6, <1>7

LEMMA PlainDraw == PlainInv /\ Draw => PlainInv'
<1> SUFFICES ASSUME PlainInv, Draw PROVE PlainInv'
    OBVIOUS
<1>1. phase' \in {"receive", "stopped", "dead"} /\ goback' = goback /\ held' = held
      /\ swallowed' = swallowed
    BY DEF Draw, input
<1>2. console' = console \/ console' = Logged(console, Long)
    BY DEF Draw, IntroDraw, MenuDraw, MenuPress, MenuRelease, MenuRest, OtherDraw
<1>3. active' \in Button \cup {NoButton}
    BY DEF PlainInv, Draw, IntroDraw, MenuDraw, MenuPress, MenuRelease, MenuRest, OtherDraw, menu
<1>4. ListInv(console')
    BY <1>2, LoggedKeeps DEF PlainInv
<1> QED
    BY <1>1, <1>3, <1>4 DEF PlainInv

LEMMA PlainStep == PlainInv /\ [Next]_vars => PlainInv'
<1> SUFFICES ASSUME PlainInv, [Next]_vars PROVE PlainInv'
    OBVIOUS
<1> USE DEF menu, input
<1>0. ListInv(console) /\ MaxGoback \in Nat
    BY EngineAssumption DEF PlainInv
<1>1. CASE Receive
    <2>1. console' \in Written(console, IF Is("menu") THEN {Normal, Long} ELSE {})
        BY <1>1 DEF Receive
    <2>2. (IF Is("menu") THEN {Normal, Long} ELSE {}) \in SUBSET {Short, Normal, Long, Longest}
        OBVIOUS
    <2>3. ListInv(console')
        BY <1>0, <2>1, <2>2, WrittenKeeps
    <2> QED
        BY <1>1, <2>3 DEF Receive, PlainInv
<1>2. ASSUME NEW b \in Mouse, Press(b) \/ Release(b) PROVE PlainInv'
    BY <1>2 DEF Press, Release, PlainInv
<1>3. CASE Move
    <2>1. swallowed' \in BOOLEAN
        BY <1>3 DEF Move
    <2> QED
        BY <1>3, <2>1 DEF Move, PlainInv
<1>4. CASE Escape
    <2>1. goback' \in 0 .. MaxGoback
        BY <1>0, <1>4 DEF Escape, PlainInv
    <2> QED
        BY <1>4, <2>1 DEF Escape, PlainInv
<1>5. CASE ReloadShaders
    <2>1. ListInv(console')
        BY <1>0, <1>5, LoggedKeeps DEF ReloadShaders
    <2> QED
        BY <1>5, <2>1 DEF ReloadShaders, PlainInv
<1>6. CASE Quit
    BY <1>6 DEF Quit, PlainInv
<1>7. CASE Reload
    <2>1. console' = Announced("battle", console)
        BY <1>7 DEF Reload
    <2>2. ListInv(console')
        BY <1>0, <2>1, AnnouncedKeeps
    <2> QED
        BY <1>7, <2>2 DEF Reload, PlainInv
<1>8. CASE GoBack
    <2>1. goback' \in 0 .. MaxGoback
        BY <1>0, <1>8 DEF GoBack, PlainInv
    <2>2. ListInv(console')
        BY <1>0, <1>8, LoggedKeeps DEF GoBack
    <2> QED
        BY <1>8, <2>1, <2>2 DEF GoBack, PlainInv
<1>9. CASE PollEnds
    BY <1>9 DEF PollEnds, PlainInv
<1>10. CASE UNCHANGED vars
    BY <1>10 DEF vars, PlainInv
<1> QED
    BY <1>1, <1>2, <1>3, <1>4, <1>5, <1>6, <1>7, <1>8, <1>9, <1>10, PlainUpdate, PlainDraw
       DEF Next, Poll

\* A message is never behind a younger one that is shown as long, for any number of messages,
\* any times and any lengths of the frames (console_update() and console_log()).
THEOREM OlderAlways == Spec => []OlderIsAhead
<1>1. PlainInv => OlderIsAhead
    <2> SUFFICES ASSUME ListInv(console) PROVE OlderIsAheadIn(console)
        BY DEF PlainInv, OlderIsAhead
    <2>1. DOMAIN console = 1..Len(console)
        BY LenProperties DEF ListInv, ConsoleTypeOK
    <2> QED
        BY <2>1 DEF ListInv, Aged, InOrder, OlderIsAheadIn
<1> QED
    BY <1>1, PlainInit, PlainStep, PTL DEF Spec

\* The state of the main loop keeps its types; the console never holds more than it has room
\* for (console_add_message()).
THEOREM EngineTyped == Spec => []EngineTypeOK
<1>1. Init => DragInv
    BY DEF Init, DragInv, DragState, IsDown
<1>2. PlainInv /\ SceneInv /\ DragInv => EngineTypeOK
    BY DEF PlainInv, SceneInv, DragInv, ListInv, EngineTypeOK, Heap
<1> QED
    BY <1>1, <1>2, PlainInit, PlainStep, SceneInit, SceneStep, DragStep, PTL DEF Spec
=============================================================================
