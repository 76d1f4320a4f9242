---------------------------- MODULE ServerConsole ----------------------------
(***************************************************************************)
(* The two threads of the server program, server/server_main.c: the UI     *)
(* thread (main) that prints the log and reads the operator's commands,    *)
(* and the network thread that runs the game server of gameserver.c. They  *)
(* share the log queue, under a mutex, and `gserver`, under nothing: the   *)
(* shutdown flag, and the registry of sessions that /status and the raw    *)
(* broadcast walk while the network thread changes it.                     *)
(*                                                                         *)
(* pc[t] is where thread t is. One step is what no other thread can see in *)
(* parts: one access to the registry, or one side of a lock. (The memmove  *)
(* of a deletion is one step, too.)                                        *)
(*                                                                         *)
(* The registry is an stb_ds array: `slots` is its memory, as long as its  *)
(* capacity, and `len` its length, which is kept in front of the slots.    *)
(* Deleting moves the later slots down and leaves the last one as it was.  *)
(* Growing may move the array: its old memory is freed, and gserver goes   *)
(* on pointing there until the new address is stored. What a read of freed *)
(* memory, or of a slot that was never written, finds is anybody's guess.  *)
(***************************************************************************)
EXTENDS Naturals, Sequences, FiniteSets

CONSTANTS Session,    \* the connections' sessions
          NoSession,
          MinCapacity,\* the slots of the first allocation (4 in the code)
          QueueMax,   \* messagequeue_max (128 in the code)
          HelpLines   \* what a command logs, its echo included (up to 5 in the code)

ASSUME ConsoleAssumption == /\ NoSession \notin Session
                            /\ MinCapacity \in Nat \ {0}
                            /\ QueueMax \in Nat \ {0}
                            /\ HelpLines \in Nat \ {0}

VARIABLES pc,         \* pc["ui"], pc["net"]
          next,       \* where the thread goes on when its lines are logged
          todo,       \* how many lines it has yet to log
          mutex,      \* who holds messagequeue_mutex: "ui", "net" or "free"
          log,        \* messagequeue: line numbers
          logged,     \* history: the number of the last line logged
          shown,      \* history: the number of the last line printed
          at,         \* the UI thread's loop index: lines printed, or slots visited
          shutdown,   \* gserver.shutdown_requested
          slots, len, \* the memory of gserver.sessions, and its length
          block,      \* what gserver.sessions points to: "null", "here" or "freed"
          live,       \* the sessions that libwebsockets has not freed
          opening,    \* the session whose connect callback stores it
          closing,    \* the session whose close callback runs
          seen,       \* what the address that the UI thread has loaded points to, and
          got,        \* the session that it has loaded from a slot, until they are used
          cast        \* the raw broadcast under way: the cached length, and as history
                      \* the sessions there at its start that are still there, how often
                      \* each was written to, whether one has left, and whether memory
                      \* was read that was freed or not yet written

logVars  == <<mutex, log, logged, shown>>
array    == <<slots, len, block>>
registry == <<array, live, opening, closing>>
walk     == <<at, seen, got, cast>>
vars == <<pc, next, todo, logVars, shutdown, registry, walk>>

Thread == {"ui", "net"}

\* Lines are numbered, modulo a number that no queue reaches.
Wrap == QueueMax + 2
Succ(n) == (n + 1) % Wrap

\* The capacity that a full array of capacity c grows to.
Grown(c) == IF c + 1 < 2 * c THEN 2 * c ELSE IF c + 1 < MinCapacity THEN MinCapacity ELSE c + 1

\* The last slot is counted and not yet written; or the last is still counted after
\* all have moved down.
Filling   == pc["net"] = "fill"
Shrinking == pc["net"] = "shrink"

\* The sessions of the registry, by their places.
Held    == 1..(IF Shrinking THEN len - 1 ELSE len)
Slot(i) == IF Filling /\ i = len THEN opening ELSE slots[i]
Listed  == {Slot(i) : i \in Held}

NoCast == [len |-> 0, present |-> {}, wrote |-> [s \in Session |-> 0],
           left |-> FALSE, astray |-> FALSE]

Init == /\ pc = [ui |-> "lock", net |-> "off"]
        /\ next = [ui |-> "create", net |-> "off"]
        /\ todo = [ui |-> 1, net |-> 0]
        /\ mutex = "free" /\ log = <<>> /\ logged = 0 /\ shown = 0
        /\ at = 0
        /\ shutdown = FALSE
        /\ slots = <<>> /\ len = 0 /\ block = "null"
        /\ live = {} /\ opening = NoSession /\ closing = NoSession
        /\ seen = "null" /\ got = NoSession /\ cast = NoCast

----------------------------------------------------------------------------
(* Control. *)

Aborted == pc["ui"] = "aborted"

At(t, here) == pc[t] = here /\ ~Aborted

Goto(t, there) == /\ pc' = [pc EXCEPT ![t] = there]
                  /\ UNCHANGED <<next, todo>>

\* Call console_log() n times, then go on at `there`.
LogThen(t, n, there) == /\ pc' = [pc EXCEPT ![t] = "lock"]
                        /\ todo' = [todo EXCEPT ![t] = n]
                        /\ next' = [next EXCEPT ![t] = there]

\* abort() takes both threads down.
Abort == /\ pc' = [t \in Thread |-> "aborted"]
         /\ UNCHANGED <<next, todo, logVars, shutdown, registry, walk>>

\* console_log(): take the lock ...
Lock(t) == /\ At(t, "lock")
           /\ mutex = "free"
           /\ mutex' = t
           /\ Goto(t, "append")
           /\ UNCHANGED <<log, logged, shown, shutdown, registry, walk>>

\* ... append and unlock. The session whose closing was logged is freed when the
\* callback returns.
AppendLine(t) ==
    /\ At(t, "append")
    /\ Len(log) < QueueMax
    /\ log' = Append(log, Succ(logged))
    /\ logged' = Succ(logged)
    /\ mutex' = "free"
    /\ todo' = [todo EXCEPT ![t] = @ - 1]
    /\ pc' = [pc EXCEPT ![t] = IF todo[t] > 1 THEN "lock" ELSE next[t]]
    /\ live' = IF t = "net" THEN live \ {closing} ELSE live
    /\ closing' = IF t = "net" THEN NoSession ELSE closing
    /\ UNCHANGED <<next, shown, shutdown, array, opening, walk>>

\* assert(messagequeue_len < messagequeue_max) fails.
AppendFails(t) == At(t, "append") /\ Len(log) >= QueueMax /\ Abort

----------------------------------------------------------------------------
(* The UI thread: main(). *)

CreateThread == /\ At("ui", "create")
                /\ pc' = [ui |-> "drain", net |-> "init"]
                /\ UNCHANGED <<next, todo, logVars, shutdown, registry, walk>>

\* Mutant of Drain: the queue is printed without the lock.
DrainUnlocked == /\ At("ui", "drain")
                 /\ at' = 0
                 /\ Goto("ui", "print")
                 /\ UNCHANGED <<logVars, shutdown, registry, seen, got, cast>>

\* The head of the loop prints the log under the lock: lock, a line at a time,
\* then empty the queue and unlock.
Drain == /\ At("ui", "drain")
         /\ mutex = "free"
         /\ mutex' = "ui"
         /\ at' = 0
         /\ Goto("ui", "print")
         /\ UNCHANGED <<log, logged, shown, shutdown, registry, seen, got, cast>>

PrintLine == /\ At("ui", "print")
         /\ at < Len(log)
         /\ shown' = log[at + 1]
         /\ at' = at + 1
         /\ UNCHANGED <<pc, next, todo, mutex, log, logged, shutdown, registry, seen, got, cast>>

PrintedAll == /\ At("ui", "print")
              /\ at = Len(log)
              /\ Goto("ui", "reset")
              /\ UNCHANGED <<logVars, shutdown, registry, walk>>

Drained == /\ At("ui", "reset")
           /\ log' = <<>>
           /\ at' = 0
           /\ mutex' = "free"
           /\ Goto("ui", "key")
           /\ UNCHANGED <<logged, shown, shutdown, registry, seen, got, cast>>

\* wgetch() times out, or a key only edits the input line.
OtherKey == /\ At("ui", "key")
            /\ Goto("ui", "drain")
            /\ UNCHANGED <<logVars, shutdown, registry, walk>>

\* A command that only logs: its echo, then its answer.
Command == /\ At("ui", "key")
           /\ \E n \in 1..HelpLines : LogThen("ui", n, "drain")
           /\ UNCHANGED <<logVars, shutdown, registry, walk>>

\* Load the address of the array from gserver.
LoadArray(here, there) == /\ At("ui", here)
                          /\ seen' = block
                          /\ Goto("ui", there)
                          /\ UNCHANGED <<logVars, shutdown, registry, at, got, cast>>

\* The lengths that may be read behind the address. (Whoever reads freed memory may also
\* die of it, as of a length that reaches beyond all memory.)
Lengths == CASE seen = "null" -> {0}
             [] seen = "here" -> {len}
             [] seen = "freed" -> 0..Len(slots)

\* What is read behind the address, at the next index, is not what was stored there.
Astray == seen # "here" \/ (Filling /\ at + 1 = len)

\* Load the session at the next index.
LoadSlot == /\ got' \in IF Astray THEN Session \cup {NoSession} ELSE {slots[at + 1]}
            /\ seen' = "null"
            /\ UNCHANGED <<logVars, shutdown, registry, at>>

\* /status: a head, then a line for every slot below the length, which is read
\* each time; then the slot is read, and then what it points to.
Status == /\ At("ui", "key")
          /\ LogThen("ui", HelpLines, "status")
          /\ at' = 0
          /\ UNCHANGED <<logVars, shutdown, registry, seen, got, cast>>

StatusArray == LoadArray("status", "more")

StatusMore == /\ At("ui", "more")
              /\ \/ \E n \in Lengths :
                      /\ IF at < n THEN Goto("ui", "entry") /\ UNCHANGED <<at, seen>>
                                   ELSE Goto("ui", "drain") /\ at' = 0 /\ seen' = "null"
                      /\ UNCHANGED <<logVars, shutdown, registry, got, cast>>
                 \/ seen = "freed" /\ Abort

StatusSlot == /\ At("ui", "entry")
              /\ \/ LoadSlot /\ Goto("ui", "about") /\ UNCHANGED cast
                 \/ Astray /\ Abort

StatusSession == /\ At("ui", "about")
                 /\ \/ /\ LogThen("ui", 1, "status")
                       /\ at' = at + 1
                       /\ got' = NoSession
                       /\ UNCHANGED <<logVars, shutdown, registry, seen, cast>>
                    \/ got \notin live /\ Abort

\* Anything else is sent to everybody, by gameserver_send_raw() on this thread,
\* which reads the length once ...
Broadcast == LoadArray("key", "count")

BeginCast(n) ==
    /\ cast' = [len |-> n, present |-> IF seen = "null" THEN {} ELSE Listed,
                wrote |-> NoCast.wrote, left |-> Shrinking, astray |-> (seen = "freed")]
    /\ at' = 0
    /\ seen' = "null"
    /\ Goto("ui", "cast")
    /\ UNCHANGED <<logVars, shutdown, registry, got>>

\* Mutant of CastLength: the loop ends a slot early.
CastLengthShort ==
    /\ At("ui", "count")
    /\ \E n \in Lengths : BeginCast(IF n > 0 THEN n - 1 ELSE 0)

\* (of an array that was not there when its address was loaded, it is 0) ...
CastLength ==
    /\ At("ui", "count")
    /\ \/ \E n \in Lengths : BeginCast(n)
       \/ seen = "freed" /\ Abort

\* ... and then, for each index, the address, the slot, and the session to write to.
CastArray == at < cast.len /\ LoadArray("cast", "slot")

CastSlot == /\ At("ui", "slot")
            /\ \/ /\ LoadSlot
                  /\ cast' = [cast EXCEPT !.astray = @ \/ Astray]
                  /\ Goto("ui", "write")
               \/ Astray /\ Abort

\* One that is freed by then is undefined behaviour, too: the process dies, or nothing
\* comes of it.
CastWrite == /\ At("ui", "write")
             /\ \/ /\ cast' = IF got \in live THEN [cast EXCEPT !.wrote[got] = @ + 1] ELSE cast
                   /\ at' = at + 1
                   /\ got' = NoSession
                   /\ Goto("ui", "cast")
                   /\ UNCHANGED <<logVars, shutdown, registry, seen>>
                \/ got \notin live /\ Abort

CastDone == /\ At("ui", "cast")
            /\ at = cast.len
            /\ at' = 0
            /\ cast' = NoCast
            /\ LogThen("ui", 1, "drain")
            /\ UNCHANGED <<logVars, shutdown, registry, seen, got>>

\* ^D: log "Quitting...", request the shutdown and leave the loop.
Quit == /\ At("ui", "key")
        /\ LogThen("ui", 1, "quit")
        /\ UNCHANGED <<logVars, shutdown, registry, walk>>

RequestShutdown == /\ At("ui", "quit")
                   /\ shutdown' = TRUE
                   /\ Goto("ui", "join")
                   /\ UNCHANGED <<logVars, registry, walk>>

\* Mutant of Join: main() returns without pthread_join().
JoinAtOnce == /\ At("ui", "join")
              /\ Goto("ui", "end")
              /\ UNCHANGED <<logVars, shutdown, registry, walk>>

\* pthread_join(), then the mutex is destroyed and main() returns.
Join == /\ At("ui", "join")
        /\ pc["net"] = "done"
        /\ Goto("ui", "end")
        /\ UNCHANGED <<logVars, shutdown, registry, walk>>

----------------------------------------------------------------------------
(* The network thread: thread_run_gameserver(). *)

\* gameserver_init() clears the whole of gserver first.
NetInit == /\ At("net", "init")
           /\ shutdown' = FALSE
           /\ slots' = <<>> /\ len' = 0 /\ block' = "null"
           /\ \E there \in {"check", "done"} : LogThen("net", 1, there)
           /\ UNCHANGED <<logVars, live, opening, closing, walk>>

\* Mutant of Check: the loop does not look at the flag.
CheckNothing == /\ At("net", "check")
                /\ Goto("net", "service")
                /\ UNCHANGED <<logVars, shutdown, registry, walk>>

\* gameserver_listen(): the condition of its loop.
Check == /\ At("net", "check")
         /\ Goto("net", IF shutdown THEN "stop" ELSE "service")
         /\ UNCHANGED <<logVars, shutdown, registry, walk>>

\* lws_service() returns without a callback.
Idle == /\ At("net", "service")
        /\ Goto("net", "check")
        /\ UNCHANGED <<logVars, shutdown, registry, walk>>

\* Mutant of NetConnect: the array that is full is not grown.
NetConnectFull(s) ==
    /\ At("net", "service")
    /\ s \notin live
    /\ live' = live \cup {s}
    /\ opening' = s
    /\ Goto("net", IF len <= Len(slots) /\ slots # <<>> THEN "push" ELSE "grow")
    /\ UNCHANGED <<logVars, shutdown, array, closing, walk>>

\* gameserver_on_connect(): stbds_arrpush() grows an array that is full ...
NetConnect(s) ==
    /\ At("net", "service")
    /\ s \notin live
    /\ live' = live \cup {s}
    /\ opening' = s
    /\ Goto("net", IF len < Len(slots) THEN "push" ELSE "grow")
    /\ UNCHANGED <<logVars, shutdown, array, closing, walk>>

\* ... by realloc(), in place or by a move that frees the old memory ...
Grow == /\ At("net", "grow")
        /\ slots' = [i \in 1..Grown(Len(slots)) |->
                        IF i <= Len(slots) THEN slots[i] ELSE NoSession]
        /\ \/ block = "here" /\ UNCHANGED <<block, seen>>
           \/ /\ block' = IF block = "here" THEN "freed" ELSE block
              /\ seen' = IF seen = "here" THEN "freed" ELSE seen
        /\ Goto("net", "publish")
        /\ UNCHANGED <<logVars, shutdown, len, live, opening, closing, at, got, cast>>

\* ... stores the address ...
Publish == /\ At("net", "publish")
           /\ block' = "here"
           /\ Goto("net", "push")
           /\ UNCHANGED <<logVars, shutdown, slots, len, live, opening, closing, walk>>

\* ... and then the session behind the last one and the length, in the one order or the
\* other; then the callback logs.
Push == /\ At("net", "push")
        /\ \/ /\ slots' = [slots EXCEPT ![len + 1] = opening]
              /\ Goto("net", "raise")
              /\ UNCHANGED len
           \/ /\ len' = len + 1
              /\ Goto("net", "fill")
              /\ UNCHANGED slots
        /\ UNCHANGED <<logVars, shutdown, block, live, opening, closing, walk>>

Pushed == /\ \/ At("net", "raise") /\ len' = len + 1 /\ UNCHANGED slots
             \/ At("net", "fill") /\ slots' = [slots EXCEPT ![len] = opening] /\ UNCHANGED len
          /\ opening' = NoSession
          /\ LogThen("net", 1, "check")
          /\ UNCHANGED <<logVars, shutdown, block, live, closing, walk>>

\* gameserver_on_message(): the callback logs, and then dispatches.
NetMessage == /\ At("net", "service")
              /\ live # {}
              /\ LogThen("net", 1, "check")
              /\ UNCHANGED <<logVars, shutdown, registry, walk>>

\* Mutant of Remove: the last session is dropped, whoever it is.
RemoveLast(s, there) ==
    /\ s \in live
    /\ closing' = s
    /\ cast' = [cast EXCEPT !.present = @ \ {s}, !.left = @ \/ s \in cast.present]
    /\ pc' = [pc EXCEPT !["net"] = "shrink"]
    /\ next' = [next EXCEPT !["net"] = there]
    /\ UNCHANGED <<todo, logVars, shutdown, array, live, opening, at, seen, got>>

\* gameserver_on_disconnect(): stbds_arrdel() moves the later slots down ...
Remove(s, there) ==
    /\ s \in live
    /\ LET n == CHOOSE i \in 1..len : slots[i] = s
       IN  slots' = [i \in DOMAIN slots |->
                        IF i >= n /\ i < len THEN slots[i + 1] ELSE slots[i]]
    /\ closing' = s
    /\ cast' = [cast EXCEPT !.present = @ \ {s}, !.left = @ \/ s \in cast.present]
    /\ pc' = [pc EXCEPT !["net"] = "shrink"]
    /\ next' = [next EXCEPT !["net"] = there]
    /\ UNCHANGED <<todo, logVars, shutdown, len, block, live, opening, at, seen, got>>

\* ... and lowers the length; then the callback logs.
Removed == /\ At("net", "shrink")
           /\ len' = len - 1
           /\ LogThen("net", 1, next["net"])
           /\ UNCHANGED <<logVars, shutdown, slots, block, live, opening, closing, walk>>

NetDisconnect(s) == At("net", "service") /\ Remove(s, "check")

\* gameserver_destroy(): lws_context_destroy() closes what is still open.
Destroy == /\ At("net", "stop")
           /\ \/ \E s \in live : Remove(s, "stop")
              \/ live = {} /\ Goto("net", "done")
                 /\ UNCHANGED <<logVars, shutdown, registry, walk>>

----------------------------------------------------------------------------
UI == \/ Lock("ui") \/ AppendLine("ui") \/ AppendFails("ui")
      \/ CreateThread \/ Drain \/ PrintLine \/ PrintedAll \/ Drained
      \/ OtherKey \/ Command
      \/ Status \/ StatusArray \/ StatusMore \/ StatusSlot \/ StatusSession
      \/ Broadcast \/ CastLength \/ CastArray \/ CastSlot \/ CastWrite \/ CastDone
      \/ Quit \/ RequestShutdown \/ Join

\* What the network thread does by itself, and what it does when lws_service() has
\* something for it.
NetWork == \/ Lock("net") \/ AppendLine("net") \/ AppendFails("net")
           \/ NetInit \/ Check \/ Destroy
           \/ Grow \/ Publish \/ Push \/ Pushed \/ Removed

NetEvent == Idle \/ NetMessage \/ \E s \in Session : NetConnect(s) \/ NetDisconnect(s)

Next == UI \/ NetWork \/ NetEvent

Spec == Init /\ [][Next]_vars

\* Both threads are scheduled. Nothing makes lws_service() return: it blocks until a
\* socket or a timer of libwebsockets has something, and gameserver_shutdown() does not
\* wake it up.
Fairness == WF_vars(UI) /\ WF_vars(NetWork)

FairSpec == Spec /\ Fairness

----------------------------------------------------------------------------
(* Properties. *)

ConsoleTypeOK ==
    /\ pc \in [Thread -> {"lock", "append", "create", "drain", "print", "reset", "key", "status",
                          "more", "entry", "about", "count", "cast", "slot", "write",
                          "quit", "join", "end", "off", "init", "check", "service",
                          "grow", "publish", "push", "raise", "fill", "shrink",
                          "stop", "done", "aborted"}]
    /\ next \in [Thread -> {"create", "drain", "status", "quit", "off", "check", "stop", "done"}]
    /\ todo \in [Thread -> Nat]
    /\ mutex \in Thread \cup {"free"}
    /\ log \in Seq(0..(Wrap - 1)) /\ logged \in 0..(Wrap - 1) /\ shown \in 0..(Wrap - 1)
    /\ at \in Nat
    /\ shutdown \in BOOLEAN
    /\ slots \in Seq(Session \cup {NoSession}) /\ len \in 0..Len(slots)
    /\ block \in {"null", "here", "freed"} /\ seen \in {"null", "here", "freed"}
    /\ live \in SUBSET Session
    /\ {opening, closing, got} \subseteq Session \cup {NoSession}
    /\ cast.present \in SUBSET Session /\ cast.left \in BOOLEAN /\ cast.astray \in BOOLEAN
    /\ cast.len \in Nat /\ cast.wrote \in [Session -> Nat]

\* Lines printed under the lock and not yet taken off the queue.
Printed == IF pc["ui"] \in {"print", "reset"} THEN at ELSE 0

\* No line that either thread logs is lost, doubled or overtaken on its way to the
\* screen: the queue goes on where the screen ends, and ends where the log does.
\* (What is logged after the last time round the loop stays in the queue.)
LogIntact ==
    ~Aborted =>
        /\ \A i \in DOMAIN log : log[i] = (shown + Wrap - Printed + i) % Wrap
        /\ logged = (shown + Wrap - Printed + Len(log)) % Wrap

\* The registry holds each session, once, from the moment the length counts it until the
\* others have moved into its place, also while the array grows or moves.
RegistryLive ==
    ~Aborted =>
        /\ Listed = live \ {closing, IF Filling THEN NoSession ELSE opening}
        /\ \A i, j \in Held : Slot(i) = Slot(j) => i = j

\* The raw broadcast writes once to everybody who was there when it began, although the
\* registry may grow under it, and even move, between one look at it and the next. It does
\* not, where somebody leaves meanwhile; nor where the array moves, or is raised, in the
\* middle of one look, so that the broadcast reads what was freed or not yet written.
BroadcastReachesAll ==
    (pc["ui"] = "cast" /\ at = cast.len /\ ~cast.left /\ ~cast.astray) =>
        \A s \in Session : cast.wrote[s] = IF s \in cast.present THEN 1 ELSE 0

\* What the comment in gameserver_send_raw() says, "we send to everybody": whoever
\* was there when it began, and still is when it ends, has been written to. (Whatever
\* comes of a read of freed memory is not held against it.)
BroadcastMissesNobody ==
    (pc["ui"] = "cast" /\ at = cast.len /\ ~cast.astray) =>
        \A s \in cast.present : cast.wrote[s] > 0

\* main() ends, and the mutex with it, only after the network thread: nobody logs
\* with a mutex that is gone, and no session survives.
EndsLast == pc["ui"] = "end" => pc["net"] = "done" /\ mutex = "free" /\ live = {}

\* As long as lws_service() goes on returning to its loop, a shutdown that is requested
\* after the network thread cleared gserver ends the program, whatever callbacks run and
\* however many sessions are still open. (Without traffic, main() may wait for ever.)
QuitEnds ==
    []<>(pc["net"] # "service") =>
        ((pc["ui"] = "join" /\ shutdown /\ pc["net"] # "init") ~> (pc["ui"] = "end" \/ Aborted))

\* What console_log() asserts: a line that is about to be logged finds a place.
LogHasRoom == \A t \in Thread : pc[t] = "append" => Len(log) < QueueMax
=============================================================================
