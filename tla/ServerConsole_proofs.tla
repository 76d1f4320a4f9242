------------------------- MODULE ServerConsole_proofs -------------------------
(***************************************************************************)
(* Proofs about ServerConsole, for any number of sessions, any length of   *)
(* the log queue and of the commands' answers, and any first capacity of   *)
(* the registry.                                                           *)
(*                                                                         *)
(* What the invariants need beside themselves is where each thread is      *)
(* while it holds something: the mutex is held exactly at the places       *)
(* between lock and unlock (Control), the queue is shorter than what is    *)
(* printed of it only outside of the loop (LogInv), a session is opening   *)
(* or closing only in its callback, and a slot is stored only within the   *)
(* array's capacity (RegInv). The UI thread's index stays below its        *)
(* broadcast's length and inside the array's memory, which never shrinks   *)
(* (WalkInv), and the slots that a broadcast has yet to visit stay where   *)
(* they are as long as nobody leaves and it reads nothing that was freed   *)
(* (CastInv). After an abort nothing moves, so all of it is about a        *)
(* program that has not aborted.                                           *)
(***************************************************************************)
EXTENDS ServerConsole, TLAPS

----------------------------------------------------------------------------
(* The inductive invariant. *)

UIPlace  == {"lock", "append", "create", "drain", "print", "reset", "key", "status", "more",
             "entry", "about", "count", "cast", "slot", "write", "quit", "join", "end"}
NetPlace == {"off", "init", "lock", "append", "check", "service", "grow", "publish", "push",
             "raise", "fill", "shrink", "stop", "done"}
Place == UIPlace \cup NetPlace \cup {"aborted"}
Onward == {"create", "drain", "status", "quit", "off", "check", "stop", "done"}

Logging(t) == pc[t] \in {"lock", "append"}
Opening    == pc["net"] \in {"grow", "publish", "push", "raise", "fill"}

PlaceType ==
    /\ pc \in [Thread -> Place] /\ next \in [Thread -> Onward] /\ todo \in [Thread -> Nat]
    /\ \A t \in Thread : Logging(t) => todo[t] > 0

LogType ==
    /\ mutex \in Thread \cup {"free"}
    /\ log \in Seq(0..(Wrap - 1)) /\ logged \in 0..(Wrap - 1) /\ shown \in 0..(Wrap - 1)
    /\ at \in Nat

Entry == Session \cup {NoSession}
Address == {"null", "here", "freed"}

RegType ==
    /\ shutdown \in BOOLEAN
    /\ slots \in Seq(Entry) /\ len \in 0..Len(slots) /\ block \in Address
    /\ live \in SUBSET Session /\ opening \in Entry /\ closing \in Entry

Cast == [len : Nat, present : SUBSET Session, wrote : [Session -> Nat],
         left : BOOLEAN, astray : BOOLEAN]

CastType == seen \in Address /\ got \in Entry /\ cast \in Cast

TypeInv == PlaceType /\ LogType /\ RegType /\ CastType

Control ==
    /\ pc["ui"] \in UIPlace /\ next["ui"] \in {"create", "drain", "status", "quit"}
    /\ pc["net"] \in NetPlace /\ next["net"] \in {"off", "check", "stop", "done"}
    /\ mutex = "ui" <=> pc["ui"] \in {"append", "print", "reset"}
    /\ mutex = "net" <=> pc["net"] = "append"
    /\ pc["ui"] = "create" \/ (Logging("ui") /\ next["ui"] = "create") => pc["net"] = "off"
    /\ Logging("net") => next["net"] # "off"
    /\ Shrinking => next["net"] \in {"check", "stop"}
    /\ pc["ui"] = "end" => pc["net"] = "done"

LogInv ==
    /\ Len(log) <= QueueMax
    /\ pc["ui"] = "print" => at <= Len(log)
    /\ pc["ui"] = "reset" => at = Len(log)
    /\ LogIntact

RegInv ==
    /\ RegistryLive
    /\ closing # NoSession => Logging("net") \/ Shrinking
    /\ opening # NoSession <=> Opening
    /\ opening # NoSession => opening \in live
    /\ pc["net"] \in {"publish", "push", "raise"} => len < Len(slots)
    /\ pc["net"] = "raise" => slots[len + 1] = opening
    /\ Filling \/ Shrinking => len > 0
    /\ pc["net"] \in {"off", "init"} => Len(slots) = 0
    /\ pc["net"] \in {"off", "init", "done"} => live = {}
    /\ Logging("net") /\ next["net"] = "done" => live = {}

Casting == pc["ui"] \in {"cast", "slot", "write"}

WalkInv ==
    /\ Casting => at <= cast.len /\ cast.len <= Len(slots)
    /\ pc["ui"] \in {"slot", "write"} => at < cast.len
    /\ pc["ui"] = "entry" => at < Len(slots)

CastInv ==
    Casting /\ ~cast.left /\ ~cast.astray =>
        /\ 1..cast.len \subseteq Held
        /\ pc["ui"] = "write" => \A i \in 1..cast.len : i = at + 1 => got = Slot(i)
        /\ cast.present = {Slot(i) : i \in 1..cast.len}
        /\ \A s \in Session : cast.wrote[s] = IF \E i \in 1..at : Slot(i) = s THEN 1 ELSE 0

CInv == TypeInv /\ (~Aborted => Control /\ LogInv /\ RegInv /\ WalkInv /\ CastInv)

----------------------------------------------------------------------------
(* Arithmetic modulo the number of line numbers. *)

\* A remainder that is known by its difference.
LEMMA ModKnown ==
    ASSUME NEW n \in Nat \ {0}, NEW a \in Nat, NEW r \in 0..(n - 1),
           a = r \/ a = n + r \/ a = 2 * n + r
    PROVE  a % n = r
OBVIOUS

\* Below twice the modulus there is such a difference.
LEMMA ModSplit ==
    ASSUME NEW n \in Nat \ {0}, NEW a \in 0..(2 * n - 1)
    PROVE  \E r \in 0..(n - 1) : (a = r \/ a = n + r) /\ a % n = r
<1>1. CASE a < n
    BY <1>1, ModKnown
<1>2. CASE a >= n
    <2>1. a - n \in 0..(n - 1) /\ a = n + (a - n)
        BY <1>2
    <2> QED
        BY <2>1, ModKnown
<1> QED
    BY <1>1, <1>2

\* The number after a, counted on, is a counted on by one more.
LEMMA SuccMod ==
    ASSUME NEW n \in Nat \ {0}, NEW a \in 0..(n - 1), NEW c \in 0..(n - 1)
    PROVE  /\ (a + 1) % n \in 0..(n - 1)
           /\ (((a + 1) % n) + n + c) % n = (a + n + (c + 1)) % n
           /\ (((a + n + c) % n) + 1) % n = (a + n + (c + 1)) % n
           /\ (a + n) % n = a
<1>1. (a + n) % n = a
    BY ModKnown
<1>2. PICK b \in 0..(n - 1) : (a + 1 = b \/ a + 1 = n + b) /\ (a + 1) % n = b
    BY ModSplit
<1>3. PICK d \in 0..(n - 1) : b + c = d \/ b + c = n + d
    <2>1. b + c \in 0..(2 * n - 1)
        OBVIOUS
    <2> QED
        BY <2>1, ModSplit
<1>4. (b + n + c) % n = d
    <2>1. b + n + c = n + d \/ b + n + c = 2 * n + d
        BY <1>3
    <2> QED
        BY <2>1, ModKnown
<1>5. (a + n + (c + 1)) % n = d
    <2>1. a + n + (c + 1) = n + d \/ a + n + (c + 1) = 2 * n + d
        BY <1>2, <1>3
    <2> QED
        BY <2>1, ModKnown
<1>6. PICK e \in 0..(n - 1) : (a + c = e \/ a + c = n + e) /\ (a + c) % n = e
    <2>1. a + c \in 0..(2 * n - 1)
        OBVIOUS
    <2> QED
        BY <2>1, ModSplit
<1>7. (a + n + c) % n = e
    BY <1>6, ModKnown
<1>8. (e + 1) % n = d
    <2>1. e + 1 = d \/ e + 1 = n + d
        BY <1>2, <1>3, <1>6
    <2> QED
        BY <2>1, ModKnown
<1> QED
    BY <1>1, <1>2, <1>4, <1>5, <1>7, <1>8

----------------------------------------------------------------------------
(* Types. *)

\* A thread that is about to log has a line to log, and goes on at a known place.
LEMMA PlaceStep == PlaceType /\ [Next]_vars => PlaceType'
<1> SUFFICES ASSUME PlaceType, [Next]_vars PROVE PlaceType'
    OBVIOUS
<1> USE DEF Place, UIPlace, NetPlace
<1>1. ASSUME NEW t \in Thread, NEW n \in Nat \ {0}, NEW there \in Onward, LogThen(t, n, there)
      PROVE  PlaceType'
    BY <1>1 DEF LogThen, PlaceType, Logging
<1>2. ASSUME NEW t \in Thread, NEW there \in Place, Goto(t, there),
             there \notin {"lock", "append"} \/ Logging(t)
      PROVE  PlaceType'
    BY <1>2 DEF Goto, PlaceType, Logging
<1>3. ASSUME NEW t \in Thread, AppendLine(t) PROVE PlaceType'
    <2>1. next[t] \in Onward /\ todo[t] \in Nat /\ todo[t] > 0
        BY <1>3 DEF PlaceType, AppendLine, At, Logging
    <2>2. pc' = [pc EXCEPT ![t] = IF todo[t] > 1 THEN "lock" ELSE next[t]] /\ next' = next
          /\ todo' = [todo EXCEPT ![t] = todo[t] - 1]
        BY <1>3 DEF AppendLine
    <2>3. pc' \in [Thread -> Place]
        BY <2>1, <2>2 DEF PlaceType, Onward
    <2>4. todo' \in [Thread -> Nat]
        BY <2>1, <2>2 DEF PlaceType
    <2>5. ASSUME NEW u \in Thread, pc'[u] \in {"lock", "append"} PROVE todo'[u] > 0
        BY <2>1, <2>2, <2>5 DEF PlaceType, Onward, Logging
    <2> QED
        BY <2>2, <2>3, <2>4, <2>5 DEF PlaceType, Logging
<1>4. CASE Abort
    BY <1>4 DEF Abort, PlaceType, Logging
<1>5. CASE UNCHANGED <<pc, next, todo>>
    BY <1>5 DEF PlaceType, Logging
<1>6. CASE CreateThread
    BY <1>6 DEF CreateThread, PlaceType, Thread, Logging
<1>7. ASSUME NEW t \in Thread, Lock(t) PROVE PlaceType'
    BY <1>2, <1>7 DEF Lock, At, Logging
<1>8. CASE Drain \/ PrintedAll \/ Drained \/ OtherKey \/ RequestShutdown \/ Join
    BY <1>2, <1>8 DEF Drain, PrintedAll, Drained, OtherKey, RequestShutdown, Join, Thread
<1>9. CASE Command \/ Status \/ StatusSession \/ CastDone \/ Quit
    BY <1>1, <1>4, <1>9, ConsoleAssumption
    DEF Command, Status, StatusSession, CastDone, Quit, Onward, Thread, ConsoleAssumption
<1>10. CASE PrintLine
    BY <1>5, <1>10 DEF PrintLine
<1>11. CASE StatusArray \/ StatusMore \/ StatusSlot
    BY <1>2, <1>4, <1>11 DEF StatusArray, StatusMore, StatusSlot, LoadArray, Thread
<1>12. CASE Broadcast \/ CastLength \/ CastArray \/ CastSlot \/ CastWrite
    <2>1. Abort \/ \E there \in {"count", "cast", "slot", "write"} : Goto("ui", there)
        BY <1>12, Zenon DEF Broadcast, CastLength, BeginCast, CastArray, CastSlot, CastWrite, LoadArray
    <2> QED
        BY <1>2, <1>4, <2>1 DEF Thread
<1>13. CASE Check \/ Idle
    BY <1>2, <1>13 DEF Check, Idle, Thread
<1>14. CASE NetInit \/ NetMessage
    BY <1>1, <1>14 DEF NetInit, NetMessage, Onward, Thread
<1>15. CASE Grow \/ Publish \/ Push \/ \E u \in Session : NetConnect(u)
    BY <1>2, <1>15 DEF Grow, Publish, Push, NetConnect, Thread
<1>16. CASE Pushed \/ Removed
    BY <1>1, <1>16 DEF Pushed, Removed, Onward, Thread, PlaceType
<1>17. ASSUME NEW u \in Session, NEW there \in Onward, Remove(u, there) PROVE PlaceType'
    <2>1. pc' = [pc EXCEPT !["net"] = "shrink"] /\ next' = [next EXCEPT !["net"] = there] /\ todo' = todo
        BY <1>17 DEF Remove
    <2> QED
        BY <2>1 DEF PlaceType, Logging, Thread
<1>18. CASE \E u \in Session : NetDisconnect(u)
    BY <1>17, <1>18 DEF NetDisconnect, Onward
<1>19. CASE Destroy
    <2>1. CASE \E s \in live : Remove(s, "stop")
        <3>1. PICK s \in live : Remove(s, "stop")
            BY <2>1
        <3>2. pc' = [pc EXCEPT !["net"] = "shrink"] /\ next' = [next EXCEPT !["net"] = "stop"] /\ todo' = todo
            BY <3>1 DEF Remove
        <3> QED
            BY <3>2 DEF PlaceType, Logging, Thread, Onward
    <2> QED
        BY <1>2, <1>19, <2>1 DEF Destroy, Thread
<1>20. CASE UNCHANGED vars
    BY <1>5, <1>20 DEF vars
<1>21. ASSUME NEW t \in Thread, AppendFails(t) PROVE PlaceType'
    BY <1>4, <1>21 DEF AppendFails
<1> QED
    BY <1>3, <1>6, <1>7, <1>8, <1>9, <1>10, <1>11, <1>12, <1>13, <1>14, <1>15, <1>16, <1>18, <1>19,
       <1>20, <1>21
    DEF Next, UI, NetWork, NetEvent, Thread

LEMMA SuccType == Wrap \in Nat \ {0} /\ \A n \in 0..(Wrap - 1) : Succ(n) \in 0..(Wrap - 1)
<1>1. Wrap \in Nat \ {0}
    BY ConsoleAssumption DEF ConsoleAssumption, Wrap
<1>2. ASSUME NEW n \in 0..(Wrap - 1) PROVE Succ(n) \in 0..(Wrap - 1)
    BY <1>1, <1>2, SuccMod DEF Succ
<1> QED
    BY <1>1, <1>2

LEMMA InSeq ==
    ASSUME NEW S, NEW q \in Seq(S), NEW i \in 1..Len(q)
    PROVE  q[i] \in S
OBVIOUS

LEMMA LogTypeStep ==
    ASSUME TypeInv, ~Aborted => LogInv, [Next]_vars
    PROVE  LogType'
<1> USE DEF TypeInv, LogType
<1>1. ASSUME NEW t \in Thread, AppendLine(t) PROVE LogType'
    <2>1. Succ(logged) \in 0..(Wrap - 1)
        BY SuccType
    <2>2. log' = Append(log, Succ(logged)) /\ logged' = Succ(logged) /\ mutex' = "free"
          /\ shown' = shown /\ at' = at
        BY <1>1 DEF AppendLine, walk
    <2> QED
        BY <2>1, <2>2
<1>2. CASE PrintLine
    <2>1. log[at + 1] \in 0..(Wrap - 1)
        <3>1. at + 1 \in 1..Len(log)
            BY <1>2 DEF PrintLine
        <3> QED
            BY <3>1, InSeq
    <2> QED
        BY <1>2, <2>1 DEF PrintLine
<1>3. CASE UNCHANGED <<logVars, at>>
    BY <1>3 DEF logVars
<1>4. ASSUME NEW t \in Thread, Lock(t) PROVE LogType'
    BY <1>4 DEF Lock, walk
<1>5. CASE Drain \/ Drained
    <2>1. <<>> \in Seq(0..(Wrap - 1))
        OBVIOUS
    <2>2. UNCHANGED <<logged, shown>> /\ at' = 0 /\ log' \in {log, <<>>} /\ mutex' \in Thread \cup {"free"}
        BY <1>5 DEF Drain, Drained, Thread
    <2> QED
        BY <2>1, <2>2
<1>6. ASSUME UNCHANGED logVars, at' = 0 \/ at' = at + 1 PROVE LogType'
    BY <1>6 DEF logVars
<1>7. CASE Abort
    BY <1>3, <1>7 DEF Abort, walk
<1>8. CASE CreateThread \/ PrintedAll \/ OtherKey \/ Command \/ Status \/ StatusArray \/ Quit
           \/ RequestShutdown \/ Join
    BY <1>3, <1>6, <1>8
    DEF CreateThread, PrintedAll, OtherKey, Command, Status, StatusArray, LoadArray, Quit,
        RequestShutdown, Join, walk
<1>9. CASE StatusMore \/ StatusSlot \/ StatusSession
    BY <1>3, <1>6, <1>7, <1>9 DEF StatusMore, StatusSlot, LoadSlot, StatusSession, walk
<1>10. CASE Broadcast \/ CastLength \/ CastArray \/ CastSlot \/ CastWrite \/ CastDone
    <2>1. Abort \/ (UNCHANGED logVars /\ (at' = 0 \/ at' = at + 1 \/ at' = at))
        BY <1>10, Zenon DEF Broadcast, CastLength, BeginCast, CastArray, CastSlot, LoadArray, LoadSlot,
                            CastWrite, CastDone
    <2> QED
        BY <1>3, <1>6, <1>7, <2>1
<1>11. CASE NetInit \/ Check \/ Idle \/ NetMessage \/ Destroy
           \/ \E s \in Session : NetConnect(s) \/ NetDisconnect(s)
    BY <1>3, <1>11
    DEF NetInit, Check, Idle, NetMessage, Destroy, NetConnect, NetDisconnect, Remove, walk
<1>12. CASE Grow \/ Publish \/ Push \/ Pushed \/ Removed
    BY <1>3, <1>12 DEF Grow, Publish, Push, Pushed, Removed, walk
<1>13. CASE UNCHANGED vars
    BY <1>3, <1>13 DEF vars, walk
<1>14. ASSUME NEW t \in Thread, AppendFails(t) PROVE LogType'
    BY <1>7, <1>14 DEF AppendFails
<1> QED
    BY <1>1, <1>2, <1>4, <1>5, <1>8, <1>9, <1>10, <1>11, <1>12, <1>13, <1>14
    DEF Next, UI, NetWork, NetEvent, Thread

----------------------------------------------------------------------------
(* Where the threads go. *)

LEMMA Goes ==
    ASSUME PlaceType, NEW t \in Thread, NEW there
    PROVE  /\ Goto(t, there) =>
                /\ pc'[t] = there /\ next' = next
                /\ \A u \in Thread \ {t} : pc'[u] = pc[u]
           /\ \A n : LogThen(t, n, there) =>
                /\ pc'[t] = "lock" /\ next'[t] = there
                /\ \A u \in Thread \ {t} : pc'[u] = pc[u] /\ next'[u] = next[u]
BY DEF PlaceType, Goto, LogThen

LEMMA AbortEnds == Abort => Aborted' /\ UNCHANGED <<logVars, shutdown, registry, walk>>
BY DEF Abort, Aborted, Thread

\* Both threads stop with the program.
LEMMA Alive == Next => ~Aborted
BY Zenon DEF Next, UI, NetWork, NetEvent, At, Lock, AppendLine, AppendFails, CreateThread, Drain,
   PrintLine, PrintedAll, Drained, OtherKey, Command, LoadArray, Status, StatusArray, StatusMore,
   StatusSlot, StatusSession, Broadcast, CastLength, CastArray, CastSlot, CastWrite, CastDone,
   Quit, RequestShutdown, Join, NetInit, Check, Idle, NetConnect, Grow, Publish, Push, Pushed,
   NetMessage, Removed, NetDisconnect, Destroy

\* The UI thread never touches the registry, and moves the network thread only by creating it.
LEMMA UIFrame ==
    ASSUME PlaceType, UI
    PROVE  /\ UNCHANGED registry
           /\ Aborted' \/ CreateThread \/ (pc'["net"] = pc["net"] /\ next'["net"] = next["net"])
<1> DEFINE NetStays == pc'["net"] = pc["net"] /\ next'["net"] = next["net"]
<1>1. ASSUME NEW n, NEW there, LogThen("ui", n, there) PROVE NetStays
    BY <1>1, Goes DEF Thread
<1>2. ASSUME NEW there, Goto("ui", there) PROVE NetStays
    BY <1>2, Goes DEF Thread
<1>3. ASSUME Lock("ui") \/ AppendLine("ui") PROVE UNCHANGED registry /\ NetStays
    <2>1. CASE Lock("ui")
        BY <1>2, <2>1 DEF Lock
    <2>2. CASE AppendLine("ui")
        BY <2>2 DEF AppendLine, registry, PlaceType, Thread
    <2> QED
        BY <1>3, <2>1, <2>2
<1>4. CASE CreateThread
    BY <1>4 DEF CreateThread
<1> HIDE DEF NetStays
<1>5. CASE Drain \/ PrintedAll \/ Drained \/ OtherKey \/ RequestShutdown \/ Join \/ StatusArray
           \/ Broadcast \/ CastArray
    <2>1. UNCHANGED registry /\ \E there : Goto("ui", there)
        BY <1>5, Zenon DEF Drain, PrintedAll, Drained, OtherKey, RequestShutdown, Join, StatusArray,
           Broadcast, CastArray, LoadArray
    <2> QED
        BY <1>2, <2>1 DEF NetStays
<1>6. CASE Command \/ Status \/ Quit \/ CastDone
    <2>1. UNCHANGED registry /\ \E n, there : LogThen("ui", n, there)
        BY <1>6, Zenon DEF Command, Status, Quit, CastDone
    <2> QED
        BY <1>1, <2>1 DEF NetStays
<1>7. CASE PrintLine
    BY <1>7 DEF PrintLine
<1>8. CASE StatusMore \/ StatusSlot \/ CastLength \/ CastSlot \/ CastWrite
    <2>1. Abort \/ (UNCHANGED registry /\ \E there : Goto("ui", there))
        BY <1>8, Zenon DEF StatusMore, StatusSlot, CastLength, BeginCast, CastSlot, LoadSlot, CastWrite
    <2> QED
        BY <1>2, <2>1, AbortEnds DEF NetStays
<1>9. CASE StatusSession
    <2>1. Abort \/ (UNCHANGED registry /\ LogThen("ui", 1, "status"))
        BY <1>9, Zenon DEF StatusSession
    <2> QED
        BY <1>1, <2>1, AbortEnds DEF NetStays
<1>10. CASE AppendFails("ui")
    BY <1>10, AbortEnds DEF AppendFails
<1> QED
    BY <1>3, <1>4, <1>5, <1>6, <1>7, <1>8, <1>9, <1>10 DEF UI, NetStays

\* The network thread does not move the UI thread, and leaves its walk alone, but for what
\* becomes of the address that it has loaded, and of what is remembered of who left.
LEMMA NetFrame ==
    ASSUME PlaceType, NetWork \/ NetEvent
    PROVE  \/ AppendFails("net")
           \/ pc'["ui"] = pc["ui"] /\ next'["ui"] = next["ui"] /\ UNCHANGED <<at, got>>
<1> DEFINE UIStays == pc'["ui"] = pc["ui"] /\ next'["ui"] = next["ui"]
<1>1. ASSUME NEW n, NEW there, LogThen("net", n, there) PROVE UIStays
    BY <1>1, Goes DEF Thread
<1>2. ASSUME NEW there, Goto("net", there) PROVE UIStays
    BY <1>2, Goes DEF Thread
<1>3. CASE Lock("net")
    BY <1>2, <1>3 DEF Lock, walk
<1>4. CASE AppendLine("net")
    BY <1>4 DEF AppendLine, walk, PlaceType, Thread
<1>5. ASSUME NEW s, NEW there, Remove(s, there) PROVE UIStays /\ UNCHANGED <<at, got>>
    BY <1>5 DEF Remove, PlaceType, Thread
<1> HIDE DEF UIStays
<1>6. CASE NetInit \/ NetMessage \/ Pushed \/ Removed
    <2>1. UNCHANGED <<at, got>> /\ \E n, there : LogThen("net", n, there)
        BY <1>6, Zenon DEF NetInit, NetMessage, Pushed, Removed, walk
    <2> QED
        BY <1>1, <2>1 DEF UIStays
<1>7. CASE Check \/ Idle \/ Grow \/ Publish \/ Push \/ \E s \in Session : NetConnect(s)
    <2>1. UNCHANGED <<at, got>> /\ \E there : Goto("net", there)
        BY <1>7, Zenon DEF Check, Idle, Grow, Publish, Push, NetConnect, walk
    <2> QED
        BY <1>2, <2>1 DEF UIStays
<1>8. CASE Destroy \/ \E s \in Session : NetDisconnect(s)
    <2>1. (UNCHANGED <<at, got>> /\ Goto("net", "done")) \/ \E s, there : Remove(s, there)
        BY <1>8, Zenon DEF Destroy, NetDisconnect, walk
    <2> QED
        BY <1>2, <1>5, <2>1 DEF UIStays
<1> QED
    BY <1>3, <1>4, <1>6, <1>7, <1>8 DEF NetWork, NetEvent, UIStays

----------------------------------------------------------------------------
(* The registry. *)

Registered ==
    /\ Listed = live \ {closing, IF Filling THEN NoSession ELSE opening}
    /\ \A i, j \in Held : Slot(i) = Slot(j) => i = j

LEMMA NothingNot == NoSession \notin Session
BY ConsoleAssumption DEF ConsoleAssumption

\* What the registry lists depends on the array and on where the network thread is in
\* storing or deleting.
LEMMA RegKept ==
    ASSUME UNCHANGED <<slots, len, live, opening, closing>>,
           Filling' <=> Filling, Shrinking' <=> Shrinking
    PROVE  Held' = Held /\ (\A i : Slot(i)' = Slot(i)) /\ (Registered => Registered')
<1>1. Held' = Held
    BY DEF Held
<1>2. \A i : Slot(i)' = Slot(i)
    BY DEF Slot
<1>3. Listed' = Listed
    BY <1>1, <1>2 DEF Listed
<1> QED
    BY <1>1, <1>2, <1>3 DEF Registered

\* A full array grows by a slot, at the least, and keeps what it holds.
LEMMA Growth ==
    ASSUME RegType, Grow
    PROVE  /\ slots' \in Seq(Entry) /\ Len(slots') > Len(slots)
           /\ \A i \in 1..Len(slots) : slots'[i] = slots[i]
<1>1. slots \in Seq(Entry) /\ Len(slots) \in Nat
    BY DEF RegType
<1> DEFINE m == Grown(Len(slots))
<1>2. m \in Nat /\ m > Len(slots)
    BY <1>1, ConsoleAssumption DEF Grown, ConsoleAssumption
<1>3. slots' = [i \in 1..m |-> IF i <= Len(slots) THEN slots[i] ELSE NoSession]
    BY DEF Grow
<1> HIDE DEF m
<1>4. ASSUME NEW i \in 1..m PROVE (IF i <= Len(slots) THEN slots[i] ELSE NoSession) \in Entry
    BY <1>1, InSeq DEF Entry
<1>5. slots' \in Seq(Entry) /\ Len(slots') = m
    BY <1>2, <1>3, <1>4
<1> QED
    BY <1>1, <1>2, <1>3, <1>5

\* A slot of the array is written.
LEMMA Writing ==
    ASSUME NEW q \in Seq(Entry), NEW i \in 1..Len(q), NEW x \in Entry
    PROVE  /\ [q EXCEPT ![i] = x] \in Seq(Entry)
           /\ Len([q EXCEPT ![i] = x]) = Len(q)
           /\ [q EXCEPT ![i] = x][i] = x
           /\ \A j \in 1..Len(q) : j # i => [q EXCEPT ![i] = x][j] = q[j]
OBVIOUS

\* Disconnecting moves the later slots down: whoever was listed still is, the session that
\* left excepted, and each of the others where it was or one slot below.
LEMMA Removal ==
    ASSUME PlaceType, RegType, Registered, ~Filling, ~Shrinking, opening = NoSession,
           closing = NoSession, NEW s \in Session, NEW there, Remove(s, there)
    PROVE  /\ Shrinking' /\ ~Filling' /\ next'["net"] = there
           /\ slots' \in Seq(Entry) /\ Len(slots') = Len(slots) /\ len > 0
           /\ \E n \in 1..len :
                /\ slots[n] = s
                /\ \A i \in 1..Len(slots) :
                     slots'[i] = IF i >= n /\ i < len THEN slots[i + 1] ELSE slots[i]
<1>1. s \in Listed
    BY NothingNot DEF Remove, Registered
<1> DEFINE n == CHOOSE i \in 1..len : slots[i] = s
<1>2. n \in 1..len /\ slots[n] = s
    <2>1. \E i \in 1..len : slots[i] = s
        BY <1>1 DEF Listed, Held, Slot
    <2> QED
        BY <2>1
<1>3. slots' = [i \in DOMAIN slots |-> IF i >= n /\ i < len THEN slots[i + 1] ELSE slots[i]]
    BY DEF Remove
<1> HIDE DEF n
<1>4. slots \in Seq(Entry) /\ len \in 1..Len(slots) /\ DOMAIN slots = 1..Len(slots)
    BY <1>2 DEF RegType
<1>5. ASSUME NEW i \in 1..Len(slots)
      PROVE  (IF i >= n /\ i < len THEN slots[i + 1] ELSE slots[i]) \in Entry
    BY <1>2, <1>4, InSeq
<1>6. slots' \in Seq(Entry) /\ Len(slots') = Len(slots)
    BY <1>3, <1>4, <1>5
<1>7. Shrinking' /\ ~Filling' /\ next'["net"] = there
    BY DEF Remove, PlaceType, Thread, Shrinking, Filling
<1> QED
    BY <1>2, <1>3, <1>4, <1>6, <1>7

\* Then the registry lists the others, each once.
LEMMA RegRemove ==
    ASSUME PlaceType, RegType, Registered, ~Filling, ~Shrinking, opening = NoSession,
           closing = NoSession, NEW s \in Session, NEW there, Remove(s, there)
    PROVE  RegType' /\ Registered'
<1>1. UNCHANGED <<len, block, live, opening, shutdown>> /\ closing' = s /\ s \in live
    BY DEF Remove, logVars
<1>2. Shrinking' /\ ~Filling' /\ slots' \in Seq(Entry) /\ Len(slots') = Len(slots) /\ len > 0
    BY Removal
<1>3. PICK n \in 1..len :
        /\ slots[n] = s
        /\ \A i \in 1..Len(slots) :
             slots'[i] = IF i >= n /\ i < len THEN slots[i + 1] ELSE slots[i]
    BY Removal
<1>4. RegType'
    BY <1>1, <1>2 DEF RegType, Entry
<1>5. Held = 1..len /\ Held' = 1..(len - 1) /\ len \in Nat /\ len <= Len(slots)
      /\ (\A i \in Held : Slot(i) = slots[i]) /\ (\A i \in Held' : Slot(i)' = slots'[i])
    BY <1>1, <1>2 DEF Held, Slot, RegType
<1>6. \A i \in Held' : Slot(i)' = slots[IF i >= n THEN i + 1 ELSE i]
    BY <1>3, <1>5
<1>7. \A i, j \in 1..len : slots[i] = slots[j] => i = j
    BY <1>5 DEF Registered
<1>8. \A i, j \in Held' : Slot(i)' = Slot(j)' => i = j
    <2>1. ASSUME NEW i \in Held', NEW j \in Held', Slot(i)' = Slot(j)' PROVE i = j
        <3>1. (IF i >= n THEN i + 1 ELSE i) = (IF j >= n THEN j + 1 ELSE j)
            <4>1. (IF i >= n THEN i + 1 ELSE i) \in 1..len /\ (IF j >= n THEN j + 1 ELSE j) \in 1..len
                BY <1>3, <1>5
            <4> QED
                BY <1>6, <1>7, <2>1, <4>1
        <3> QED
            BY <1>3, <1>5, <3>1
    <2> QED
        BY <2>1
<1>9. Listed' = Listed \ {s}
    <2>1. ASSUME NEW i \in Held' PROVE Slot(i)' \in Listed \ {s}
        <3>1. (IF i >= n THEN i + 1 ELSE i) \in (1..len) \ {n}
            BY <1>3, <1>5
        <3>2. PICK m \in (1..len) \ {n} : Slot(i)' = slots[m]
            BY <1>6, <2>1, <3>1
        <3>3. slots[m] # s
            BY <1>3, <1>7
        <3>4. Slot(m) \in Listed /\ Slot(m) = slots[m]
            BY <1>5 DEF Listed
        <3> QED
            BY <3>2, <3>3, <3>4
    <2>2. ASSUME NEW k \in 1..len, k # n PROVE slots[k] \in Listed'
        <3>1. (IF k > n THEN k - 1 ELSE k) \in Held'
            BY <1>3, <1>5, <2>2
        <3>2. Slot(IF k > n THEN k - 1 ELSE k)' = slots[k]
            BY <1>3, <1>5, <1>6, <2>2, <3>1
        <3> QED
            BY <3>1, <3>2 DEF Listed
    <2>3. Listed \ {s} \subseteq Listed'
        <3>1. ASSUME NEW x \in Listed, x # s PROVE x \in Listed'
            <4>1. PICK k \in Held : x = Slot(k)
                BY <3>1 DEF Listed
            <4> QED
                BY <1>3, <1>5, <2>2, <3>1, <4>1
        <3> QED
            BY <3>1
    <2>4. Listed' \subseteq Listed \ {s}
        BY <2>1 DEF Listed
    <2> QED
        BY <2>3, <2>4
<1> QED
    BY <1>1, <1>2, <1>4, <1>8, <1>9, NothingNot DEF Registered, RegType

\* One more slot counts, with the session that connects.
LEMMA RegAdd ==
    ASSUME RegType, Registered, ~Filling, ~Shrinking, opening \in live, closing = NoSession,
           ~Shrinking', NEW k \in Nat, k = len + 1, len' = k, UNCHANGED <<live, closing>>,
           Slot(k)' = opening, \A i \in 1..len : Slot(i)' = Slot(i),
           opening' = NoSession \/ Filling'
    PROVE  Registered'
<1>1. len \in Nat /\ Held = 1..len /\ Held' = (1..len) \cup {k}
    BY DEF RegType, Held
<1>2. Listed' = Listed \cup {opening}
    <2>1. ASSUME NEW x \in Listed' PROVE x \in Listed \cup {opening}
        BY <1>1, <2>1 DEF Listed
    <2>2. ASSUME NEW x \in Listed PROVE x \in Listed'
        <3>1. PICK i \in 1..len : x = Slot(i)
            BY <1>1, <2>2 DEF Listed
        <3> QED
            BY <1>1, <3>1 DEF Listed
    <2>3. opening \in Listed'
        BY <1>1 DEF Listed
    <2> QED
        BY <2>1, <2>2, <2>3
<1>3. Listed = live \ {NoSession, opening} /\ live \in SUBSET Session
    BY DEF Registered, RegType
<1>4. Listed' = live' \ {closing', IF Filling' THEN NoSession ELSE opening'}
    BY <1>2, <1>3, NothingNot
<1>5. ASSUME NEW i \in Held', NEW j \in Held', Slot(i)' = Slot(j)' PROVE i = j
    <2>1. \A m \in 1..len : Slot(m)' # opening
        BY <1>1, <1>3 DEF Listed
    <2> QED
        BY <1>1, <1>5, <2>1 DEF Registered
<1> QED
    BY <1>4, <1>5 DEF Registered

LEMMA RegStep ==
    ASSUME CInv, [Next]_vars
    PROVE  RegType' /\ (~Aborted' => RegInv')
<1>0. PlaceType /\ RegType /\ (~Aborted => RegInv /\ Registered /\ Control)
    BY DEF CInv, TypeInv, RegInv, RegistryLive, Registered
<1>1. ASSUME Abort PROVE RegType' /\ Aborted'
    BY <1>0, <1>1, AbortEnds DEF RegType, registry, array
<1>2. CASE UI
    <2>1. UNCHANGED registry /\ ~Aborted
        BY <1>0, <1>2, UIFrame, Alive DEF Next
    <2>2. shutdown' \in BOOLEAN
        BY <1>0, <1>2, Zenon DEF UI, RegType, Lock, AppendLine, AppendFails, Abort, CreateThread,
           Drain, PrintLine, PrintedAll, Drained, OtherKey, Command, Status, StatusArray, LoadArray,
           StatusMore, StatusSlot, LoadSlot, StatusSession, Broadcast, CastLength, BeginCast,
           CastArray, CastSlot, CastWrite, CastDone, Quit, RequestShutdown, Join
    <2>3. RegType'
        BY <1>0, <2>1, <2>2 DEF RegType, registry, array
    <2>4. ASSUME ~Aborted' PROVE RegInv'
        <3>1. CASE CreateThread
            <4>1. pc["ui"] = "create" /\ pc'["net"] = "init"
                BY <3>1 DEF CreateThread, At
            <4>2. pc["net"] = "off"
                BY <1>0, <2>1, <4>1 DEF Control
            <4>3. Registered'
                BY <1>0, <2>1, <4>1, <4>2, RegKept DEF registry, array, Filling, Shrinking
            <4> QED
                BY <1>0, <2>1, <4>1, <4>2, <4>3
                DEF RegInv, RegistryLive, Registered, registry, array, Logging, Opening, Filling, Shrinking
        <3>2. CASE pc'["net"] = pc["net"] /\ next'["net"] = next["net"]
            <4>1. Registered'
                BY <1>0, <2>1, <3>2, RegKept DEF registry, array, Filling, Shrinking
            <4> QED
                BY <1>0, <2>1, <3>2, <4>1
                DEF RegInv, RegistryLive, Registered, registry, array, Logging, Opening, Filling, Shrinking
        <3> QED
            BY <1>0, <1>2, <2>4, <3>1, <3>2, UIFrame
    <2> QED
        BY <2>3, <2>4
<1>3. CASE NetWork \/ NetEvent
    <2>1. ~Aborted /\ PlaceType /\ RegType /\ RegInv /\ Registered /\ Control
        BY <1>0, <1>3, Alive DEF Next
    <2>2. ASSUME NEW there, Goto("net", there), UNCHANGED <<shutdown, registry>>,
                 pc["net"] \in {"check", "service", "stop"},
                 there \in {"check", "service", "stop", "done"}, there = "done" => live = {}
          PROVE  RegType' /\ RegInv'
        <3>1. pc'["net"] = there
            BY <2>1, <2>2, Goes DEF Thread
        <3>2. Registered'
            BY <2>1, <2>2, <3>1, RegKept DEF registry, array, Filling, Shrinking
        <3> QED
            BY <2>1, <2>2, <3>1, <3>2
            DEF RegType, RegInv, RegistryLive, Registered, registry, array, Logging, Opening, Filling, Shrinking
    <2>3. ASSUME NEW n, NEW there, LogThen("net", n, there), RegType', Registered',
                 opening' = NoSession, there = "done" => live' = {}
          PROVE  RegInv'
        <3>1. pc'["net"] = "lock" /\ next'["net"] = there
            BY <2>1, <2>3, Goes DEF Thread
        <3> QED
            BY <2>3, <3>1 DEF RegInv, RegistryLive, Registered, Logging, Opening, Filling, Shrinking
    <2>4. CASE Lock("net")
        <3>1. UNCHANGED <<shutdown, registry, next>> /\ pc["net"] = "lock" /\ pc'["net"] = "append"
            BY <2>1, <2>4, Goes DEF Lock, At, Thread
        <3>2. Registered'
            BY <2>1, <3>1, RegKept DEF registry, array, Filling, Shrinking
        <3> QED
            BY <2>1, <3>1, <3>2
            DEF RegType, RegInv, RegistryLive, Registered, registry, array, Logging, Opening, Filling, Shrinking
    <2>5. CASE AppendLine("net")
        <3>1. UNCHANGED <<shutdown, array, opening, next>> /\ live' = live \ {closing}
              /\ closing' = NoSession /\ pc["net"] = "append" /\ opening = NoSession
            BY <2>1, <2>5 DEF AppendLine, At, RegInv, Opening
        <3>2. next["net"] \in {"check", "stop", "done"}
            BY <2>1, <3>1 DEF Control, Logging
        <3>3. pc'["net"] \in {"lock", next["net"]}
            BY <2>1, <2>5 DEF AppendLine, PlaceType, Thread
        <3>4. RegType'
            BY <2>1, <3>1 DEF RegType, array, Entry
        <3>5. Held' = Held /\ Listed' = Listed
            BY <2>1, <3>1, <3>2, <3>3 DEF Held, Listed, Slot, array, Filling, Shrinking
        <3>6. Registered'
            BY <2>1, <3>1, <3>2, <3>3, <3>5, NothingNot DEF Registered, RegType, Slot, array, Filling
        <3> QED
            BY <2>1, <3>1, <3>2, <3>3, <3>4, <3>6
            DEF RegInv, RegistryLive, Registered, array, Logging, Opening, Filling, Shrinking
    <2>6. CASE NetInit
        <3>1. live = {} /\ closing = NoSession /\ opening = NoSession
            BY <2>1, <2>6 DEF NetInit, At, RegInv, Logging, Opening, Shrinking
        <3>2. UNCHANGED <<live, opening, closing>> /\ len' = 0 /\ slots' = <<>> /\ block' = "null"
              /\ shutdown' = FALSE /\ \E there : LogThen("net", 1, there)
            BY <2>6 DEF NetInit
        <3>3. RegType'
            <4>1. <<>> \in Seq(Entry) /\ 0 \in 0..Len(<<>>)
                OBVIOUS
            <4>2. slots' \in Seq(Entry) /\ len' \in 0..Len(slots')
                BY <3>2, <4>1
            <4> QED
                BY <2>1, <3>2, <4>2 DEF RegType, Address
        <3>4. Registered'
            <4>1. Held' = {}
                BY <3>2 DEF Held
            <4> QED
                BY <3>1, <3>2, <4>1 DEF Registered, Listed
        <3> QED
            BY <2>3, <3>1, <3>2, <3>3, <3>4
    <2>7. CASE Check \/ Idle
        BY <2>2, <2>7 DEF Check, Idle, At
    <2>8. CASE NetMessage
        <3>1. pc["net"] = "service" /\ pc'["net"] = "lock" /\ opening = NoSession
            BY <2>1, <2>8, Goes DEF NetMessage, At, Thread, RegInv, Opening
        <3>2. Registered'
            BY <2>1, <2>8, <3>1, RegKept DEF NetMessage, registry, array, Filling, Shrinking
        <3> QED
            BY <2>1, <2>3, <2>8, <3>1, <3>2 DEF NetMessage, RegType, registry, array
    <2>9. ASSUME NEW s \in Session, NetConnect(s) PROVE RegType' /\ RegInv'
        <3>1. pc["net"] = "service" /\ closing = NoSession /\ opening = NoSession
            BY <2>1, <2>9 DEF NetConnect, At, RegInv, Logging, Opening, Shrinking
        <3>2. UNCHANGED <<array, closing, shutdown>> /\ live' = live \cup {s} /\ s \notin live /\ opening' = s
            BY <2>9 DEF NetConnect
        <3>3. pc'["net"] = (IF len < Len(slots) THEN "push" ELSE "grow")
            BY <2>1, <2>9, Goes DEF NetConnect, Thread
        <3>4. RegType'
            BY <2>1, <3>2 DEF RegType, array, Entry
        <3>5. Held' = Held /\ Listed' = Listed /\ ~Filling' /\ ~Filling
            BY <3>1, <3>2, <3>3 DEF Held, Listed, Slot, array, Filling, Shrinking
        <3>6. Registered'
            BY <2>1, <3>1, <3>2, <3>5, NothingNot DEF Registered, Slot, RegType, array
        <3> QED
            BY <2>1, <3>1, <3>2, <3>3, <3>4, <3>6, NothingNot
            DEF RegInv, RegistryLive, Registered, array, Logging, Opening, Filling, Shrinking
    <2>10. CASE Grow
        <3>1. pc["net"] = "grow" /\ pc'["net"] = "publish" /\ UNCHANGED <<len, live, opening, closing, shutdown>>
              /\ block' \in {"freed", block}
            BY <2>1, <2>10, Goes DEF Grow, At, Thread
        <3>2. slots' \in Seq(Entry) /\ Len(slots') > Len(slots) /\ \A i \in 1..Len(slots) : slots'[i] = slots[i]
            BY <2>1, <2>10, Growth
        <3>3. RegType'
            BY <2>1, <3>1, <3>2 DEF RegType, Address
        <3>4. Held' = Held /\ Held = 1..len /\ \A i \in 1..len : Slot(i)' = Slot(i)
            BY <2>1, <3>1, <3>2 DEF Held, Slot, Filling, Shrinking, RegType
        <3>5. Listed' = Listed
            BY <3>4 DEF Listed
        <3>6. Registered'
            BY <2>1, <3>1, <3>4, <3>5 DEF Registered, Filling
        <3> QED
            BY <2>1, <3>1, <3>2, <3>3, <3>6
            DEF RegType, RegInv, RegistryLive, Registered, Logging, Opening, Filling, Shrinking
    <2>11. CASE Publish
        <3>1. pc["net"] = "publish" /\ pc'["net"] = "push" /\ UNCHANGED <<slots, len, live, opening, closing, shutdown>>
              /\ block' = "here"
            BY <2>1, <2>11, Goes DEF Publish, At, Thread
        <3>2. Registered'
            BY <2>1, <3>1, RegKept DEF Filling, Shrinking
        <3> QED
            BY <2>1, <3>1, <3>2
            DEF RegType, Address, RegInv, RegistryLive, Registered, Logging, Opening, Filling, Shrinking
    <2>12. CASE Push
        <3>1. pc["net"] = "push" /\ UNCHANGED <<block, live, opening, closing, shutdown>>
            BY <2>12 DEF Push, At
        <3>2. opening \in live /\ opening # NoSession /\ closing = NoSession /\ len + 1 \in 1..Len(slots)
              /\ slots \in Seq(Entry) /\ len \in Nat
            BY <2>1, <3>1, NothingNot DEF RegInv, RegType, Opening, Logging, Shrinking
        <3>3. CASE slots' = [slots EXCEPT ![len + 1] = opening] /\ Goto("net", "raise") /\ UNCHANGED len
            <4>1. slots' \in Seq(Entry) /\ Len(slots') = Len(slots) /\ slots'[len + 1] = opening
                  /\ \A i \in 1..len : slots'[i] = slots[i]
                BY <2>1, <3>2, <3>3, Writing DEF RegType
            <4>2. pc'["net"] = "raise"
                BY <2>1, <3>3, Goes DEF Thread
            <4>3. Held' = Held /\ Held = 1..len /\ \A i \in 1..len : Slot(i)' = Slot(i)
                BY <3>1, <3>3, <4>1, <4>2 DEF Held, Slot, Filling, Shrinking
            <4>4. Listed' = Listed
                BY <4>3 DEF Listed
            <4>5. Registered'
                BY <2>1, <3>1, <4>2, <4>3, <4>4 DEF Registered, Filling
            <4> QED
                BY <2>1, <3>1, <3>2, <3>3, <4>1, <4>2, <4>5
                DEF RegType, RegInv, RegistryLive, Registered, Logging, Opening, Filling, Shrinking
        <3>4. CASE len' = len + 1 /\ Goto("net", "fill") /\ UNCHANGED slots
            <4>1. pc'["net"] = "fill"
                BY <2>1, <3>4, Goes DEF Thread
            <4>2. PICK k \in Nat : k = len + 1 /\ len' = k
                BY <3>2, <3>4
            <4>3. Slot(k)' = opening /\ \A i \in 1..len : Slot(i)' = Slot(i)
                BY <3>1, <3>2, <3>4, <4>1, <4>2 DEF Slot, Filling
            <4>4. Registered'
                BY <2>1, <3>1, <3>2, <4>1, <4>2, <4>3, RegAdd DEF Filling, Shrinking
            <4> QED
                BY <2>1, <3>1, <3>2, <3>4, <4>1, <4>4
                DEF RegType, RegInv, RegistryLive, Registered, Logging, Opening, Filling, Shrinking
        <3> QED
            BY <2>12, <3>3, <3>4 DEF Push
    <2>13. CASE Pushed
        <3>1. UNCHANGED <<block, live, closing, shutdown>> /\ opening' = NoSession /\ LogThen("net", 1, "check")
            BY <2>13 DEF Pushed
        <3>2. pc'["net"] = "lock"
            BY <2>1, <3>1, Goes DEF Thread
        <3>3. pc["net"] \in {"raise", "fill"}
            BY <2>13 DEF Pushed, At
        <3>4. opening \in live /\ opening # NoSession /\ closing = NoSession /\ slots \in Seq(Entry)
              /\ len \in Nat /\ len <= Len(slots) /\ opening \in Entry
            BY <2>1, <3>3, NothingNot DEF RegInv, RegType, Opening, Logging, Shrinking
        <3>5. CASE pc["net"] = "raise"
            <4>1. len' = len + 1 /\ UNCHANGED slots
                BY <2>13, <3>5 DEF Pushed, At
            <4>2. slots[len + 1] = opening /\ len < Len(slots)
                BY <2>1, <3>5 DEF RegInv
            <4>3. RegType'
                BY <2>1, <3>1, <4>1, <4>2 DEF RegType, Entry
            <4>4. PICK k \in Nat : k = len + 1 /\ len' = k
                BY <3>4, <4>1
            <4>5. Slot(k)' = opening /\ \A i \in 1..len : Slot(i)' = Slot(i)
                BY <3>2, <3>5, <4>1, <4>2, <4>4 DEF Slot, Filling
            <4>6. Registered'
                BY <2>1, <3>1, <3>2, <3>4, <3>5, <4>4, <4>5, RegAdd DEF Filling, Shrinking
            <4> QED
                BY <2>3, <3>1, <4>3, <4>6
        <3>6. CASE pc["net"] = "fill"
            <4>1. slots' = [slots EXCEPT ![len] = opening] /\ UNCHANGED len
                BY <2>13, <3>6 DEF Pushed, At
            <4>2. len > 0
                BY <2>1, <3>6 DEF RegInv, Filling
            <4>3. slots' \in Seq(Entry) /\ Len(slots') = Len(slots) /\ slots'[len] = opening
                  /\ \A i \in 1..Len(slots) : i # len => slots'[i] = slots[i]
                <5>1. len \in 1..Len(slots)
                    BY <3>4, <4>2
                <5> QED
                    BY <3>4, <4>1, <5>1, Writing
            <4>4. RegType'
                BY <2>1, <3>1, <4>1, <4>3 DEF RegType, Entry
            <4>5. Held' = Held /\ Held = 1..len /\ \A i \in 1..len : Slot(i)' = Slot(i)
                BY <3>2, <3>4, <3>6, <4>1, <4>3 DEF Held, Slot, Filling, Shrinking
            <4>6. Listed' = Listed
                BY <4>5 DEF Listed
            <4>7. Registered'
                BY <2>1, <3>1, <3>2, <3>6, <4>5, <4>6 DEF Registered, Filling
            <4> QED
                BY <2>3, <3>1, <4>4, <4>7
        <3> QED
            BY <3>3, <3>5, <3>6
    <2>14. CASE Removed
        <3>1. pc["net"] = "shrink" /\ len' = len - 1 /\ UNCHANGED <<slots, block, live, opening, closing, shutdown>>
              /\ LogThen("net", 1, next["net"])
            BY <2>14 DEF Removed, At, logVars
        <3>2. pc'["net"] = "lock" /\ len > 0 /\ len \in Nat /\ len <= Len(slots) /\ opening = NoSession
              /\ next["net"] # "done"
            <4>1. pc'["net"] = "lock"
                BY <2>1, <3>1, Goes DEF Thread
            <4> QED
                BY <2>1, <3>1, <4>1 DEF RegInv, RegType, Shrinking, Opening, Control
        <3>3. RegType'
            BY <2>1, <3>1, <3>2 DEF RegType
        <3>4. Held' = Held /\ \A i \in Held : Slot(i)' = Slot(i)
            BY <3>1, <3>2 DEF Held, Slot, Filling, Shrinking
        <3>5. Listed' = Listed
            BY <3>4 DEF Listed
        <3>6. Registered'
            BY <2>1, <3>1, <3>2, <3>4, <3>5 DEF Registered, Filling
        <3> QED
            BY <2>3, <3>1, <3>2, <3>3, <3>6
    <2>15. ASSUME NEW s \in Session, NEW there \in {"check", "stop"}, Remove(s, there),
                  pc["net"] \in {"service", "stop"}
           PROVE  RegType' /\ RegInv'
        <3>1. ~Filling /\ ~Shrinking /\ opening = NoSession /\ closing = NoSession
            BY <2>1, <2>15 DEF RegInv, Opening, Logging, Shrinking, Filling
        <3>2. RegType' /\ Registered' /\ Shrinking' /\ len > 0 /\ UNCHANGED <<len, opening>>
            BY <2>1, <2>15, <3>1, RegRemove, Removal DEF Remove
        <3> QED
            BY <3>1, <3>2
            DEF RegInv, RegistryLive, Registered, Logging, Opening, Filling, Shrinking
    <2>16. CASE Destroy
        BY <2>1, <2>2, <2>15, <2>16 DEF Destroy, At, RegType
    <2>17. ASSUME NEW s \in Session, NetDisconnect(s) PROVE RegType' /\ RegInv'
        BY <2>15, <2>17 DEF NetDisconnect, At
    <2> QED
        BY <1>1, <1>3, <2>4, <2>5, <2>6, <2>7, <2>8, <2>9, <2>10, <2>11, <2>12, <2>13, <2>14, <2>16, <2>17
        DEF NetWork, NetEvent, AppendFails
<1>4. CASE UNCHANGED vars
    <2>1. UNCHANGED <<pc, next, shutdown, registry>>
        BY <1>4 DEF vars
    <2>2. RegType' /\ (Aborted' <=> Aborted)
        BY <1>0, <2>1 DEF RegType, registry, array, Aborted
    <2>3. ASSUME ~Aborted PROVE RegInv'
        <3>1. Registered'
            BY <1>0, <2>1, <2>3, RegKept DEF registry, array, Filling, Shrinking
        <3> QED
            BY <1>0, <2>1, <2>3, <3>1
            DEF RegInv, RegistryLive, Registered, registry, array, Logging, Opening, Filling, Shrinking
    <2> QED
        BY <2>2, <2>3
<1> QED
    BY <1>2, <1>3, <1>4 DEF Next

----------------------------------------------------------------------------
(* The walk, and the broadcast. *)

LEMMA CastFields ==
    ASSUME NEW r \in Cast
    PROVE  /\ r.len \in Nat /\ r.present \in SUBSET Session /\ r.wrote \in [Session -> Nat]
           /\ r.left \in BOOLEAN /\ r.astray \in BOOLEAN
BY DEF Cast

LEMMA PresentOnly ==
    ASSUME NEW r \in Cast, NEW p \in SUBSET Session
    PROVE  /\ [r EXCEPT !.present = p] \in Cast
           /\ [r EXCEPT !.present = p].len = r.len
           /\ [r EXCEPT !.present = p].present = p
           /\ [r EXCEPT !.present = p].wrote = r.wrote
           /\ [r EXCEPT !.present = p].left = r.left
           /\ [r EXCEPT !.present = p].astray = r.astray
BY DEF Cast

LEMMA LeftOnly ==
    ASSUME NEW r \in Cast, NEW b \in BOOLEAN
    PROVE  /\ [r EXCEPT !.left = b] \in Cast
           /\ [r EXCEPT !.left = b].len = r.len
           /\ [r EXCEPT !.left = b].present = r.present
           /\ [r EXCEPT !.left = b].wrote = r.wrote
           /\ [r EXCEPT !.left = b].left = b
           /\ [r EXCEPT !.left = b].astray = r.astray
BY DEF Cast

LEMMA WroteOnly ==
    ASSUME NEW r \in Cast, NEW w \in [Session -> Nat]
    PROVE  /\ [r EXCEPT !.wrote = w] \in Cast
           /\ [r EXCEPT !.wrote = w].len = r.len
           /\ [r EXCEPT !.wrote = w].present = r.present
           /\ [r EXCEPT !.wrote = w].wrote = w
           /\ [r EXCEPT !.wrote = w].left = r.left
           /\ [r EXCEPT !.wrote = w].astray = r.astray
BY DEF Cast

LEMMA AstrayOnly ==
    ASSUME NEW r \in Cast, NEW b \in BOOLEAN
    PROVE  /\ [r EXCEPT !.astray = b] \in Cast
           /\ [r EXCEPT !.astray = b].len = r.len
           /\ [r EXCEPT !.astray = b].present = r.present
           /\ [r EXCEPT !.astray = b].wrote = r.wrote
           /\ [r EXCEPT !.astray = b].left = r.left
           /\ [r EXCEPT !.astray = b].astray = b
BY DEF Cast

\* As long as nobody leaves, the network thread leaves every session in its place.
LEMMA SlotsKept ==
    ASSUME CInv, NetWork \/ NetEvent, ~Aborted', Shrinking \/ ~Shrinking'
    PROVE  /\ cast' = cast /\ seen' \in Address /\ Len(slots') >= Len(slots)
           /\ \A i \in Held : i \in Held' /\ Slot(i)' = Slot(i)
<1>0. PlaceType /\ RegType /\ RegInv /\ Registered /\ Control /\ ~Aborted /\ seen \in Address
      /\ slots \in Seq(Entry) /\ len \in Nat /\ len <= Len(slots)
    BY Alive DEF Next, CInv, TypeInv, RegType, RegInv, RegistryLive, Registered, CastType
<1>1. ASSUME UNCHANGED <<slots, len, seen, cast>>, ~Filling \/ opening' = opening,
             Filling' <=> Filling, Shrinking' <=> Shrinking
      PROVE  /\ cast' = cast /\ seen' \in Address /\ Len(slots') >= Len(slots)
             /\ \A i \in Held : i \in Held' /\ Slot(i)' = Slot(i)
    BY <1>0, <1>1 DEF Held, Slot
<1>2. ASSUME pc["net"] \notin {"fill", "shrink"},
             pc'["net"] \notin {"fill", "shrink"}, UNCHANGED <<slots, len, seen, cast>>
      PROVE  /\ cast' = cast /\ seen' \in Address /\ Len(slots') >= Len(slots)
             /\ \A i \in Held : i \in Held' /\ Slot(i)' = Slot(i)
    BY <1>1, <1>2 DEF Filling, Shrinking
<1>3. CASE Lock("net")
    BY <1>0, <1>2, <1>3, Goes DEF Lock, At, registry, array, walk, Thread
<1>4. CASE AppendLine("net")
    <2>1. pc["net"] = "append" /\ next["net"] \in {"check", "stop", "done"}
        BY <1>0, <1>4 DEF AppendLine, At, Control, Logging
    <2>2. pc'["net"] \in {"lock", next["net"]}
        BY <1>0, <1>4 DEF AppendLine, PlaceType, Thread
    <2> QED
        BY <1>2, <1>4, <2>1, <2>2 DEF AppendLine, array, walk
<1>5. CASE AppendFails("net")
    BY <1>5, AbortEnds DEF AppendFails
<1>6. CASE NetInit
    <2>1. UNCHANGED <<seen, cast>> /\ slots' = <<>> /\ Len(slots) = 0 /\ pc["net"] = "init"
        BY <1>0, <1>6 DEF NetInit, At, walk, RegInv
    <2>2. Held = {}
        BY <1>0, <2>1 DEF Held, Shrinking
    <2> QED
        BY <1>0, <2>1, <2>2
<1>7. CASE Check \/ Idle
    BY <1>0, <1>2, <1>7, Goes DEF Check, Idle, At, registry, array, walk, Thread
<1>8. CASE NetMessage
    BY <1>0, <1>2, <1>8, Goes DEF NetMessage, At, registry, array, walk, Thread
<1>9. CASE \E s \in Session : NetConnect(s)
    BY <1>0, <1>2, <1>9, Goes DEF NetConnect, At, array, walk, Thread
<1>10. CASE Grow
    <2>1. pc["net"] = "grow" /\ pc'["net"] = "publish" /\ UNCHANGED <<len, cast>> /\ seen' \in {seen, "freed"}
        BY <1>0, <1>10, Goes DEF Grow, At, Thread
    <2>2. Len(slots') > Len(slots) /\ \A i \in 1..Len(slots) : slots'[i] = slots[i]
        BY <1>0, <1>10, Growth
    <2> QED
        BY <1>0, <2>1, <2>2 DEF Held, Slot, Filling, Shrinking, Address
<1>11. CASE Publish
    BY <1>0, <1>2, <1>11, Goes DEF Publish, At, walk, Thread
<1>12. CASE Push
    <2>1. pc["net"] = "push" /\ UNCHANGED <<seen, cast, opening>> /\ len + 1 \in 1..Len(slots) /\ opening \in Entry
        BY <1>0, <1>12 DEF Push, At, walk, RegInv, RegType
    <2>2. CASE slots' = [slots EXCEPT ![len + 1] = opening] /\ Goto("net", "raise") /\ UNCHANGED len
        <3>1. Len(slots') = Len(slots) /\ \A i \in 1..len : slots'[i] = slots[i]
            BY <1>0, <2>1, <2>2, Writing
        <3>2. pc'["net"] = "raise"
            BY <1>0, <2>2, Goes DEF Thread
        <3> QED
            BY <1>0, <2>1, <2>2, <3>1, <3>2 DEF Held, Slot, Filling, Shrinking
    <2>3. CASE len' = len + 1 /\ Goto("net", "fill") /\ UNCHANGED slots
        <3>1. pc'["net"] = "fill"
            BY <1>0, <2>3, Goes DEF Thread
        <3> QED
            BY <1>0, <2>1, <2>3, <3>1 DEF Held, Slot, Filling, Shrinking
    <2> QED
        BY <1>12, <2>2, <2>3 DEF Push
<1>13. CASE Pushed
    <2>1. pc["net"] \in {"raise", "fill"} /\ UNCHANGED <<seen, cast>> /\ pc'["net"] = "lock"
        BY <1>0, <1>13, Goes DEF Pushed, At, walk, Thread
    <2>2. CASE pc["net"] = "raise"
        <3>1. len' = len + 1 /\ UNCHANGED slots
            BY <1>13, <2>2 DEF Pushed, At
        <3> QED
            BY <1>0, <2>1, <2>2, <3>1 DEF Held, Slot, Filling, Shrinking
    <2>3. CASE pc["net"] = "fill"
        <3>1. slots' = [slots EXCEPT ![len] = opening] /\ UNCHANGED len
            BY <1>13, <2>3 DEF Pushed, At
        <3>2. len \in 1..Len(slots) /\ opening \in Entry
            BY <1>0, <2>3 DEF RegInv, Filling, RegType
        <3>3. Len(slots') = Len(slots) /\ slots'[len] = opening
              /\ \A i \in 1..Len(slots) : i # len => slots'[i] = slots[i]
            BY <1>0, <3>1, <3>2, Writing
        <3> QED
            BY <1>0, <2>1, <2>3, <3>1, <3>3 DEF Held, Slot, Filling, Shrinking
    <2> QED
        BY <2>1, <2>2, <2>3
<1>14. CASE Removed
    <2>1. pc["net"] = "shrink" /\ pc'["net"] = "lock" /\ len' = len - 1 /\ UNCHANGED <<slots, seen, cast>>
        BY <1>0, <1>14, Goes DEF Removed, At, walk, Thread
    <2> QED
        BY <1>0, <2>1 DEF Held, Slot, Filling, Shrinking
<1>15. ASSUME NEW s, NEW there, Remove(s, there), pc["net"] \in {"service", "stop"} PROVE FALSE
    BY <1>0, <1>15 DEF Remove, Shrinking, PlaceType, Thread
<1>16. CASE Destroy \/ \E s \in Session : NetDisconnect(s)
    <2>1. At("net", "stop") /\ Goto("net", "done") /\ UNCHANGED <<registry, walk>>
        BY <1>15, <1>16, Zenon DEF Destroy, NetDisconnect, At
    <2> QED
        BY <1>0, <1>2, <2>1, Goes DEF At, registry, array, walk, Thread
<1> QED
    BY <1>3, <1>4, <1>5, <1>6, <1>7, <1>8, <1>9, <1>10, <1>11, <1>12, <1>13, <1>14, <1>16
    DEF NetWork, NetEvent

\* CastInv looks at a broadcast under way, and at the places of the sessions.
LEMMA CastKept ==
    ASSUME CInv, ~Aborted, cast' = cast, at' = at, got' = got, Casting' => pc'["ui"] = pc["ui"],
           \A i \in Held : i \in Held' /\ Slot(i)' = Slot(i)
    PROVE  CastInv'
<1>1. ASSUME Casting', ~cast.left, ~cast.astray
      PROVE  /\ at \in Nat /\ cast.len \in Nat /\ at <= cast.len /\ 1..cast.len \subseteq Held
             /\ pc["ui"] = "write" => \A i \in 1..cast.len : i = at + 1 => got = Slot(i)
             /\ cast.present = {Slot(i) : i \in 1..cast.len}
             /\ \A s \in Session : cast.wrote[s] = IF \E i \in 1..at : Slot(i) = s THEN 1 ELSE 0
    <2>1. Casting /\ CastInv /\ WalkInv /\ at \in Nat /\ cast \in Cast
        BY <1>1 DEF CInv, TypeInv, LogType, CastType, Casting
    <2>2. cast.len \in Nat
        BY <2>1, CastFields DEF Cast
    <2> QED
        BY <1>1, <2>1, <2>2 DEF CastInv, WalkInv
<1>2. ASSUME Casting', ~cast.left, ~cast.astray, NEW i \in 1..cast.len PROVE i \in Held' /\ Slot(i)' = Slot(i)
    BY <1>1, <1>2
<1> SUFFICES ASSUME Casting', ~cast.left, ~cast.astray
             PROVE  /\ 1..cast.len \subseteq Held'
                    /\ pc'["ui"] = "write" => \A i \in 1..cast.len : i = at + 1 => got = Slot(i)'
                    /\ cast.present = {Slot(i)' : i \in 1..cast.len}
                    /\ \A s \in Session :
                         cast.wrote[s] = IF \E i \in 1..at : Slot(i)' = s THEN 1 ELSE 0
    BY Zenon DEF CastInv
<1>3. \A i \in 1..at : i \in 1..cast.len
    BY <1>1
<1> QED
    BY <1>1, <1>2, <1>3

\* Leaving: nobody whom the broadcast has yet to reach moves, unless he or one before him
\* is the one that left.
LEMMA CastRemove ==
    ASSUME CInv, ~Aborted, pc["net"] \in {"service", "stop"}, NEW s \in Session, NEW there,
           Remove(s, there), pc'["ui"] = pc["ui"], at' = at, got' = got
    PROVE  CastType' /\ WalkInv' /\ CastInv'
<1>0. PlaceType /\ RegType /\ Registered /\ WalkInv /\ CastInv /\ cast \in Cast /\ at \in Nat
      /\ ~Filling /\ ~Shrinking /\ opening = NoSession /\ closing = NoSession
    BY DEF CInv, TypeInv, LogType, CastType, RegInv, RegistryLive, Registered, Opening, Logging,
           Shrinking, Filling
<1> DEFINE p == cast.present \ {s}
<1> DEFINE b == cast.left \/ s \in cast.present
<1>1. cast' = [cast EXCEPT !.present = p, !.left = b] /\ UNCHANGED <<len, seen, opening>>
    BY Zenon DEF Remove
<1>2. p \in SUBSET Session /\ b \in BOOLEAN
    BY <1>0, CastFields
<1> HIDE DEF p, b
<1>3. cast' \in Cast /\ cast'.len = cast.len /\ cast'.present = p /\ cast'.wrote = cast.wrote
      /\ cast'.left = b /\ cast'.astray = cast.astray
    <2> DEFINE q == [cast EXCEPT !.present = p]
    <2>1. q \in Cast /\ q.len = cast.len /\ q.present = p /\ q.wrote = cast.wrote /\ q.left = cast.left
          /\ q.astray = cast.astray
        BY <1>0, <1>2, PresentOnly
    <2>2. cast' = [q EXCEPT !.left = b]
        BY <1>1, Zenon
    <2> HIDE DEF q
    <2> QED
        BY <1>2, <2>1, <2>2, LeftOnly
<1>4. Shrinking' /\ ~Filling' /\ Len(slots') = Len(slots)
    BY <1>0, Removal
<1>5. PICK n \in 1..len :
        /\ slots[n] = s
        /\ \A i \in 1..Len(slots) :
             slots'[i] = IF i >= n /\ i < len THEN slots[i + 1] ELSE slots[i]
    BY <1>0, Removal
<1>6. WalkInv'
    BY <1>0, <1>3, <1>4 DEF WalkInv, Casting
<1>7. ASSUME Casting', ~cast'.left, ~cast'.astray
      PROVE  /\ 1..cast'.len \subseteq Held'
             /\ pc'["ui"] = "write" => \A i \in 1..cast'.len : i = at' + 1 => got' = Slot(i)'
             /\ cast'.present = {Slot(i)' : i \in 1..cast'.len}
             /\ \A u \in Session :
                  cast'.wrote[u] = IF \E i \in 1..at' : Slot(i)' = u THEN 1 ELSE 0
    <2>1. ~cast.left /\ s \notin cast.present /\ ~cast.astray /\ Casting
        BY <1>3, <1>7 DEF b, Casting
    <2>2. /\ cast.len \in Nat /\ at <= cast.len /\ 1..cast.len \subseteq Held
          /\ pc["ui"] = "write" => \A i \in 1..cast.len : i = at + 1 => got = Slot(i)
          /\ cast.present = {Slot(i) : i \in 1..cast.len}
          /\ \A u \in Session : cast.wrote[u] = IF \E i \in 1..at : Slot(i) = u THEN 1 ELSE 0
        BY <1>0, <2>1, CastFields DEF CastInv, WalkInv
    <2>3. Held = 1..len /\ Held' = 1..(len - 1) /\ len \in Nat /\ len <= Len(slots)
          /\ (\A i : Slot(i) = slots[i]) /\ (\A i : Slot(i)' = slots'[i])
        BY <1>0, <1>1, <1>4 DEF Held, Slot, RegType
    <2>4. n > cast.len
        BY <1>5, <2>1, <2>2, <2>3
    <2>5. \A i \in 1..cast.len : i \in Held' /\ Slot(i)' = Slot(i)
        BY <1>5, <2>2, <2>3, <2>4
    <2>6. cast'.present = cast.present
        BY <1>3, <2>1 DEF p
    <2>7. \A i \in 1..at : i \in 1..cast.len
        BY <1>0, <2>2
    <2> QED
        BY <1>3, <2>2, <2>5, <2>6, <2>7
<1>8. CastInv'
    BY <1>7, Zenon DEF CastInv
<1> QED
    BY <1>0, <1>1, <1>3, <1>6, <1>8 DEF CastType, CInv, TypeInv

\* The walk goes on while the network thread does anything else.
LEMMA CastNet ==
    ASSUME CInv, NetWork \/ NetEvent, ~Aborted'
    PROVE  CastType' /\ WalkInv' /\ CastInv'
<1>0. PlaceType /\ RegType /\ WalkInv /\ ~Aborted /\ CastType /\ at \in Nat /\ Len(slots) \in Nat
    BY Alive DEF Next, CInv, TypeInv, RegType, LogType
<1>1. pc'["ui"] = pc["ui"] /\ UNCHANGED <<at, got>>
    BY <1>0, NetFrame, AbortEnds DEF AppendFails
<1>2. CASE Shrinking \/ ~Shrinking'
    <2>1. /\ cast' = cast /\ seen' \in Address /\ Len(slots') >= Len(slots)
          /\ \A i \in Held : i \in Held' /\ Slot(i)' = Slot(i)
        BY <1>2, SlotsKept
    <2>2. CastInv'
        BY <1>0, <1>1, <2>1, CastKept DEF Casting
    <2>3. Len(slots') \in Nat
        BY RegStep DEF RegType, Next
    <2>4. cast.len \in Nat
        BY <1>0, CastFields DEF CastType
    <2> QED
        BY <1>0, <1>1, <2>1, <2>2, <2>3, <2>4 DEF CastType, WalkInv, Casting
<1>3. CASE ~Shrinking /\ Shrinking'
    <2>1. ASSUME ~\E s \in Session, there \in {"check", "stop"} :
                    Remove(s, there) /\ pc["net"] \in {"service", "stop"}
          PROVE  FALSE
        <3>1. ASSUME NEW there, Goto("net", there), there # "shrink" PROVE FALSE
            BY <1>0, <1>3, <3>1, Goes DEF Shrinking, Thread
        <3>2. ASSUME NEW n, NEW there, LogThen("net", n, there) PROVE FALSE
            BY <1>0, <1>3, <3>2, Goes DEF Shrinking, Thread
        <3>3. ASSUME AppendLine("net") PROVE FALSE
            <4>1. next["net"] # "shrink" /\ pc'["net"] \in {"lock", next["net"]}
                BY <1>0, <3>3 DEF AppendLine, PlaceType, Onward, Thread
            <4> QED
                BY <1>3, <4>1 DEF Shrinking
        <3>4. ~(NetInit \/ NetMessage \/ Pushed \/ Removed)
            BY <3>2, Zenon DEF NetInit, NetMessage, Pushed, Removed
        <3>5. ~(Lock("net") \/ Check \/ Idle \/ Grow \/ Publish \/ Push \/ \E s \in Session : NetConnect(s))
            BY <3>1 DEF Lock, Check, Idle, Grow, Publish, Push, NetConnect
        <3>6. ~AppendFails("net")
            BY AbortEnds DEF AppendFails
        <3>7. live \in SUBSET Session
            BY <1>0 DEF RegType
        <3>8. ~Destroy
            BY <2>1, <3>1, <3>7 DEF Destroy, At
        <3>9. ~\E s \in Session : NetDisconnect(s)
            BY <2>1 DEF NetDisconnect, At
        <3> QED
            BY <3>3, <3>4, <3>5, <3>6, <3>8, <3>9 DEF NetWork, NetEvent
    <2> QED
        BY <1>0, <1>1, <2>1, CastRemove
<1> QED
    BY <1>2, <1>3

\* The UI thread begins a broadcast, and goes on with it.
LEMMA CastUI ==
    ASSUME CInv, UI
    PROVE  CastType' /\ (~Aborted' => WalkInv' /\ CastInv')
<1>0. PlaceType /\ RegType /\ RegInv /\ Registered /\ WalkInv /\ CastInv /\ ~Aborted
      /\ seen \in Address /\ got \in Entry /\ cast \in Cast /\ at \in Nat /\ block \in Address
      /\ slots \in Seq(Entry) /\ len \in Nat /\ len <= Len(slots)
    BY Alive DEF Next, CInv, TypeInv, RegType, CastType, LogType, RegInv, RegistryLive, Registered
<1>1. UNCHANGED <<slots, len, block, live, opening, closing>>
      /\ (Aborted' \/ CreateThread \/ pc'["net"] = pc["net"])
    BY <1>0, UIFrame DEF registry, array
<1>2. ASSUME UNCHANGED cast, seen' \in {seen, "null", block}, got' \in {got, NoSession},
             pc'["ui"] \notin {"entry", "cast", "slot", "write"}
      PROVE  CastType' /\ WalkInv' /\ CastInv'
    BY <1>0, <1>2 DEF CastType, WalkInv, CastInv, Casting, Entry, Address
<1>3. ASSUME Abort PROVE CastType' /\ Aborted'
    BY <1>0, <1>3, AbortEnds DEF walk, CastType
<1>4. ASSUME NEW there, there \notin {"entry", "cast", "slot", "write"},
             Goto("ui", there) \/ \E n : LogThen("ui", n, there)
      PROVE  pc'["ui"] \notin {"entry", "cast", "slot", "write"}
    BY <1>0, <1>4, Goes DEF Thread
<1>5. CASE Lock("ui") \/ CreateThread \/ Drain \/ PrintedAll \/ Drained \/ OtherKey \/ RequestShutdown
           \/ Join \/ Command \/ Quit
    <2>1. CASE CreateThread
        BY <1>2, <2>1 DEF CreateThread, walk
    <2>2. CASE Lock("ui") \/ Drain \/ PrintedAll \/ Drained \/ OtherKey \/ RequestShutdown \/ Join
        BY <1>2, <1>4, <2>2 DEF Lock, Drain, PrintedAll, Drained, OtherKey, RequestShutdown, Join, walk
    <2>3. CASE Command \/ Quit
        <3>1. UNCHANGED cast /\ seen' = seen /\ got' = got
            BY <2>3 DEF Command, Quit, walk
        <3>2. (\E n : LogThen("ui", n, "drain")) \/ (\E n : LogThen("ui", n, "quit"))
            BY <2>3 DEF Command, Quit
        <3>3. pc'["ui"] \notin {"entry", "cast", "slot", "write"}
            BY <1>4, <3>2
        <3> QED
            BY <1>2, <3>1, <3>3
    <2> QED
        BY <1>5, <2>1, <2>2, <2>3
<1>6. CASE AppendLine("ui")
    <2>1. next["ui"] \notin {"entry", "cast", "slot", "write"}
        BY <1>0 DEF PlaceType, Onward, Thread
    <2>2. pc'["ui"] \in {"lock", next["ui"]} /\ UNCHANGED <<seen, got, cast>>
        BY <1>0, <1>6 DEF AppendLine, walk, PlaceType, Thread
    <2> QED
        BY <1>2, <2>1, <2>2
<1>7. CASE AppendFails("ui")
    BY <1>3, <1>7 DEF AppendFails
<1>8. CASE PrintLine
    BY <1>2, <1>8 DEF PrintLine, At
<1>9. CASE Status \/ StatusArray \/ Broadcast
    BY <1>2, <1>4, <1>9 DEF Status, StatusArray, Broadcast, LoadArray
<1>10. \A n \in Lengths : n \in 0..Len(slots)
    BY <1>0 DEF Lengths, Address
<1>11. CASE StatusMore
    <2>1. PICK n \in Lengths : \/ Goto("ui", "entry") /\ at < n /\ UNCHANGED <<at, seen, got, cast>>
                               \/ Goto("ui", "drain") /\ seen' = "null" /\ UNCHANGED <<got, cast>>
                               \/ Abort
        <3>1. "freed" \in Address /\ Lengths # {}
            BY <1>0 DEF Lengths, Address
        <3> QED
            BY <1>11, <3>1, Zenon DEF StatusMore
    <2>2. CASE Goto("ui", "entry") /\ at < n /\ UNCHANGED <<at, seen, got, cast>>
        <3>1. pc'["ui"] = "entry" /\ at < Len(slots)
            BY <1>0, <1>10, <2>1, <2>2, Goes DEF Thread
        <3> QED
            BY <1>0, <1>1, <2>2, <3>1 DEF CastType, WalkInv, CastInv, Casting
    <2>3. CASE Goto("ui", "drain") /\ seen' = "null" /\ UNCHANGED <<got, cast>>
        BY <1>2, <1>4, <2>3
    <2> QED
        BY <1>3, <2>1, <2>2, <2>3
<1>12. ASSUME LoadSlot, at < Len(slots)
       PROVE  got' \in Entry /\ seen' = "null" /\ at' = at /\ (~Astray => got' = slots[at + 1])
    <2>1. slots[at + 1] \in Entry
        <3>1. at + 1 \in 1..Len(slots)
            BY <1>0, <1>12
        <3> QED
            BY <1>0, <3>1, InSeq
    <2> QED
        BY <1>12, <2>1 DEF LoadSlot, Entry
<1>13. CASE StatusSlot
    <2>1. pc["ui"] = "entry" /\ (Abort \/ (LoadSlot /\ Goto("ui", "about") /\ UNCHANGED cast))
        BY <1>13 DEF StatusSlot, At
    <2>2. CASE LoadSlot /\ Goto("ui", "about") /\ UNCHANGED cast
        <3>1. got' \in Entry /\ seen' = "null"
            BY <1>0, <1>12, <2>1, <2>2 DEF WalkInv
        <3>2. pc'["ui"] = "about"
            BY <1>0, <2>2, Goes DEF Thread
        <3> QED
            BY <1>0, <2>2, <3>1, <3>2 DEF CastType, WalkInv, CastInv, Casting, Address
    <2> QED
        BY <1>3, <2>1, <2>2
<1>14. CASE StatusSession
    BY <1>2, <1>3, <1>4, <1>14 DEF StatusSession
<1>15. CASE CastLength
    <2>1. CASE Abort
        BY <1>3, <2>1
    <2>2. ASSUME NEW n \in Lengths, BeginCast(n), pc["ui"] = "count" PROVE CastType' /\ WalkInv' /\ CastInv'
        <3> DEFINE p == IF seen = "null" THEN {} ELSE Listed
        <3>1. cast' = [len |-> n, present |-> p, wrote |-> [s \in Session |-> 0],
                       left |-> Shrinking, astray |-> (seen = "freed")]
              /\ at' = 0 /\ seen' = "null" /\ got' = got
            BY <2>2, Zenon DEF BeginCast, NoCast, registry
        <3>2. n \in Nat /\ n <= Len(slots) /\ Shrinking \in BOOLEAN /\ (seen = "freed") \in BOOLEAN
            BY <1>0, <1>10 DEF Shrinking
        <3>3. p \in SUBSET Session
            BY <1>0 DEF Registered, RegType
        <3> HIDE DEF p
        <3>4. cast' \in Cast /\ cast'.len = n /\ cast'.present = p /\ cast'.wrote = [s \in Session |-> 0]
              /\ cast'.left = Shrinking /\ cast'.astray = (seen = "freed")
            BY <3>1, <3>2, <3>3, Zenon DEF Cast
        <3>5. pc'["ui"] = "cast" /\ pc'["net"] = pc["net"]
            BY <1>0, <2>2, Goes, Zenon DEF BeginCast, Thread
        <3>6. Len(slots') = Len(slots)
            BY <1>1
        <3>7. WalkInv'
            BY <3>1, <3>2, <3>4, <3>5, <3>6 DEF WalkInv, Casting
        <3>8. ASSUME ~Shrinking, seen # "freed"
              PROVE  1..n \subseteq Held' /\ p = {Slot(i)' : i \in 1..n}
            <4>1. Held' = 1..len /\ Held = 1..len /\ \A i : Slot(i)' = Slot(i)
                BY <1>1, <3>5, <3>8 DEF Held, Slot, Shrinking, Filling
            <4>2. CASE seen = "null"
                <5>1. n = 0 /\ p = {}
                    BY <4>2 DEF Lengths, p
                <5>2. 1..n = {}
                    BY <5>1
                <5> QED
                    BY <5>1, <5>2
            <4>3. CASE seen = "here"
                <5>1. n = len /\ p = Listed
                    BY <4>3 DEF Lengths, p
                <5> QED
                    BY <4>1, <5>1 DEF Listed
            <4> QED
                BY <1>0, <3>8, <4>2, <4>3 DEF Address
        <3>9. ASSUME Casting', ~cast'.left, ~cast'.astray
              PROVE  /\ 1..cast'.len \subseteq Held'
                     /\ pc'["ui"] = "write" => \A i \in 1..cast'.len : i = at' + 1 => got' = Slot(i)'
                     /\ cast'.present = {Slot(i)' : i \in 1..cast'.len}
                     /\ \A u \in Session :
                          cast'.wrote[u] = IF \E i \in 1..at' : Slot(i)' = u THEN 1 ELSE 0
            <4>1. ~Shrinking /\ seen # "freed"
                BY <3>4, <3>9
            <4>2. 1..0 = {}
                OBVIOUS
            <4> QED
                BY <3>1, <3>4, <3>5, <3>8, <4>1, <4>2
        <3>10. CastInv'
            BY <3>9, Zenon DEF CastInv
        <3> QED
            BY <1>0, <3>1, <3>4, <3>7, <3>10 DEF CastType, Address
    <2> QED
        BY <1>15, <2>1, <2>2, Zenon DEF CastLength, At
<1>16. ASSUME pc'["net"] = pc["net"]
       PROVE  Held' = Held /\ \A i : Slot(i)' = Slot(i)
    BY <1>1, <1>16 DEF Held, Slot, Filling, Shrinking
<1>17. CASE CastArray
    <2>1. pc["ui"] = "cast" /\ pc'["ui"] = "slot" /\ at < cast.len /\ UNCHANGED <<at, got, cast>>
          /\ seen' = block /\ pc'["net"] = pc["net"]
        BY <1>0, <1>17, Goes DEF CastArray, LoadArray, At, Thread
    <2>2. WalkInv'
        BY <1>0, <1>1, <2>1 DEF WalkInv, Casting
    <2>3. CastInv'
        BY <1>0, <1>16, <2>1 DEF CastInv, Casting
    <2> QED
        BY <1>0, <2>1, <2>2, <2>3 DEF CastType
<1>18. CASE CastSlot
    <2>1. CASE Abort
        BY <1>3, <2>1
    <2>2. CASE LoadSlot /\ cast' = [cast EXCEPT !.astray = @ \/ Astray] /\ Goto("ui", "write")
        <3>1. pc["ui"] = "slot" /\ pc'["ui"] = "write" /\ pc'["net"] = pc["net"]
            BY <1>0, <1>18, <2>2, Goes DEF CastSlot, At, Thread
        <3>2. at < cast.len /\ at < Len(slots) /\ cast.len \in Nat
            BY <1>0, <3>1, CastFields DEF WalkInv, Casting
        <3>3. got' \in Entry /\ seen' = "null" /\ at' = at /\ (~Astray => got' = slots[at + 1])
            BY <1>12, <2>2, <3>2
        <3> DEFINE b == cast.astray \/ Astray
        <3>4. cast' = [cast EXCEPT !.astray = b] /\ b \in BOOLEAN
            BY <2>2, Zenon
        <3> HIDE DEF b
        <3>5. cast' \in Cast /\ cast'.len = cast.len /\ cast'.present = cast.present
              /\ cast'.wrote = cast.wrote /\ cast'.left = cast.left /\ cast'.astray = b
            BY <1>0, <3>4, AstrayOnly
        <3>6. WalkInv'
            BY <1>0, <1>1, <3>1, <3>2, <3>3, <3>5 DEF WalkInv, Casting
        <3>7. ASSUME ~cast'.left, ~cast'.astray
              PROVE  /\ 1..cast'.len \subseteq Held'
                     /\ \A i \in 1..cast'.len : i = at' + 1 => got' = Slot(i)'
                     /\ cast'.present = {Slot(i)' : i \in 1..cast'.len}
                     /\ \A u \in Session :
                          cast'.wrote[u] = IF \E i \in 1..at' : Slot(i)' = u THEN 1 ELSE 0
            <4>1. ~cast.left /\ ~cast.astray /\ ~Astray
                BY <3>5, <3>7 DEF b
            <4>2. \A i \in 1..cast.len : i = at + 1 => got' = Slot(i)
                BY <3>3, <4>1 DEF Astray, Slot
            <4> QED
                BY <1>0, <1>16, <3>1, <3>3, <3>5, <4>1, <4>2 DEF CastInv, Casting
        <3>8. CastInv'
            BY <3>7, Zenon DEF CastInv
        <3> QED
            BY <3>3, <3>5, <3>6, <3>8 DEF CastType, Address
    <2> QED
        BY <1>18, <2>1, <2>2 DEF CastSlot
<1>19. CASE CastWrite
    <2>1. CASE Abort
        BY <1>3, <2>1
    <2>2. CASE /\ cast' = IF got \in live THEN [cast EXCEPT !.wrote[got] = @ + 1] ELSE cast
               /\ at' = at + 1 /\ got' = NoSession /\ Goto("ui", "cast") /\ seen' = seen
        <3>1. pc["ui"] = "write" /\ pc'["ui"] = "cast" /\ pc'["net"] = pc["net"]
            BY <1>0, <1>19, <2>2, Goes DEF CastWrite, At, Thread
        <3>2. at < cast.len /\ cast.len \in Nat /\ cast.wrote \in [Session -> Nat]
            BY <1>0, <3>1, CastFields DEF WalkInv, Casting
        <3> DEFINE w == IF got \in live THEN [cast.wrote EXCEPT ![got] = @ + 1] ELSE cast.wrote
        <3>3. w \in [Session -> Nat]
              /\ \A u \in Session : w[u] = IF u = got /\ got \in live THEN cast.wrote[u] + 1 ELSE cast.wrote[u]
            BY <1>0, <3>2 DEF RegType
        <3>4. cast' \in Cast /\ cast'.len = cast.len /\ cast'.present = cast.present
              /\ cast'.wrote = w /\ cast'.left = cast.left /\ cast'.astray = cast.astray
            <4>1. CASE got \in live
                <5>1. cast' = [cast EXCEPT !.wrote = w]
                    BY <2>2, <4>1, Zenon
                <5> HIDE DEF w
                <5> QED
                    BY <1>0, <3>3, <5>1, WroteOnly
            <4>2. CASE got \notin live
                BY <1>0, <2>2, <4>2
            <4> QED
                BY <4>1, <4>2
        <3> HIDE DEF w
        <3>5. WalkInv'
            BY <1>0, <1>1, <2>2, <3>1, <3>2, <3>4 DEF WalkInv, Casting
        <3>6. ASSUME ~cast'.left, ~cast'.astray
              PROVE  /\ 1..cast'.len \subseteq Held'
                     /\ cast'.present = {Slot(i)' : i \in 1..cast'.len}
                     /\ \A u \in Session :
                          cast'.wrote[u] = IF \E i \in 1..at' : Slot(i)' = u THEN 1 ELSE 0
            <4>1. /\ 1..cast.len \subseteq Held
                  /\ \A i \in 1..cast.len : i = at + 1 => got = Slot(i)
                  /\ cast.present = {Slot(i) : i \in 1..cast.len}
                  /\ \A u \in Session : cast.wrote[u] = IF \E i \in 1..at : Slot(i) = u THEN 1 ELSE 0
                BY <1>0, <3>1, <3>4, <3>6 DEF CastInv, Casting
            <4>2. PICK k \in 1..cast.len : k = at + 1
                BY <1>0, <3>2
            <4>3. Slot(k) = got /\ got \in live /\ \A i \in 1..at : Slot(i) # got
                <5>1. k \in Held /\ Slot(k) = got
                    BY <4>1, <4>2
                <5>2. got \in live
                    BY <1>0, <5>1 DEF Registered, Listed
                <5>3. ASSUME NEW i \in 1..at PROVE Slot(i) # got
                    <6>1. i \in Held /\ i # k
                        BY <1>0, <3>2, <4>1, <4>2
                    <6> QED
                        BY <1>0, <5>1, <6>1 DEF Registered
                <5> QED
                    BY <5>1, <5>2, <5>3
            <4>4. 1..at' = (1..at) \cup {k}
                BY <1>0, <2>2, <4>2
            <4>5. ASSUME NEW u \in Session
                  PROVE  w[u] = IF \E i \in 1..at' : Slot(i) = u THEN 1 ELSE 0
                <5>1. CASE u = got
                    BY <3>3, <4>1, <4>3, <4>4, <5>1
                <5>2. CASE u # got
                    BY <3>3, <4>1, <4>3, <4>4, <5>2
                <5> QED
                    BY <5>1, <5>2
            <4> QED
                BY <1>16, <3>1, <3>4, <4>1, <4>5
        <3>7. CastInv'
            BY <3>1, <3>6, Zenon DEF CastInv
        <3> QED
            BY <1>0, <2>2, <3>4, <3>5, <3>7 DEF CastType, Entry
    <2> QED
        BY <1>19, <2>1, <2>2, Zenon DEF CastWrite
<1>20. CASE CastDone
    <2>1. cast' = NoCast /\ LogThen("ui", 1, "drain") /\ UNCHANGED <<seen, got>>
        BY <1>20, Zenon DEF CastDone
    <2>2. pc'["ui"] = "lock"
        BY <1>0, <2>1, Goes DEF Thread
    <2>3. NoCast \in Cast
        BY DEF NoCast, Cast
    <2> QED
        BY <1>0, <2>1, <2>2, <2>3 DEF CastInv, WalkInv, CastType, Casting
<1> QED
    BY <1>5, <1>6, <1>7, <1>8, <1>9, <1>11, <1>13, <1>14, <1>15, <1>17, <1>18, <1>19, <1>20 DEF UI

LEMMA CastStep ==
    ASSUME CInv, [Next]_vars
    PROVE  CastType' /\ (~Aborted' => WalkInv' /\ CastInv')
<1>1. CASE UI
    BY <1>1, CastUI
<1>2. CASE NetWork \/ NetEvent
    <2>1. CASE Aborted'
        <3>1. ASSUME Abort PROVE CastType'
            BY <3>1, AbortEnds DEF walk, CInv, TypeInv, CastType
        <3>2. CASE AppendFails("net")
            BY <3>1, <3>2, <2>1 DEF AppendFails
        <3>3. ASSUME ~AppendFails("net") PROVE FALSE
            <4>1. PlaceType /\ ~Aborted
                BY <1>2, Alive DEF CInv, TypeInv, Next
            <4> QED
                BY <1>2, <2>1, <3>3, <4>1, NetFrame DEF Aborted
        <3> QED
            BY <2>1, <3>2, <3>3
    <2>2. CASE ~Aborted'
        BY <1>2, <2>2, CastNet
    <2> QED
        BY <2>1, <2>2
<1>3. CASE UNCHANGED vars
    <2>1. UNCHANGED <<pc, registry, walk>>
        BY <1>3 DEF vars
    <2>2. Held' = Held /\ (\A i : Slot(i)' = Slot(i)) /\ (Casting' <=> Casting) /\ (Aborted' <=> Aborted)
        BY <2>1 DEF registry, array, Held, Slot, Filling, Shrinking, Casting, Aborted
    <2>3. ~Aborted => CastInv'
        BY <2>1, <2>2, CastKept DEF walk
    <2>4. CastType' /\ (~Aborted => WalkInv')
        BY <2>1, <2>2 DEF CInv, TypeInv, CastType, WalkInv, walk, registry, array
    <2> QED
        BY <2>2, <2>3, <2>4
<1> QED
    BY <1>1, <1>2, <1>3 DEF Next

----------------------------------------------------------------------------
(* The threads and the lock. *)

LEMMA ControlStep ==
    ASSUME CInv, [Next]_vars, ~Aborted'
    PROVE  Control'
<1>0. PlaceType /\ (~Aborted => Control)
    BY DEF CInv, TypeInv
<1> USE DEF PlaceType, Thread
<1>1. ASSUME ~Aborted, NEW here, pc["ui"] = here, here \notin {"append", "print", "reset", "lock", "create"},
             NEW n, NEW there, LogThen("ui", n, there), there \in {"drain", "status", "quit"}, mutex' = mutex
      PROVE  Control'
    <2>1. pc'["ui"] = "lock" /\ next'["ui"] = there /\ pc'["net"] = pc["net"] /\ next'["net"] = next["net"]
        BY <1>0, <1>1 DEF LogThen
    <2> QED
        BY <1>0, <1>1, <2>1 DEF Control, UIPlace, NetPlace, Logging, Shrinking
<1>2. ASSUME ~Aborted, pc["ui"] \notin {"append", "print", "reset", "lock", "create"},
             NEW there, Goto("ui", there),
             there \in {"drain", "key", "status", "more", "entry", "about", "count", "cast", "slot",
                        "write", "join"}
             \/ (there = "end" /\ pc["net"] = "done"),
             mutex' = mutex
      PROVE  Control'
    <2>1. pc'["ui"] = there /\ next'["ui"] = next["ui"] /\ pc'["net"] = pc["net"] /\ next'["net"] = next["net"]
        BY <1>0, <1>2 DEF Goto
    <2> QED
        BY <1>0, <1>2, <2>1 DEF Control, UIPlace, NetPlace, Logging, Shrinking
<1>3. ASSUME ~Aborted, pc["net"] \in {"init", "service", "raise", "fill", "shrink"},
             NEW n, NEW there, LogThen("net", n, there), there \in {"check", "stop", "done"}, mutex' = mutex
      PROVE  Control'
    <2>1. pc'["net"] = "lock" /\ next'["net"] = there /\ pc'["ui"] = pc["ui"] /\ next'["ui"] = next["ui"]
        BY <1>0, <1>3 DEF LogThen
    <2> QED
        BY <1>0, <1>3, <2>1 DEF Control, UIPlace, NetPlace, Logging, Shrinking
<1>4. ASSUME ~Aborted, pc["net"] \in {"check", "service", "grow", "publish", "push", "stop"},
             NEW there, Goto("net", there),
             there \in {"check", "service", "grow", "publish", "push", "raise", "fill", "stop", "done"},
             mutex' = mutex
      PROVE  Control'
    <2>1. pc'["net"] = there /\ next'["net"] = next["net"] /\ pc'["ui"] = pc["ui"] /\ next'["ui"] = next["ui"]
        BY <1>0, <1>4 DEF Goto
    <2> QED
        BY <1>0, <1>4, <2>1 DEF Control, UIPlace, NetPlace, Logging, Shrinking
<1>5. ASSUME NEW t \in Thread, Lock(t) PROVE Control'
    <2>1. ~Aborted /\ pc[t] = "lock" /\ mutex = "free" /\ mutex' = t
        BY <1>5 DEF Lock, At
    <2>2. pc'[t] = "append" /\ (\A u \in Thread : u # t => pc'[u] = pc[u]) /\ next' = next
        BY <1>0, <1>5 DEF Lock, Goto
    <2> QED
        BY <1>0, <2>1, <2>2 DEF Control, UIPlace, NetPlace, Logging, Shrinking
<1>6. ASSUME NEW t \in Thread, AppendLine(t) PROVE Control'
    <2>1. ~Aborted /\ pc[t] = "append" /\ mutex' = "free" /\ next' = next
        BY <1>6 DEF AppendLine, At
    <2>2. pc'[t] \in {"lock", next[t]} /\ (\A u \in Thread : u # t => pc'[u] = pc[u])
        BY <1>0, <1>6 DEF AppendLine
    <2>3. CASE t = "ui"
        BY <1>0, <2>1, <2>2, <2>3 DEF Control, UIPlace, NetPlace, Logging, Shrinking
    <2>4. CASE t = "net"
        BY <1>0, <2>1, <2>2, <2>4 DEF Control, UIPlace, NetPlace, Logging, Shrinking
    <2> QED
        BY <2>3, <2>4
<1>7. ASSUME Abort PROVE FALSE
    BY <1>7, AbortEnds
<1>8. CASE CreateThread
    <2>1. ~Aborted /\ pc["ui"] = "create" /\ pc'["ui"] = "drain" /\ pc'["net"] = "init" /\ UNCHANGED <<next, mutex>>
        BY <1>8 DEF CreateThread, At, logVars
    <2> QED
        BY <1>0, <2>1 DEF Control, UIPlace, NetPlace, Logging, Shrinking
<1>9. CASE Drain
    <2>1. ~Aborted /\ pc["ui"] = "drain" /\ pc'["ui"] = "print" /\ pc'["net"] = pc["net"] /\ next' = next
          /\ mutex = "free" /\ mutex' = "ui"
        BY <1>0, <1>9 DEF Drain, At, Goto
    <2> QED
        BY <1>0, <2>1 DEF Control, UIPlace, NetPlace, Logging, Shrinking
<1>10. CASE PrintedAll
    <2>1. ~Aborted /\ pc["ui"] = "print" /\ pc'["ui"] = "reset" /\ pc'["net"] = pc["net"] /\ UNCHANGED <<next, mutex>>
        BY <1>0, <1>10 DEF PrintedAll, At, Goto, logVars
    <2> QED
        BY <1>0, <2>1 DEF Control, UIPlace, NetPlace, Logging, Shrinking
<1>11. CASE Drained
    <2>1. ~Aborted /\ pc["ui"] = "reset" /\ pc'["ui"] = "key" /\ pc'["net"] = pc["net"] /\ next' = next
          /\ mutex' = "free"
        BY <1>0, <1>11 DEF Drained, At, Goto
    <2> QED
        BY <1>0, <2>1 DEF Control, UIPlace, NetPlace, Logging, Shrinking
<1>12. CASE PrintLine
    <2>1. ~Aborted /\ UNCHANGED <<pc, next, mutex>>
        BY <1>12 DEF PrintLine, At
    <2> QED
        BY <1>0, <2>1 DEF Control, Logging, Shrinking
<1>13. CASE OtherKey \/ RequestShutdown \/ Join
    BY <1>2, <1>13 DEF OtherKey, RequestShutdown, Join, At, logVars
<1>14. CASE Command \/ Status \/ Quit
    BY <1>1, <1>14 DEF Command, Status, Quit, At, logVars
<1>15. CASE StatusArray \/ Broadcast \/ CastArray
    BY <1>2, <1>15 DEF StatusArray, Broadcast, CastArray, LoadArray, At, logVars
<1>16. CASE StatusMore \/ StatusSlot \/ CastLength \/ CastSlot \/ CastWrite
    <2>1. /\ ~Aborted /\ pc["ui"] \in {"more", "entry", "count", "slot", "write"}
          /\ \/ Abort
             \/ mutex' = mutex /\ \E there \in {"entry", "drain", "about", "cast", "write"} : Goto("ui", there)
        BY <1>16, Zenon
        DEF StatusMore, StatusSlot, LoadSlot, CastLength, BeginCast, CastSlot, CastWrite, At, logVars
    <2> QED
        BY <1>2, <1>7, <2>1
<1>17. CASE StatusSession \/ CastDone
    <2>1. ~Aborted /\ pc["ui"] \in {"about", "cast"}
          /\ (Abort \/ (mutex' = mutex /\ \E there \in {"status", "drain"} : LogThen("ui", 1, there)))
        BY <1>17, Zenon DEF StatusSession, CastDone, At, logVars
    <2> QED
        BY <1>1, <1>7, <2>1
<1>18. CASE NetInit \/ NetMessage
    BY <1>3, <1>18 DEF NetInit, NetMessage, At, logVars
<1>19. CASE Pushed
    BY <1>3, <1>19 DEF Pushed, At, logVars
<1>20. CASE Removed
    <2>1. ~Aborted /\ pc["net"] = "shrink" /\ mutex' = mutex /\ LogThen("net", 1, next["net"])
        BY <1>20 DEF Removed, At, logVars
    <2>2. next["net"] \in {"check", "stop"}
        BY <1>0, <2>1 DEF Control, Shrinking
    <2> QED
        BY <1>3, <2>1, <2>2
<1>21. CASE Check \/ Idle \/ Grow \/ Publish \/ \E s \in Session : NetConnect(s)
    BY <1>4, <1>21 DEF Check, Idle, Grow, Publish, NetConnect, At, logVars
<1>22. CASE Push
    <2>1. ~Aborted /\ pc["net"] = "push" /\ mutex' = mutex /\ (Goto("net", "raise") \/ Goto("net", "fill"))
        BY <1>22, Zenon DEF Push, At, logVars
    <2> QED
        BY <1>4, <2>1
<1>23. ASSUME NEW s, NEW there \in {"check", "stop"}, Remove(s, there), ~Aborted, pc["net"] \in {"service", "stop"}
       PROVE  Control'
    <2>1. pc'["net"] = "shrink" /\ next'["net"] = there /\ pc'["ui"] = pc["ui"] /\ next'["ui"] = next["ui"]
          /\ mutex' = mutex
        BY <1>0, <1>23 DEF Remove, logVars
    <2> QED
        BY <1>0, <1>23, <2>1 DEF Control, UIPlace, NetPlace, Logging, Shrinking
<1>24. CASE Destroy \/ \E s \in Session : NetDisconnect(s)
    <2>1. ~Aborted /\ pc["net"] \in {"service", "stop"}
        BY <1>24 DEF Destroy, NetDisconnect, At
    <2>2. (pc["net"] = "stop" /\ mutex' = mutex /\ Goto("net", "done"))
          \/ \E s, there : there \in {"check", "stop"} /\ Remove(s, there)
        BY <1>24, Zenon DEF Destroy, NetDisconnect, At, logVars
    <2> QED
        BY <1>4, <1>23, <2>1, <2>2
<1>25. CASE UNCHANGED vars
    BY <1>0, <1>25 DEF vars, logVars, Control, Logging, Aborted, Shrinking
<1>26. ASSUME NEW t \in Thread, AppendFails(t) PROVE FALSE
    BY <1>7, <1>26 DEF AppendFails
<1> QED
    BY <1>5, <1>6, <1>8, <1>9, <1>10, <1>11, <1>12, <1>13, <1>14, <1>15, <1>16, <1>17, <1>18, <1>19,
       <1>20, <1>21, <1>22, <1>24, <1>25, <1>26 DEF Next, UI, NetWork, NetEvent

----------------------------------------------------------------------------
(* The log. *)

\* A whole turn more leaves the remainder.
LEMMA TurnMod ==
    ASSUME NEW n \in Nat \ {0}, NEW x \in Nat, x < 3 * n
    PROVE  (x + n) % n = x % n
<1>1. PICK r \in 0..(n - 1) : x = r \/ x = n + r \/ x = 2 * n + r
    <2>1. CASE x < n
        BY <2>1
    <2>2. CASE x >= n /\ x < 2 * n
        <3>1. x - n \in 0..(n - 1) /\ x = n + (x - n)
            BY <2>2
        <3> QED
            BY <3>1
    <2>3. CASE x >= 2 * n
        <3>1. x - 2 * n \in 0..(n - 1) /\ x = 2 * n + (x - 2 * n)
            BY <2>3
        <3> QED
            BY <3>1
    <2> QED
        BY <2>1, <2>2, <2>3
<1>2. x % n = r
    BY <1>1, ModKnown
<1>3. (x + n) % n = r
    <2>1. x + n = n + r \/ x + n = 2 * n + r \/ x + n = 2 * n + (n + r)
        BY <1>1
    <2>2. ASSUME x + n = 2 * n + (n + r) PROVE (x + n) % n = r
        BY <2>2
    <2> QED
        BY <2>1, <2>2, ModKnown
<1> QED
    BY <1>2, <1>3

\* A line is taken from the queue: counted from it, the rest keep their numbers.
LEMMA NextShown ==
    ASSUME NEW n \in Nat \ {0}, NEW a \in 0..(n - 1), NEW k \in Nat, k + 1 < n,
           NEW i \in 0..(n - 1)
    PROVE  (a + n - k + i) % n = (((a + 1) % n) + n - (k + 1) + i) % n
<1>1. PICK b \in 0..(n - 1) : (a + 1 = b \/ a + 1 = n + b) /\ (a + 1) % n = b
    <2>1. a + 1 \in 0..(2 * n - 1)
        OBVIOUS
    <2> QED
        BY <2>1, ModSplit
<1> DEFINE x == b + n - (k + 1) + i
<1>2. x \in Nat /\ x < 3 * n
    OBVIOUS
<1>3. a + n - k + i = x \/ a + n - k + i = x + n
    BY <1>1
<1>4. (x + n) % n = x % n
    BY <1>2, TurnMod
<1> QED
    BY <1>1, <1>3, <1>4

\* LogInv, with the lines' numbers counted from the one shown last.
Counted(sh, pr, q, lst) ==
    /\ \A i \in 1..Len(q) : q[i] = (sh + Wrap - pr + i) % Wrap
    /\ lst = (sh + Wrap - pr + Len(q)) % Wrap

LEMMA LogStep ==
    ASSUME CInv, [Next]_vars, ~Aborted'
    PROVE  LogInv'
<1>0. PlaceType /\ LogType /\ Wrap = QueueMax + 2 /\ QueueMax \in Nat \ {0} /\ Wrap \in Nat \ {0}
      /\ log \in Seq(0..(Wrap - 1)) /\ Len(log) \in Nat
    BY SuccType, ConsoleAssumption DEF CInv, TypeInv, Wrap, ConsoleAssumption, LogType
<1>1. ASSUME ~Aborted
      PROVE  /\ Len(log) <= QueueMax
             /\ pc["ui"] = "print" => at <= Len(log)
             /\ pc["ui"] = "reset" => at = Len(log)
             /\ Counted(shown, Printed, log, logged)
             /\ mutex = "ui" <=> pc["ui"] \in {"append", "print", "reset"}
             /\ mutex = "net" <=> pc["net"] = "append"
    BY <1>0, <1>1 DEF CInv, Control, LogInv, LogIntact, Counted
<1>2. ASSUME Counted(shown', Printed', log', logged'), Len(log') \in Nat, Len(log') <= QueueMax,
             pc'["ui"] = "print" => at' <= Len(log'), pc'["ui"] = "reset" => at' = Len(log'),
             log' \in Seq(0..(Wrap - 1))
      PROVE  LogInv'
    BY <1>2 DEF LogInv, LogIntact, Counted
<1>3. ASSUME ~Aborted, UNCHANGED <<log, logged, shown>>,
             IF pc["ui"] \in {"print", "reset"}
             THEN pc'["ui"] = pc["ui"] /\ at' = at
             ELSE pc'["ui"] \notin {"print", "reset"}
      PROVE  LogInv'
    BY <1>0, <1>1, <1>2, <1>3 DEF Printed
<1>4. ASSUME ~Aborted, UNCHANGED logVars, pc["ui"] \notin {"print", "reset"},
             NEW n, NEW there, LogThen("ui", n, there)
      PROVE  LogInv'
    BY <1>0, <1>3, <1>4 DEF logVars, LogThen, PlaceType, Thread
<1>5. ASSUME ~Aborted, UNCHANGED <<log, logged, shown>>, pc["ui"] \notin {"print", "reset"},
             NEW there, Goto("ui", there), there \notin {"print", "reset"}
      PROVE  LogInv'
    BY <1>0, <1>3, <1>5 DEF Goto, PlaceType, Thread
<1>6. ASSUME ~Aborted, UNCHANGED <<log, logged, shown, at>>, NEW n, NEW there, 
             LogThen("net", n, there) \/ Goto("net", there)
      PROVE  LogInv'
    BY <1>0, <1>3, <1>6 DEF LogThen, Goto, PlaceType, Thread
<1>7. ASSUME Abort PROVE FALSE
    BY <1>7, AbortEnds
<1>8. ASSUME NEW t \in Thread, Lock(t) PROVE LogInv'
    <2>1. ~Aborted /\ UNCHANGED <<log, logged, shown, at>> /\ pc[t] = "lock" /\ Goto(t, "append")
        BY <1>8 DEF Lock, At, walk
    <2> QED
        BY <1>5, <1>6, <2>1 DEF Thread
<1>9. ASSUME NEW t \in Thread, AppendLine(t) PROVE LogInv'
    <2>1. ~Aborted /\ pc[t] = "append" /\ Len(log) < QueueMax /\ UNCHANGED <<shown, at>>
          /\ log' = Append(log, Succ(logged)) /\ logged' = Succ(logged)
        BY <1>9 DEF AppendLine, At, walk
    <2>2. pc["ui"] \notin {"print", "reset"}
        BY <1>0, <1>1, <2>1 DEF Thread
    <2>3. next["ui"] \notin {"print", "reset"}
        BY <1>0 DEF PlaceType, Onward, Thread
    <2>4. pc'["ui"] \notin {"print", "reset"}
        BY <1>0, <1>9, <2>2, <2>3 DEF AppendLine, PlaceType, Thread
    <2>5. logged = (shown + Wrap + Len(log)) % Wrap
          /\ \A i \in 1..Len(log) : log[i] = (shown + Wrap + i) % Wrap
        BY <1>0, <1>1, <2>1, <2>2 DEF Printed, Counted, LogType
    <2>6. shown \in 0..(Wrap - 1) /\ Len(log) \in 0..(Wrap - 1)
        BY <1>0, <2>1 DEF LogType
    <2>7. Succ(logged) = (shown + Wrap + (Len(log) + 1)) % Wrap
        <3>1. Wrap \in Nat \ {0}
            BY <1>0
        <3>2. (((shown + Wrap + Len(log)) % Wrap) + 1) % Wrap = (shown + Wrap + (Len(log) + 1)) % Wrap
            BY <2>6, <3>1, SuccMod
        <3> QED
            BY <2>5, <3>2 DEF Succ
    <2>8. Succ(logged) \in 0..(Wrap - 1)
        BY <1>0, SuccType DEF LogType
    <2>9. Len(log') = Len(log) + 1 /\ log' \in Seq(0..(Wrap - 1)) /\ log'[Len(log) + 1] = Succ(logged)
          /\ \A i \in 1..Len(log) : log'[i] = log[i]
        BY <1>0, <2>1, <2>8
    <2>10. \A i \in 1..Len(log') : log'[i] = (shown + Wrap + i) % Wrap
        <3>1. ASSUME NEW i \in 1..Len(log') PROVE log'[i] = (shown + Wrap + i) % Wrap
            <4>1. CASE i = Len(log) + 1
                BY <2>7, <2>9, <4>1
            <4>2. CASE i # Len(log) + 1
                <5>1. i \in 1..Len(log)
                    BY <1>0, <2>9, <4>2
                <5> QED
                    BY <2>5, <2>9, <5>1
            <4> QED
                BY <4>1, <4>2
        <3> QED
            BY <3>1
    <2>11. Printed' = 0
        BY <2>4 DEF Printed
    <2> QED
        BY <1>0, <1>2, <2>1, <2>4, <2>6, <2>7, <2>9, <2>10, <2>11 DEF Counted
<1>10. CASE CreateThread
    BY <1>3, <1>10 DEF CreateThread, At, logVars, walk
<1>11. CASE Drain
    <2>1. ~Aborted /\ pc["ui"] = "drain" /\ UNCHANGED <<log, logged, shown>> /\ at' = 0 /\ pc'["ui"] = "print"
        BY <1>0, <1>11 DEF Drain, At, Goto, PlaceType, Thread
    <2>2. Printed = 0 /\ Printed' = 0
        BY <2>1 DEF Printed
    <2> QED
        BY <1>0, <1>1, <1>2, <2>1, <2>2
<1>12. CASE PrintLine
    <2>1. ~Aborted /\ pc["ui"] = "print" /\ at < Len(log) /\ shown' = log[at + 1] /\ at' = at + 1
          /\ UNCHANGED <<pc, log, logged>>
        BY <1>12 DEF PrintLine, At
    <2>2. at \in Nat /\ shown \in 0..(Wrap - 1) /\ Printed = at /\ Printed' = at + 1 /\ Len(log) <= QueueMax
        BY <1>0, <1>1, <2>1 DEF Printed, LogType
    <2>3. log[at + 1] = (shown + Wrap - at + (at + 1)) % Wrap
        BY <1>0, <1>1, <2>1, <2>2 DEF Counted
    <2>4. shown + Wrap - at + (at + 1) = (shown + 1) + Wrap
        BY <1>0, <2>2
    <2>5. shown' = (shown + 1) % Wrap
        <3>1. (shown + 1 + Wrap) % Wrap = (shown + 1) % Wrap
            <4>1. shown + 1 \in Nat /\ shown + 1 < 3 * Wrap
                BY <1>0, <2>2
            <4> QED
                BY <1>0, <4>1, TurnMod
        <3> QED
            BY <2>1, <2>3, <2>4, <3>1
    <2>6. \A i \in 0..(Wrap - 1) :
             (shown + Wrap - at + i) % Wrap = (shown' + Wrap - (at + 1) + i) % Wrap
        <3>1. ASSUME NEW i \in 0..(Wrap - 1)
              PROVE  (shown + Wrap - at + i) % Wrap = (shown' + Wrap - (at + 1) + i) % Wrap
            <4>1. at + 1 < Wrap /\ at \in Nat
                BY <1>0, <2>1, <2>2
            <4>2. (shown + Wrap - at + i) % Wrap = (((shown + 1) % Wrap) + Wrap - (at + 1) + i) % Wrap
                <5>1. Wrap \in Nat \ {0} /\ shown \in 0..(Wrap - 1)
                    BY <1>0, <2>2
                <5> QED
                    BY <4>1, <5>1, NextShown, Zenon
            <4> QED
                BY <2>5, <4>2
        <3> QED
            BY <3>1
    <2>7. Counted(shown', Printed', log', logged')
        BY <1>0, <1>1, <2>1, <2>2, <2>6 DEF Counted
    <2> QED
        BY <1>0, <1>1, <1>2, <2>1, <2>2, <2>7
<1>13. CASE PrintedAll
    <2>1. ~Aborted /\ pc["ui"] = "print" /\ pc'["ui"] = "reset" /\ at = Len(log)
          /\ UNCHANGED <<log, logged, shown, at>>
        BY <1>0, <1>13 DEF PrintedAll, At, Goto, logVars, walk, PlaceType, Thread
    <2>2. Printed' = Printed
        BY <2>1 DEF Printed
    <2> QED
        BY <1>0, <1>1, <1>2, <2>1, <2>2
<1>14. CASE Drained
    <2>1. ~Aborted /\ pc["ui"] = "reset" /\ pc'["ui"] = "key" /\ log' = <<>> /\ UNCHANGED <<logged, shown>>
        BY <1>0, <1>14 DEF Drained, At, Goto, PlaceType, Thread
    <2>2. Printed = Len(log) /\ Printed' = 0
        BY <1>1, <2>1 DEF Printed
    <2>3. logged = (shown + Wrap - Len(log) + Len(log)) % Wrap
        BY <1>1, <2>1, <2>2 DEF Counted
    <2>4. shown + Wrap - Len(log) + Len(log) = shown + Wrap - 0 + 0 /\ <<>> \in Seq(0..(Wrap - 1)) /\ Len(<<>>) = 0
        BY <1>0 DEF LogType
    <2>5. Counted(shown, 0, <<>>, logged)
        BY <2>3, <2>4 DEF Counted
    <2> QED
        BY <1>0, <1>2, <2>1, <2>2, <2>4, <2>5
<1>15. CASE OtherKey \/ RequestShutdown \/ Join \/ StatusArray \/ Broadcast \/ CastArray
    BY <1>5, <1>15
    DEF OtherKey, RequestShutdown, Join, StatusArray, Broadcast, CastArray, LoadArray, At, logVars
<1>16. CASE Command \/ Status \/ Quit
    BY <1>4, <1>16 DEF Command, Status, Quit, At
<1>17. CASE StatusMore \/ StatusSlot \/ CastLength \/ CastSlot \/ CastWrite
    <2>1. /\ ~Aborted /\ pc["ui"] \in {"more", "entry", "count", "slot", "write"}
          /\ \/ Abort
             \/ /\ UNCHANGED <<log, logged, shown>>
                /\ \E there \in {"entry", "drain", "about", "cast", "write"} : Goto("ui", there)
        BY <1>17, Zenon
        DEF StatusMore, StatusSlot, LoadSlot, CastLength, BeginCast, CastSlot, CastWrite, At, logVars
    <2> QED
        BY <1>5, <1>7, <2>1
<1>18. CASE StatusSession \/ CastDone
    <2>1. ~Aborted /\ pc["ui"] \in {"about", "cast"}
          /\ (Abort \/ (UNCHANGED logVars /\ \E there : LogThen("ui", 1, there)))
        BY <1>18, Zenon DEF StatusSession, CastDone, At
    <2> QED
        BY <1>4, <1>7, <2>1
<1>19. CASE NetWork \/ NetEvent
    <2>1. CASE Lock("net") \/ AppendLine("net") \/ AppendFails("net")
        BY <1>7, <1>8, <1>9, <2>1 DEF AppendFails, Thread
    <2>2. ASSUME UNCHANGED logVars, ~AppendFails("net") PROVE LogInv'
        <3>1. pc'["ui"] = pc["ui"] /\ at' = at /\ ~Aborted
            BY <1>0, <1>19, <2>2, NetFrame, Alive DEF Next
        <3> QED
            BY <1>0, <1>3, <2>2, <3>1 DEF logVars
    <2>3. CASE NetInit \/ Check \/ Grow \/ Publish \/ Push \/ Pushed \/ Removed \/ Idle \/ NetMessage
               \/ \E s \in Session : NetConnect(s)
        <3>1. UNCHANGED logVars
            BY <2>3, Zenon DEF NetInit, Check, Grow, Publish, Push, Pushed, Removed, Idle, NetMessage, NetConnect
        <3> QED
            BY <2>1, <2>2, <3>1
    <2>4. CASE Destroy \/ \E s \in Session : NetDisconnect(s)
        <3>1. UNCHANGED logVars
            BY <2>4, Zenon DEF Destroy, NetDisconnect, Remove
        <3> QED
            BY <2>1, <2>2, <3>1
    <2> QED
        BY <1>19, <2>1, <2>3, <2>4 DEF NetWork, NetEvent
<1>20. CASE UNCHANGED vars
    BY <1>0, <1>3, <1>20 DEF vars, logVars, walk, Aborted
<1>21. ASSUME NEW t \in Thread, AppendFails(t) PROVE FALSE
    BY <1>7, <1>21 DEF AppendFails
<1> QED
    BY <1>8, <1>9, <1>10, <1>11, <1>12, <1>13, <1>14, <1>15, <1>16, <1>17, <1>18, <1>19, <1>20, <1>21
    DEF Next, UI, Thread

----------------------------------------------------------------------------
(* The theorems. *)

LEMMA CInvInit == Init => CInv
<1> SUFFICES ASSUME Init PROVE CInv
    OBVIOUS
<1>1. PlaceType
    BY DEF Init, PlaceType, Place, UIPlace, NetPlace, Onward, Logging, Thread
<1>2. LogType
    <2>1. <<>> \in Seq(0..(Wrap - 1)) /\ 0 \in 0..(Wrap - 1)
        BY SuccType
    <2> QED
        BY <2>1 DEF Init, LogType
<1>3. RegType /\ Len(slots) = 0
    <2>1. <<>> \in Seq(Entry) /\ Len(<<>>) = 0
        OBVIOUS
    <2>2. slots \in Seq(Entry) /\ len \in 0..Len(slots) /\ Len(slots) = 0
        BY <2>1 DEF Init
    <2> QED
        BY <2>2 DEF Init, RegType, Entry, Address
<1>4. CastType
    BY DEF Init, CastType, Cast, NoCast, Entry, Address
<1>5. Registered
    BY DEF Init, Registered, Listed, Held, Shrinking
<1>6. Control
    BY DEF Init, Control, UIPlace, NetPlace, Logging, Shrinking
<1>7. LogInv
    <2>1. (0 + Wrap - 0 + 0) % Wrap = 0
        BY SuccType, ModKnown
    <2>2. Printed = 0 /\ log = <<>> /\ shown = 0 /\ logged = 0 /\ Len(<<>>) = 0 /\ DOMAIN <<>> = {}
        BY DEF Init, Printed
    <2> QED
        BY <2>1, <2>2, ConsoleAssumption DEF Init, LogInv, LogIntact, ConsoleAssumption
<1>8. RegInv
    BY <1>3, <1>5 DEF Init, RegInv, RegistryLive, Registered, Opening, Filling, Shrinking, Logging
<1>9. WalkInv /\ CastInv
    BY DEF Init, WalkInv, CastInv, Casting
<1> QED
    BY <1>1, <1>2, <1>3, <1>4, <1>6, <1>7, <1>8, <1>9 DEF CInv, TypeInv

LEMMA CInvStep == CInv /\ [Next]_vars => CInv'
<1> SUFFICES ASSUME CInv, [Next]_vars PROVE CInv'
    OBVIOUS
<1>1. PlaceType'
    BY PlaceStep DEF CInv, TypeInv
<1>2. LogType'
    BY LogTypeStep DEF CInv
<1>3. RegType' /\ (~Aborted' => RegInv')
    BY RegStep
<1>4. CastType' /\ (~Aborted' => WalkInv' /\ CastInv')
    BY CastStep
<1>5. ~Aborted' => Control' /\ LogInv'
    BY ControlStep, LogStep
<1> QED
    BY <1>1, <1>2, <1>3, <1>4, <1>5 DEF CInv, TypeInv

LEMMA CInvAlways == Spec => []CInv
BY CInvInit, CInvStep, PTL DEF Spec

\* Every variable of the two threads keeps its type: in particular the length of the
\* registry never goes below zero or above its memory.
THEOREM ConsoleTyped == Spec => []ConsoleTypeOK
<1>1. CInv => ConsoleTypeOK
    <2> SUFFICES ASSUME CInv PROVE ConsoleTypeOK
        OBVIOUS
    <2>1. cast.present \in SUBSET Session /\ cast.left \in BOOLEAN /\ cast.astray \in BOOLEAN
          /\ cast.len \in Nat /\ cast.wrote \in [Session -> Nat]
        BY CastFields DEF CInv, TypeInv, CastType
    <2>2. PlaceType /\ LogType /\ RegType /\ seen \in Address /\ got \in Entry
        BY DEF CInv, TypeInv, CastType
    <2>3. pc \in [Thread -> {"lock", "append", "create", "drain", "print", "reset", "key", "status",
                             "more", "entry", "about", "count", "cast", "slot", "write",
                             "quit", "join", "end", "off", "init", "check", "service",
                             "grow", "publish", "push", "raise", "fill", "shrink",
                             "stop", "done", "aborted"}]
        <3>1. pc \in [Thread -> Place]
            BY <2>2 DEF PlaceType
        <3> QED
            BY <3>1 DEF Place, UIPlace, NetPlace
    <2>4. {opening, closing, got} \subseteq Session \cup {NoSession}
        BY <2>2 DEF RegType, Entry
    <2> QED
        BY <2>1, <2>2, <2>3, <2>4, Zenon
        DEF ConsoleTypeOK, PlaceType, LogType, RegType, Onward, Entry, Address
<1> QED
    BY <1>1, CInvAlways, PTL

\* No line that console_log() took is lost, doubled or overtaken on its way to the screen,
\* whichever thread logs while the other prints.
THEOREM LogSafe == Spec => []LogIntact
<1>1. CInv => LogIntact
    BY DEF CInv, LogInv, LogIntact
<1> QED
    BY <1>1, CInvAlways, PTL

\* gserver.sessions holds every session that is neither connecting nor closing nor freed,
\* once, at every step of a growth, a store and a deletion.
THEOREM RegistrySafe == Spec => []RegistryLive
<1>1. CInv => RegistryLive
    BY DEF CInv, RegInv, RegistryLive
<1> QED
    BY <1>1, CInvAlways, PTL

\* The raw broadcast of the UI thread writes once to everybody who was there when it began,
\* however the network thread grows, moves and fills the array between its looks at it, as
\* long as nobody leaves and no look finds memory that is freed or not yet written.
THEOREM BroadcastReaches == Spec => []BroadcastReachesAll
<1>1. CInv => BroadcastReachesAll
    <2> SUFFICES ASSUME CInv, pc["ui"] = "cast", at = cast.len, ~cast.left, ~cast.astray,
                        NEW s \in Session
                 PROVE  cast.wrote[s] = IF s \in cast.present THEN 1 ELSE 0
        BY DEF BroadcastReachesAll
    <2>1. CastInv /\ Casting
        BY DEF CInv, Aborted, Casting
    <2> QED
        BY <2>1 DEF CastInv
<1> QED
    BY <1>1, CInvAlways, PTL

\* main() destroys the mutex and returns only when the network thread is done: nobody holds
\* the mutex, and every session is freed.
THEOREM JoinedAtEnd == Spec => []EndsLast
<1>1. CInv => EndsLast
    <2> SUFFICES ASSUME CInv, pc["ui"] = "end" PROVE pc["net"] = "done" /\ mutex = "free" /\ live = {}
        BY DEF EndsLast
    <2>1. Control /\ RegInv /\ LogType
        BY DEF CInv, TypeInv, Aborted
    <2> QED
        BY <2>1 DEF Control, RegInv, LogType, Thread
<1> QED
    BY <1>1, CInvAlways, PTL
=============================================================================
