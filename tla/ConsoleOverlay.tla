--------------------------- MODULE ConsoleOverlay ---------------------------
(***************************************************************************)
(* The list of messages over the current scene, gui/console.c: operators   *)
(* from one list to the next, for the engine that owns the list to compose *)
(* with what else it does.                                                 *)
(*                                                                         *)
(* Time is counted in ticks. A message carries its age, the time since     *)
(* created_at, which makes the state of the list independent of the clock; *)
(* an age beyond the message's whole time is as good as that time.         *)
(***************************************************************************)
EXTENDS Integers, SequencesExt

CONSTANTS MaxMessages,      \* messages_max (16 in the code)
          InTime, OutTime,  \* how long a message moves in and out (1.0 s and 0.4 s in the code)
          Short, Normal, Long, \* how long it is visible (up to 1, 2 and 4 s in the code,
          Longest              \* and 8 s)

ASSUME ConsoleAssumption ==
    /\ MaxMessages \in Nat \ {0}
    /\ {InTime, OutTime, Short, Normal, Long, Longest} \subseteq Nat \ {0}
    /\ Short <= Normal /\ Normal <= Long /\ Long <= Longest

MessageState == {"in", "visible", "out"}
Rank == [in |-> 1, visible |-> 2, out |-> 3]

Message == UNION {[shown : {d}, age : 0 .. InTime + d + OutTime, state : MessageState] :
                    d \in {Short, Normal, Long, Longest}}

Sooner(a, b) == IF a <= b THEN a ELSE b

\* The age at which a message leaves the state it is in.
DueAt(msg) ==
    CASE msg.state = "in"      -> InTime
      [] msg.state = "visible" -> InTime + msg.shown
      [] msg.state = "out"     -> InTime + msg.shown + OutTime

Due(msg) == msg.age >= DueAt(msg)

Stepped(msg) ==
    IF ~Due(msg) THEN msg
    ELSE [msg EXCEPT !.state = IF @ = "in" THEN "visible" ELSE "out"]

Gone(msg) == msg.state = "out" /\ Due(msg)

\* console_remove_message() for those that were through with moving out: the list as it
\* grows while console_update() goes over the first 0, 1, ... messages.
Remaining(console) ==
    LET kept[i \in 0 .. Len(console)] ==
          IF i = 0 THEN <<>>
          ELSE IF Gone(console[i]) THEN kept[i - 1] ELSE Append(kept[i - 1], console[i])
    IN  kept[Len(console)]

\* console_update() without the step back of the index after a removal: the message
\* that moves into the free place is left out.
UpdatedSkipping(console) ==
    LET remaining == Remaining(console)
    IN  [i \in DOMAIN remaining |->
           IF i = 1 /\ Gone(Head(console)) THEN remaining[i] ELSE Stepped(remaining[i])]

\* console_update(): each message takes one step, and those that were through with moving
\* out before are removed.
Updated(console) ==
    LET remaining == Remaining(console)
    IN  [i \in DOMAIN remaining |-> Stepped(remaining[i])]

\* engine->time_elapsed goes on.
Elapsed(console, ticks) ==
    [i \in DOMAIN console |->
       [console[i] EXCEPT !.age = Sooner(@ + ticks, InTime + console[i].shown + OutTime)]]

\* console_add_message() without the loop that makes room.
LoggedAnyway(console, duration) ==
    Append(console, [shown |-> duration, age |-> 0, state |-> "in"])

\* console_remove_message(): the later messages move down. (In a full list of the code the
\* last move reads the memory behind the array, into a slot that is not used any more.)
Removed(console, i) == RemoveAt(console, i)

\* console_log() and console_log_ex(): the oldest message makes room for the new one.
Logged(console, duration) ==
    Append(IF Len(console) >= MaxMessages THEN Removed(console, 1) ELSE console,
           [shown |-> duration, age |-> 0, state |-> "in"])

ConsoleTypeOK(console) ==
    /\ console \in Seq(Message)
    /\ Len(console) <= MaxMessages

\* A message that was logged before another and is not shown for longer is never behind it
\* on its way in, over the screen and out, whatever the lengths of the frames and whichever
\* other messages come and go between the two (console_update() removes while it iterates).
OlderIsAheadIn(console) ==
    \A i, j \in DOMAIN console :
       i < j /\ console[i].shown <= console[j].shown =>
          Rank[console[i].state] >= Rank[console[j].state]
=============================================================================
