---------------------------- MODULE MessageFraming ----------------------------
(***************************************************************************)
(* How a game finds the messages in the byte stream from the server:       *)
(* engine_gameserver_receive() in engine.c and str_match_bracket() in      *)
(* util/util.c.                                                            *)
(*                                                                         *)
(* The server writes JSON objects one after another, nothing between them. *)
(* The game reads as many bytes as have come, up to the size of a static   *)
(* buffer, and looks for the bracket that ends the object at `begin`. The  *)
(* search is given the length of the data and not what is left of it, so   *)
(* it may run on into the bytes of earlier reads and past the buffer.      *)
(*                                                                         *)
(* A character is "{", "}" or one of Other; a message is the string of its *)
(* characters. No message has a bracket within a JSON string.              *)
(***************************************************************************)
EXTENDS Naturals, Sequences, FiniteSets, SequencesExt

CONSTANTS Messages,     \* the objects that the server packs
          Raw,          \* the texts that the operator sends without packing them
          Other,        \* the characters that are no bracket
          Size,         \* bytes a recv() may return (511 in the code)
          MaxSent       \* bound on the number of messages

Zero == "0"
Char == {"{", "}", Zero} \cup Other

ASSUME FramingAssumption == /\ Messages \cup Raw \subseteq Seq(Char \ {Zero})
                            /\ Size \in Nat \ {0}
                            /\ MaxSent \in Nat

\* Every bracket opened among the first k characters of a text is closed there.
Balanced(text, k) ==
    Cardinality({i \in 1..k : text[i] = "{"}) = Cardinality({i \in 1..k : text[i] = "}"})

\* What cJSON prints of an object ends with the bracket that closes its first one. What
\* the operator types is longer than nothing (server_main.c:228), and not taken for objects.
ASSUME ObjectAssumption ==
    /\ \A m \in Messages : /\ m # <<>> /\ m[1] = "{"
                           /\ \A k \in 1..Len(m) : Balanced(m, k) <=> k = Len(m)
    /\ \A m \in Raw : m # <<>> /\ m[1] # "{"

VARIABLES pc,       \* "poll": between frames; "loop": in the loop; "aborted"
          sent,     \* what the server wrote, message by message
          pos,      \* how many bytes of it the game has read
          data,     \* static char data[512], whose last byte stays 0
          n,        \* data_len
          begin,    \* the offset of `begin` in data
          heard     \* what was given to propagate_received_message()

vars == <<pc, sent, pos, data, n, begin, heard>>

Bytes == FlattenSeq(sent)

Init == /\ pc = "poll"
        /\ sent = <<>> /\ pos = 0
        /\ data = [i \in 1..(Size + 1) |-> Zero]
        /\ n = 0 /\ begin = 0
        /\ heard = <<>>

Write(m) == /\ pc # "aborted"
            /\ Len(sent) < MaxSent
            /\ sent' = Append(sent, m)
            /\ UNCHANGED <<pc, pos, data, n, begin, heard>>

\* Mutant of Recv: the last byte of the buffer is not held back.
RecvFull(k) == /\ pc = "poll"
               /\ k + 1 <= Len(Bytes) - pos
               /\ data' = [i \in DOMAIN data |-> IF i <= k + 1 THEN Bytes[pos + i] ELSE data[i]]
               /\ pos' = pos + k + 1
               /\ n' = k + 1
               /\ begin' = 0
               /\ pc' = "loop"
               /\ UNCHANGED <<sent, heard>>

\* SDLNet_TCP_Recv() returns k bytes; the rest of the buffer keeps what it had.
Recv(k) == /\ pc = "poll"
           /\ k <= Len(Bytes) - pos
           /\ data' = [i \in DOMAIN data |-> IF i <= k THEN Bytes[pos + i] ELSE data[i]]
           /\ pos' = pos + k
           /\ n' = k
           /\ begin' = 0
           /\ pc' = "loop"
           /\ UNCHANGED <<sent, heard>>

\* Every bracket opened from position `from` to position `to` is closed there.
Closed(from, to) ==
    Cardinality({i \in from..to : data[i] = "{"}) = Cardinality({i \in from..to : data[i] = "}"})

\* str_match_bracket(begin, data_len, '{', '}'): the positions where it could stop,
\* as far as they are in the buffer.
Ends == {e \in (begin + 1)..(begin + n) : e \in DOMAIN data /\ Closed(begin + 1, e)}

Abort == /\ pc' = "aborted"
         /\ UNCHANGED <<sent, pos, data, n, begin, heard>>

\* Mutant of Object: a second object is looked for one character too early.
ObjectShort == /\ pc = "loop"
               /\ begin < n
               /\ data[begin + 1] = "{"
               /\ \E e \in Ends : /\ \A f \in Ends : e <= f
                                 /\ heard' = Append(heard, SubSeq(data, begin + 1, e))
                                 /\ begin' = IF e < n THEN e - 1 ELSE e
               /\ UNCHANGED <<pc, sent, pos, data, n>>

\* One object: give it to the scene and go on behind it.
Object == /\ pc = "loop"
          /\ begin < n
          /\ data[begin + 1] = "{"
          /\ \E e \in Ends : /\ \A f \in Ends : e <= f
                            /\ heard' = Append(heard, SubSeq(data, begin + 1, e))
                            /\ begin' = e
          /\ UNCHANGED <<pc, sent, pos, data, n>>

\* assert(str[0] == open) fails, or assert(depth == 0) does. A search that leaves
\* the buffer reads whatever is there; if that ends the object, `begin` ends up
\* behind the data and the assertion after the loop fails instead.
NoObject == /\ pc = "loop"
            /\ begin < n
            /\ data[begin + 1] # "{" \/ Ends = {}
            /\ Abort

\* Mutant of LoopEnds: nothing is asserted.
LoopEndsAnyway == /\ pc = "loop"
                  /\ begin >= n
                  /\ pc' = "poll"
                  /\ UNCHANGED <<sent, pos, data, n, begin, heard>>

\* assert(begin == data + data_len)
LoopEnds == /\ pc = "loop"
            /\ begin >= n
            /\ IF begin = n
               THEN pc' = "poll" /\ UNCHANGED <<sent, pos, data, n, begin, heard>>
               ELSE Abort

Next == \/ \E m \in Messages \cup Raw : Write(m)
        \/ \E k \in 1..Size : Recv(k)
        \/ Object \/ NoObject \/ LoopEnds

Spec == Init /\ [][Next]_vars

----------------------------------------------------------------------------
(* Properties. *)

FramingTypeOK ==
    /\ pc \in {"poll", "loop", "aborted"}
    /\ sent \in Seq(Messages \cup Raw)
    /\ pos \in 0..Len(Bytes)
    /\ data \in [1..(Size + 1) -> Char] /\ data[Size + 1] = Zero
    /\ n \in 0..Size
    /\ begin \in 0..(Size + 1)

\* Where a message ends in the stream.
Boundary == {Len(FlattenSeq(SubSeq(sent, 1, j))) : j \in 0..Len(sent)}

\* Between frames the scene has been given exactly the messages in the bytes read,
\* whole and in order. So a message that is cut, and completed by the bytes of an
\* older one, never goes unnoticed.
HeardExactly ==
    pc = "poll" => /\ IsPrefix(heard, sent)
                   /\ FlattenSeq(heard) = SubSeq(Bytes, 1, pos)

\* A recv() that ends with a message, of the server's own packing, is survived,
\* however many messages it holds.
WholeReadsSurvive ==
    pc = "aborted" => \/ pos \notin Boundary
                      \/ \E j \in DOMAIN sent : sent[j] \in Raw
=============================================================================
