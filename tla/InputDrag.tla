----------------------------- MODULE InputDrag -----------------------------
(***************************************************************************)
(* The drag state of the mouse, input.h: what the events of one frame, in  *)
(* engine_poll_events(), make of it. `before` is prev_input_drag, the      *)
(* state that the last frame left; every scene sees only what is left at   *)
(* the end of a frame's events.                                            *)
(***************************************************************************)

DragState == {"none", "begin", "in_progress", "end"}

IsDown(drag) == drag \in {"begin", "in_progress"}

\* What a frame begins with, before its first event.
Rolled(before) ==
    CASE before = "end"   -> "none"
      [] before = "begin" -> "in_progress"
      [] OTHER            -> before

\* A button goes down, or up, whatever was before; the code does not ask which one.
Pressed  == "begin"
Released == "end"

\* The mouse moves, judged by the state now instead of that of the last frame.
MovedNow(before, drag) == IF drag # "none" THEN "in_progress" ELSE drag

\* The mouse moves. In the frame after a press this overrides what the buttons did since.
Moved(before, drag) == IF before = "begin" THEN "in_progress" ELSE drag
=============================================================================
