--------------------------- MODULE MCMouseDispatch ---------------------------
(* An instance of MouseDispatch for TLC. *)
EXTENDS MouseDispatch

\* The mouse moves a row at a time, or further than a title bar is high.
RowMoves == {-1, 2}

-----------------------------------------------------------------------------
(* What the code does not keep, though it says so: TLC refutes each of these *)
(* (README.md, "Where the code departs from its comments").                  *)

\* "Make window follow mouse": a window being dragged stays under the cursor
\* at the row where it was pressed.
WindowFollows == Settled /\ grabbed => cursor - winY = hold

\* "Drop window": a window is not draggable after a release.
ReleaseStopsDrag == ipc = "idle" /\ event.type = "release" => ~draggable

\* "Handle cursor updates immediately": a move has reached the cursor by the
\* time dispatch() looks for the widgets under it.
MovedImmediately == ipc = "hit" => MovesIn(queue) = 0 /\ MovesIn(batch) = 0

=============================================================================
