--------------------------- MODULE MCDisplayRepaint ---------------------------
(* An instance of DrmCard, and so of DisplayRepaint, for TLC. *)
EXTENDS DrmCard, TLC

Symmetry == Permutations(Window) \cup Permutations(Crtc) \cup Permutations(Connector)

-----------------------------------------------------------------------------
(* What the code does not keep, though it says so: TLC refutes each of these *)
(* (README.md, "Where the code departs from its comments").                  *)

\* "Re-composite all windows then flip framebuffers": when no thread is
\* repainting, the screen shows the windows that are open.
ShowsStack == (\A t \in Thread : pc[t] = "idle") => bufs[shown] = stack

\* "For every connected one, create a DRMConn instance": a connector that has
\* been set up joins those before it, and the server goes on.
EveryOneJoins == [][phase = "planes" => phase' = "next"]_<<vars, card>>

\* "Restore saved CRTC": after the end every CRTC shows what it did before.
CrtcRestored == phase = "closed" => scan = Before

\* "Save existing CRTC and set new one": a connector that cannot be set up
\* leaves every CRTC as it was.
FailureRestores == conn = None /\ phase = "next" => scan = Before

=============================================================================
