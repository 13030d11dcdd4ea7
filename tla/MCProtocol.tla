----------------------------- MODULE MCProtocol -----------------------------
(* An instance of Protocol for TLC. *)
EXTENDS Protocol

-----------------------------------------------------------------------------
(* What the code does not keep, though it says so: TLC refutes this          *)
(* (README.md, "Where the code departs from its comments").                  *)

\* What the comments in recv_status() and ae_recv_event() say of a byte in
\* 0x80..0xBF: it is an incoming event.
HeadsAreEvents == pc = "body" /\ upset # "yes" => head.first /\ head.from[1] = "event"

=============================================================================
