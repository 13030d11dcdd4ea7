-------------------------- MODULE MCServerLifecycle --------------------------
(* An instance of ServerLifecycle for TLC. *)
EXTENDS ServerLifecycle

-----------------------------------------------------------------------------
(* What TLC refutes: README.md, "What stops the server from ending". *)

\* However it comes, and whatever it meets, an interrupt ends the server.
InterruptEnds == interrupts > 0 ~> main = "end"

\* A server that cannot be made says so and ends.
FailureEnds == main = "unwind" ~> main = "end"

\* Whatever peers and devices do, the threads come back to be joined.
EndsAnyway == halt \/ main = "unwind" ~> main = "end" \/ Stuck \/ Held

\* UsesWhatIsThere without its exceptions.
NothingGoneIsUsed ==
    \A t \in Thread : \A m \in Using(t) : life[m] \in {"up", "dying"}

=============================================================================
