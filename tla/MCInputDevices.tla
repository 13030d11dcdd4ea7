--------------------------- MODULE MCInputDevices ---------------------------
(* An instance of InputDevices for TLC. *)
EXTENDS InputDevices

\* All devices but a keyboard are there at the start.
Absent == CHOOSE d \in Device : d[1] = "keyboard"
StartInit ==
    /\ plugged = CHOOSE w \in Worlds : \A d \in Device : w[d] = None <=> d = Absent
    /\ InputsInit
StartSpec == StartInit /\ [][InputsNext]_inputVars /\ InputsFairness

-----------------------------------------------------------------------------
(* What the code does not keep, though it says so: TLC refutes each of these *)
(* (README.md, "Where the code departs from its comments").                  *)

\* "Add new mice": every device that the last scan found is attached.
FoundIsAttached ==
    dpc = "scan" /\ plugged = known =>
        \A d \in Device : known[d] # None => \E f \in fdDevs : object[f] = <<d, known[d]>>

\* "Map device identifier to file descriptor": whatever is registered has a name.
RegisteredHasName ==
    dpc = "scan" => \A f \in fdDevs : uidFds[NameOf(object[f][1])] = f

\* "All events read", where the loop over the descriptors is left early.
AllEventsRead == ipc = "loop" /\ pos > eventCount => ready \cap pending = {}

=============================================================================
