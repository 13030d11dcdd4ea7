---------------------------- MODULE ClientRegistry ----------------------------
(***************************************************************************)
(* What the connection listener promises of the clients: each of them goes *)
(* from connected to dropped once; while the server serves, only a client  *)
(* that has stopped sending requests is dropped; when the server has       *)
(* stopped, every client has been dropped.                                 *)
(***************************************************************************)
EXTENDS Integers

CONSTANT N      \* bound: connections made

Client == 1..N

VARIABLES conn, phase
vars == <<conn, phase>>

Init ==
    /\ conn = [c \in Client |-> "absent"]
    /\ phase = "serving"

\* Clients are numbered in the order they connect, and no number comes twice.
Connect(c) ==
    /\ phase # "stopped"
    /\ conn[c] = "absent"
    /\ \A d \in Client : d < c => conn[d] # "absent"
    /\ conn' = [conn EXCEPT ![c] = "connected"]
    /\ UNCHANGED phase

\* The client has disconnected or made an error: no more requests from it.
Leave(c) ==
    /\ conn[c] = "connected"
    /\ conn' = [conn EXCEPT ![c] = "left"]
    /\ UNCHANGED phase

Drop(c) ==
    /\ conn[c] = "left" \/ (conn[c] = "connected" /\ phase = "stopping")
    /\ conn' = [conn EXCEPT ![c] = "dropped"]
    /\ UNCHANGED phase

Stop ==
    /\ phase = "serving"
    /\ phase' = "stopping"
    /\ UNCHANGED conn

Stopped ==
    /\ phase = "stopping"
    /\ \A c \in Client : conn[c] \in {"absent", "dropped"}
    /\ phase' = "stopped"
    /\ UNCHANGED conn

Next ==
    \/ \E c \in Client : Connect(c) \/ Leave(c) \/ Drop(c)
    \/ Stop \/ Stopped

Spec == Init /\ [][Next]_vars
=============================================================================
