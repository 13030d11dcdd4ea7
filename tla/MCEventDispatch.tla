---------------------------- MODULE MCEventDispatch ----------------------------
(* An instance of EventDispatch for TLC. *)
EXTENDS EventDispatch

\* A click on a window takes a leaf out of where it is.
ClickRemoves ==
    {[of |-> w, type |-> "click", do |-> [op |-> "rm_now", child |-> n]] :
        w \in Window, n \in Leaf}

-----------------------------------------------------------------------------
(* What the code does not keep, though it has a function for it: TLC refutes *)
(* each of these (README.md, "Pointers that outlive what they point to").    *)

\* rm_from_under_mouse(): a destroyed widget is not remembered as under the mouse.
UnderExists == todo = <<>> => under \in Alive \cup {None}

\* drop(): when a window goes, so does the grab on it.
GrabbedExists == grabbed \in widgets \cup {None}

\* push_event() is called on a client that exists.
NotifiedExists == client = "gone" => \A i \in DOMAIN calls : calls[i].do.op # "notify"

\* "Get widget ... or null if it ... does not exist": what a handler was given is
\* still there when it is called.
ActsOnWhatExists ==
    \A i \in DOMAIN calls : calls[i].do.op = "rm_now" => calls[i].do.child \in widgets

=============================================================================
