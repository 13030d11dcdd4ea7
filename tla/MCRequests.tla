------------------------------ MODULE MCRequests ------------------------------
(* An instance of Requests for TLC. *)
EXTENDS Requests

CONSTANT Lengths    \* of strings and of the pixels of a picture

\* Each argument alone, some together, and all of them.
MCArgs == {{}, 0..1, 0..4, 0..7} \cup {{b} : b \in 0..7}

MCGrids == [even : {TRUE}, cols : {-1, 1}, rows : {1}]
           \cup [even : {FALSE}, cols : 0..Octets, rows : 0..Octets]
NoGrid == [even |-> TRUE, cols |-> 1, rows |-> 1]

Made(ops, args, lengths, grids) == [op : ops, args : args, len : lengths, grid : grids]

Asked(op, ids, lengths) == [op : {op}, ids : ids, len : lengths, type : {None}, action : {None}]

Handled(type, action, ids, lengths) ==
    [op : {"add_event_handler"}, type : {type}, action : {action}, len : lengths,
     ids : {<<i[1], i[2], w>> : i \in ids, w \in Id}]

\* The ids and lengths that matter.
Ids(op) == IF op \in {"add_widget", "draw_shape"} THEN Id \X Id ELSE Id \X {1}
Lens(op) == IF op \in {"set_str", "set_picture_data"} THEN Lengths ELSE {1}

MCRequests ==
    UNION {Made({"make_window", "make_button", "make_label"}, MCArgs, Lengths, {NoGrid}),
           Made({"make_panel"}, MCArgs, {1}, {NoGrid}),
           Made({"make_panel"}, {{0}, 0..4}, {1}, MCGrids),
           Made({"make_picture"}, {{}, {0}}, Lengths, {NoGrid}),
           Made({"make_rectangle", "make_ellipse"}, {{}, {0}}, {1}, {NoGrid}),
           Made({"make_text"}, {{}}, Lengths, {NoGrid}),
           Made({"make_canvas", "make_line"}, {{}}, {1}, {NoGrid}),
           UNION {Asked(op, Ids(op), Lens(op)) : op \in {"destroy_widget", "destroy_shape"} \cup Updates},
           UNION {Handled(AeEventType[i], "notify_client", {<<1, 1>>}, {1}) : i \in 1..Len(AeEventType)},
           UNION {Handled("action", AeEventActionType[i], Ids(AeEventActionType[i]), Lens(AeEventActionType[i])) :
                  i \in 2..Len(AeEventActionType)}}

\* Once answers are misread, arguments do not matter, only what is asked, of
\* which ids.
MCLate ==
    UNION {Made({"make_window", "make_canvas", "make_line"}, {{}}, {1}, {NoGrid}),
           UNION {Asked(op, Id \X {1}, {1}) : op \in {"destroy_widget", "destroy_shape", "open_window"}},
           Asked("add_widget", Id \X Id, {1})}

-----------------------------------------------------------------------------
(* What the code does not keep, though it says so: TLC refutes each of these *)
(* (README.md, "Where the code departs from its comments").                  *)

\* "Get widget of type T with given id, or null if it is the wrong type or does
\* not exist": with add_handler() looking for Shape, a handler that draws a
\* shape can be had when canvas, shape and widget are there.
DrawHandlerWorks ==
    /\ pc = "answered" /\ call.op = "add_event_handler" /\ call.action = "draw_shape"
    /\ widgets[call.ids[1]] = "canvas" /\ shapes[call.ids[2]] = "shape"
    /\ widgets[call.ids[3]] # None
    => status = 0

\* That an AeStatusId is the answer to the call it is returned by, "ntohl(id)" the
\* id that send_status_id() put there, after a refused call as well.
AlwaysKnown ==
    pc = "idle" => \A i \in Id : widgets[i] = IF myWidgets[i] = "gone" THEN None ELSE myWidgets[i]

\* "Only thrown on reaching EOF, caused by orderly shutdown" of the client.
DroppedAtEof == pc # "dropped"

\* "Mouse move & scroll": the server turns dx and dy into the order of the
\* network, the library does not turn them back.
MoveIsRead == \A type \in MoveEvents : EventRead(type) = EventSent(type)

=============================================================================
