------------------------------- MODULE Requests -------------------------------
(***************************************************************************)
(* The requests of one client.  libaerend.c writes a code and arguments,   *)
(* Client::run_in reads the code and calls the handler of that number,     *)
(* which reads the arguments it expects, makes or looks up objects, hands  *)
(* an update to the display or a handler to a widget, and answers.         *)
(* Nothing on the wire says where a request ends: both sides have to list  *)
(* the same pieces.  Nor does anything say where an answer ends, and a     *)
(* refused make_* is answered with an id the library does not read.  What  *)
(* becomes of an update is WidgetTree's subject, of events Protocol's.     *)
(***************************************************************************)
EXTENDS Integers, Sequences, SequencesExt

CONSTANTS
    Requests,   \* what the program asks
    Octets,     \* how many values a uint8_t has: 256 in the code
    MaxId,      \* bound on the ids given
    IdLen,      \* bytes of an id: 4 in the code
    MaxBehind,  \* bound on the bytes left behind when a call is made
    Late,       \* bound on what is asked once some are
    None

Kind == {"window", "panel", "button", "label", "canvas", "picture"}
Container == {"window", "panel"}
Id == 1..MaxId
Plain == 0..127     \* bytes that are not the head of an event

-----------------------------------------------------------------------------
(* Numbers: each list in the order of the code *)

\* The library: ae_action_type_t, ae_event_type_t, ae_event_action_type.
AeActionType == <<
    "make_window", "make_panel", "make_button", "make_label", "make_canvas", "make_picture",
    "make_rectangle", "make_ellipse", "make_line", "make_text",
    "destroy_widget", "destroy_shape",
    "add_widget", "rm_widget", "rm_child", "draw_shape", "fill_canvas", "set_picture_data",
    "open_window", "close_window", "set_str">>
AeEventType == <<
    "halt", "key_press", "key_release", "key_type", "mouse_press", "mouse_release",
    "mouse_click", "mouse_move", "mouse_scroll", "action", "mouse_enter", "mouse_exit">>
AeEventActionType == <<
    "notify_client", "add_widget", "rm_widget", "rm_child", "draw_shape", "fill_canvas",
    "set_picture_data", "open_window", "close_window", "set_str">>

\* The server: the array `handlers', where the name of an event stands for
\* add_handler() with that event, and EventHandlerAction.
Handlers == <<
    "make_window", "make_panel", "make_button", "make_label", "make_canvas", "make_picture",
    "make_rectangle", "make_ellipse", "make_line", "make_text",
    "destroy_widget", "destroy_shape",
    "add_widget", "rm_widget", "rm_child", "draw_shape", "fill_canvas", "set_picture_data",
    "open_window", "close_window", "set_str",
    "key_press", "key_release", "key_type", "mouse_press", "mouse_release",
    "mouse_click", "mouse_move", "mouse_scroll", "action", "mouse_enter", "mouse_exit">>
EventHandlerAction == <<
    "notify_client", "add_widget", "rm_widget", "rm_child", "draw_shape", "fill_canvas",
    "set_picture_data", "open_window", "close_window", "set_str">>

Makes == {"make_window", "make_panel", "make_button", "make_label", "make_canvas",
          "make_picture", "make_rectangle", "make_ellipse", "make_line", "make_text"}

NumberOf(list, name) == SelectInSeq(list, LAMBDA n : n = name) - 1

\* code_from_event_type, or the action itself.
Code(r) == IF r.op = "add_event_handler" THEN NumberOf(AeEventType, r.type) + 20
           ELSE NumberOf(AeActionType, r.op)

\* What the server takes the request for.
Handler(r) == Handlers[Code(r) + 1]
HandlerAction(r) == EventHandlerAction[NumberOf(AeEventActionType, r.action) + 1]

-----------------------------------------------------------------------------
(* The pieces of a request: a name for what it is, and its bytes *)

Octet(name) == <<<<name, 1>>>>
Short(name) == <<<<name, 2>>>>
Word(name) == <<<<name, 4>>>>
Data(name, len) == <<<<name, len>>>>

Str(name, len) == Short("length") \o Data(name, len)
Border == Word("border colour") \o Short("border")
When(set, bit, pieces) == IF bit \in set THEN pieces ELSE <<>>
Cells(name, n) == [i \in 1..n |-> <<name, 1>>]

(* What the library writes *)

SentLayout(g) ==
    Octet("layout")
    \o IF g.even THEN Short("cols") \o Short("rows")
       ELSE Short("cols") \o Cells("col", g.cols) \o Short("rows") \o Cells("row", g.rows)

SentText(f, len) ==
    When(f, 0, Str("str", len)) \o When(f, 1, Str("font", len) \o Short("font size"))
    \o When(f, 2, Word("colour")) \o When(f, 3, Word("background")) \o When(f, 4, Border)
    \o When(f, 5, Short("margin")) \o When(f, 6, Short("padding")) \o When(f, 7, Short("wrap"))

SentMake(r) ==
    CASE r.op = "make_window" ->
           Octet("args") \o When(r.args, 0, Short("x")) \o When(r.args, 1, Short("y"))
           \o When(r.args, 2, Short("w")) \o When(r.args, 3, Short("h"))
           \o When(r.args, 4, Str("title", r.len))
      [] r.op = "make_panel" ->
           Octet("args") \o When(r.args, 0, SentLayout(r.grid)) \o When(r.args, 1, Word("background"))
           \o When(r.args, 2, Border) \o When(r.args, 3, Short("margin"))
           \o When(r.args, 4, Short("padding"))
      [] r.op \in {"make_button", "make_label"} -> Octet("args") \o SentText(r.args, r.len)
      [] r.op = "make_canvas" -> Short("w") \o Short("h")
      [] r.op = "make_picture" ->
           Octet("args") \o Short("w") \o Short("h") \o When(r.args, 0, Data("pix", r.len))
      [] r.op \in {"make_rectangle", "make_ellipse"} ->
           Octet("args") \o Short("x") \o Short("y") \o Short("w") \o Short("h")
           \o Word("colour") \o When(r.args, 0, Border)
      [] r.op = "make_line" -> Short("x0") \o Short("y0") \o Short("x1") \o Short("y1") \o Word("colour")
      [] r.op = "make_text" ->
           Str("str", r.len) \o Str("font", r.len) \o Short("font size") \o Word("colour")
           \o Word("x") \o Word("y") \o Short("wrap")

SentOp(op, len) ==
    CASE op \in {"destroy_widget", "destroy_shape", "rm_widget", "open_window", "close_window"} ->
           Word("id")
      [] op = "add_widget" -> Word("parent") \o Word("child")
      [] op = "rm_child" -> Word("parent") \o Word("index")
      [] op = "draw_shape" -> Word("canvas") \o Word("shape")
      [] op = "fill_canvas" -> Word("canvas") \o Word("colour")
      [] op = "set_picture_data" -> Word("id") \o Word("size") \o Data("pix", len)
      [] op = "set_str" -> Word("id") \o Str("str", len)

SentHandler(action, len) ==
    Word("id") \o Octet("action") \o IF action = "notify_client" THEN <<>> ELSE SentOp(action, len)

Sent(r) == CASE r.op \in Makes -> SentMake(r)
             [] r.op = "add_event_handler" -> SentHandler(r.action, r.len)
             [] OTHER -> SentOp(r.op, r.len)

(* What the server reads *)

\* A counter of one octet comes round before it gets to a count of Octets or
\* more, and the loop goes on past what was sent.
CellsRead(name, n) == Cells(name, IF n < Octets THEN n ELSE n + 1)

\* Mutant of LayoutRead: both counts come first.
LayoutReadCounts(g) ==
    Octet("layout") \o Short("cols") \o Short("rows")
    \o IF g.even THEN <<>> ELSE CellsRead("col", g.cols) \o CellsRead("row", g.rows)

\* Client::recv<std::unique_ptr<LayoutManager>>
LayoutRead(g) ==
    Octet("layout")
    \o IF g.even THEN Short("cols") \o Short("rows")
       ELSE Short("cols") \o CellsRead("col", g.cols) \o Short("rows") \o CellsRead("row", g.rows)

\* make_button and make_label
TextRead(f, len) ==
    When(f, 0, Str("str", len)) \o When(f, 1, Str("font", len)) \o When(f, 1, Short("font size"))
    \o When(f, 2, Word("colour")) \o When(f, 3, Word("background")) \o When(f, 4, Border)
    \o When(f, 5, Short("margin")) \o When(f, 6, Short("padding")) \o When(f, 7, Short("wrap"))

MakeRead(h, r) ==
    CASE h = "make_window" ->
           Octet("args") \o When(r.args, 0, Short("x") \o Short("y"))
           \o When(r.args, 1, Short("w") \o Short("h")) \o When(r.args, 2, Str("title", r.len))
      [] h = "make_panel" ->
           Octet("args") \o When(r.args, 0, LayoutRead(r.grid)) \o When(r.args, 1, Word("background"))
           \o When(r.args, 2, Border) \o When(r.args, 3, Short("margin"))
           \o When(r.args, 4, Short("padding"))
      [] h \in {"make_button", "make_label"} -> Octet("args") \o TextRead(r.args, r.len)
      [] h = "make_canvas" -> Short("w") \o Short("h")
      [] h = "make_picture" ->
           Octet("args") \o Short("w") \o Short("h") \o When(r.args, 0, Data("pix", r.len))
      [] h \in {"make_rectangle", "make_ellipse"} ->
           Octet("args") \o Short("x") \o Short("y") \o Short("w") \o Short("h")
           \o Word("colour") \o When(r.args, 0, Border)
      [] h = "make_line" -> Short("x0") \o Short("y0") \o Short("x1") \o Short("y1") \o Word("colour")
      [] h = "make_text" ->
           Str("str", r.len) \o Str("font", r.len) \o Short("font size") \o Word("colour")
           \o Word("x") \o Word("y") \o Short("wrap")

OpRead(h, len) ==
    CASE h \in {"destroy_widget", "destroy_shape", "rm_widget", "open_window", "close_window"} ->
           Word("id")
      [] h = "add_widget" -> Word("parent") \o Word("child")
      [] h = "rm_child" -> Word("parent") \o Word("index")
      [] h = "draw_shape" -> Word("canvas") \o Word("shape")
      [] h = "fill_canvas" -> Word("canvas") \o Word("colour")
      [] h = "set_picture_data" -> Word("id") \o Word("size") \o Data("pix", len)
      [] h = "set_str" -> Word("id") \o Str("str", len)

HandlerRead(action, len) ==
    Word("id") \o Octet("action") \o IF action = "notify_client" THEN <<>> ELSE OpRead(action, len)

\* As far as what it has read is what was meant: beyond that, anything.
Read(r) ==
    LET h == Handler(r)
    IN IF h \in Makes THEN MakeRead(h, r)
       ELSE IF NumberOf(AeActionType, h) >= 0 THEN OpRead(h, r.len)
       ELSE HandlerRead(HandlerAction(r), r.len)

\* read() of no bytes returns 0, which recv_into() takes for the end of the
\* stream, if it comes to it.
ReadsNothing(r) ==
    \E i \in 1..Len(Read(r)) :
        /\ Read(r)[i][2] = 0
        /\ IsPrefix(SubSeq(Read(r), 1, i), Sent(r))

InStep(r) == Read(r) = Sent(r)

(* Events, which come back between the answers *)

\* The server: EventType, and the bytes of each event's get_buf().
ServerEventType == <<
    "halt", "key_press", "key_release", "key_type", "mouse_press", "mouse_release",
    "mouse_click", "mouse_move", "mouse_scroll", "action", "mouse_enter", "mouse_exit">>
KeyEvents == {"key_press", "key_release", "key_type"}
ButtonEvents == {"mouse_press", "mouse_release", "mouse_click"}
MoveEvents == {"mouse_move", "mouse_scroll"}

EventHead == Octet("head") \o Word("wid")
KeyBytes == Octet("keys") \o Octet("c")
ButtonBytes == Octet("buttons")
MoveBytes == Octet("buttons") \o Short("dx") \o Short("dy")

EventSent(type) ==
    EventHead \o CASE type \in KeyEvents -> KeyBytes
                   [] type \in ButtonEvents -> ButtonBytes
                   [] type \in MoveEvents -> MoveBytes
                   [] OTHER -> <<>>

\* The library: how many bytes process_event() takes, and what it finds where.
\* It leaves the bytes of a short as they came.
EventLens == <<0, 7, 7, 7, 6, 6, 6, 10, 10, 5, 5, 5>>

EventRead(type) ==
    Octet("head") \o Word("wid")
    \o CASE type \in KeyEvents -> Octet("keys") \o Octet("c")
         [] type \in ButtonEvents -> Octet("buttons")
         [] type \in MoveEvents ->
              Octet("buttons") \o Short("dx, not swapped") \o Short("dy, not swapped")
         [] OTHER -> <<>>

Bytes(pieces) ==
    LET sum[n \in 0..Len(pieces)] == IF n = 0 THEN 0 ELSE sum[n-1] + pieces[n][2]
    IN sum[Len(pieces)]

EventInStep(type) ==
    LET at == NumberOf(ServerEventType, type) + 1
    IN /\ AeEventType[at] = type /\ EventLens[at] = Bytes(EventSent(type))
       /\ \A n \in 1..Len(EventRead(type)) :
             EventRead(type)[n][2] = EventSent(type)[n][2]

-----------------------------------------------------------------------------

VARIABLES
    pc,         \* "idle"; "sent"; "read", by a handler; "answered"; or the end:
                \* "lost", out of step; "dropped", by the server; "down", the server
    call,       \* the request under way
    handler,    \* the handler that has read its arguments
    status,     \* of the answer
    newId,      \* the id in the answer
    effect,     \* what the request has brought about outside Client
    widgets,    \* Client.widgets: what kind each id names
    shapes,     \* Client.shapes: of any kind, no request asks for one
    nextWid, nextSid,
    myWidgets,  \* what the program has been told, "gone" when it was destroyed
    myShapes,
    unread      \* of earlier answers, what the library has not read
serverVars == <<widgets, shapes, nextWid, nextSid>>
answerVars == <<status, newId, effect>>
programVars == <<myWidgets, myShapes, unread>>
vars == <<pc, call, handler, answerVars, serverVars, programVars>>

Init ==
    /\ pc = "idle" /\ call = None /\ handler = None
    /\ status = 0 /\ newId = None /\ effect = None
    /\ widgets = [i \in Id |-> None] /\ shapes = [i \in Id |-> None]
    /\ nextWid = 1 /\ nextSid = 1
    /\ myWidgets = [i \in Id |-> None] /\ myShapes = [i \in Id |-> None]
    /\ unread = <<>>

(* The program *)

KindOf == [make_window |-> "window", make_panel |-> "panel", make_button |-> "button",
           make_label |-> "label", make_canvas |-> "canvas", make_picture |-> "picture",
           make_rectangle |-> "shape", make_ellipse |-> "shape",
           make_line |-> "shape", make_text |-> "shape"]

Ask(r) ==
    /\ pc = "idle" /\ Len(unread) <= MaxBehind /\ (unread # <<>> => r \in Late)
    /\ r.op \in Makes => nextWid <= MaxId /\ nextSid <= MaxId
    /\ pc' = "sent" /\ call' = r
    /\ UNCHANGED <<handler, answerVars, serverVars, programVars>>

\* send_status and send_status_id, which puts an id of 0 after a refusal.
IdBytes(id) == [i \in 1..IdLen |-> IF i = IdLen THEN id ELSE 0]
AnswerBytes ==
    IF handler \in Makes THEN <<status>> \o IdBytes(IF newId = None THEN 0 ELSE newId.id)
    ELSE <<status>>

\* What the library has before it: it takes the first byte for the status.
Arrived == unread \o AnswerBytes
Told == Arrived[1]

\* Mutant of ReadsId: an id is looked for after every status of 0.
ReadsIdAlways == Told = 0 /\ Len(Arrived) > IdLen

\* recv_status_id: an id only after a status of 0; recv_status: none.
ReadsId == call.op \in Makes /\ Told = 0

\* A number of which a leading byte is not 0 is beyond any id.
ToldId == IF \A i \in 2..IdLen : Arrived[i] = 0 THEN Arrived[IdLen + 1] ELSE MaxId + 1

Noted(mine, id, kind) == IF id \in Id THEN [mine EXCEPT ![id] = kind] ELSE mine

\* The call returns: the program knows what it has made or destroyed.
Return ==
    /\ pc = "answered" /\ pc' = "idle" /\ call' = None /\ handler' = None
    /\ unread' = SubSeq(Arrived, IF ReadsId THEN IdLen + 2 ELSE 2, Len(Arrived))
    /\ myWidgets' = IF call.op \in Makes
                    THEN IF ReadsId /\ KindOf[call.op] \in Kind
                         THEN Noted(myWidgets, ToldId, KindOf[call.op]) ELSE myWidgets
                    ELSE IF call.op = "destroy_widget" /\ Told = 0
                         THEN Noted(myWidgets, call.ids[1], "gone") ELSE myWidgets
    /\ myShapes' = IF call.op \in Makes
                   THEN IF ReadsId /\ KindOf[call.op] = "shape"
                        THEN Noted(myShapes, ToldId, "shape") ELSE myShapes
                   ELSE IF call.op = "destroy_shape" /\ Told = 0
                        THEN Noted(myShapes, call.ids[1], "gone") ELSE myShapes
    /\ status' = 0 /\ newId' = None /\ effect' = None
    /\ UNCHANGED serverVars

(* The server *)

\* It waits for what will not come, or leaves what it takes for the next code.
Misread ==
    /\ pc = "sent" /\ ~ReadsNothing(call) /\ ~InStep(call)
    /\ pc' = "lost"
    /\ UNCHANGED <<call, handler, answerVars, serverVars, programVars>>

\* "EOF reached": a status that was never set goes out, and the client goes.
DropClient ==
    /\ pc = "sent" /\ ReadsNothing(call)
    /\ pc' = "dropped"
    /\ UNCHANGED <<call, handler, answerVars, serverVars, programVars>>

Understand ==
    /\ pc = "sent" /\ ~ReadsNothing(call) /\ InStep(call)
    /\ pc' = "read" /\ handler' = Handler(call)
    /\ UNCHANGED <<call, answerVars, serverVars, programVars>>

Runs(h) == pc = "read" /\ handler = h

Answer(s, id, what) == /\ pc' = "answered" /\ status' = s /\ newId' = id /\ effect' = what
                       /\ UNCHANGED <<call, handler, programVars>>

MakesWidget == {h \in Makes : KindOf[h] \in Kind}
MakesShape == {h \in Makes : KindOf[h] = "shape"}

\* Ids are taken by what is begun: by the parts of a window, and by the shapes
\* a widget is drawn with.  How many is left open.
TakeWid(kind) == nextWid' \in IF kind = "window" THEN nextWid+1..MaxId+1 ELSE {nextWid + 1}
TakeSids == nextSid' \in nextSid..MaxId+1

\* std::vector(-1): a grid of a negative number of columns or rows.
BadGrid(r) == r.op = "make_panel" /\ 0 \in r.args /\ r.grid.even /\ (r.grid.cols < 0 \/ r.grid.rows < 0)

\* Mutant of MakeWidget: an id that is free again is given again.
MakeWidgetReuses(h) ==
    /\ Runs(h) /\ ~BadGrid(call)
    /\ LET id == CHOOSE i \in Id : widgets[i] = None /\ \A j \in 1..i-1 : widgets[j] # None
       IN /\ widgets' = [widgets EXCEPT ![id] = KindOf[h]]
          /\ TakeWid(KindOf[h]) /\ TakeSids
          /\ Answer(0, [kind |-> KindOf[h], id |-> id], None)
    /\ UNCHANGED shapes

MakeWidget(h) ==
    /\ Runs(h) /\ ~BadGrid(call)
    /\ widgets' = [widgets EXCEPT ![nextWid] = KindOf[h]]
    /\ TakeWid(KindOf[h]) /\ TakeSids
    /\ Answer(0, [kind |-> KindOf[h], id |-> nextWid], None)
    /\ UNCHANGED shapes

MakeShape(h) ==
    /\ Runs(h)
    /\ shapes' = [shapes EXCEPT ![nextSid] = KindOf[h]] /\ nextSid' = nextSid + 1
    /\ Answer(0, [kind |-> KindOf[h], id |-> nextSid], None)
    /\ UNCHANGED <<widgets, nextWid>>

\* A negative size, or a font that cannot be read.  The other exceptions that
\* are caught cannot be thrown: sizes of canvases, pictures and shapes have no sign.
MakeRefused(h) ==
    /\ h \in {"make_window", "make_button", "make_label"} /\ Runs(h)
    /\ TakeWid(KindOf[h]) /\ TakeSids
    /\ \E s \in IF h = "make_window" THEN {1} ELSE {1, 2} : Answer(s, None, None)
    /\ UNCHANGED <<widgets, shapes>>

\* An exception that no clause catches: the size of a part of a window, or
\* its font; a text's font or position; a grid.
Uncaught ==
    /\ \/ \E h \in {"make_window", "make_text"} : Runs(h)
       \/ Runs("make_panel") /\ BadGrid(call)
    /\ pc' = "down"
    /\ UNCHANGED <<call, handler, answerVars, serverVars, programVars>>

-----------------------------------------------------------------------------
(* What a request names *)

Widget(at, kinds, s) == [of |-> "widget", at |-> at, kinds |-> kinds, status |-> s]
Shape(at, s) == [of |-> "shape", at |-> at, kinds |-> {"shape"}, status |-> s]

\* In the order in which they are looked for, with the status if there is none.
Needs(h) ==
    CASE h = "destroy_widget" -> <<Widget(1, Kind, 1)>>
      [] h = "destroy_shape" -> <<Shape(1, 1)>>
      [] h = "add_widget" -> <<Widget(1, Container, 1), Widget(2, Kind, 2)>>
      [] h = "rm_widget" -> <<Widget(1, Kind, 2)>>
      [] h = "rm_child" -> <<Widget(1, Container, 1)>>
      [] h = "draw_shape" -> <<Widget(1, {"canvas"}, 1), Shape(2, 2)>>
      [] h = "fill_canvas" -> <<Widget(1, {"canvas"}, 1)>>
      [] h = "set_picture_data" -> <<Widget(1, {"picture"}, 1)>>
      [] h \in {"open_window", "close_window"} -> <<Widget(1, {"window"}, 1)>>
      [] h = "set_str" -> <<Widget(1, {"label", "button"}, 1)>>

\* The same in add_handler(), which looks for a shape among the widgets.
HandlerNeeds(action) ==
    CASE action = "notify_client" -> <<>>
      [] action = "add_widget" -> <<Widget(1, Container, 3), Widget(2, Kind, 4)>>
      [] action = "rm_widget" -> <<Widget(1, Kind, 3)>>
      [] action = "rm_child" -> <<Widget(1, Container, 3)>>
      [] action = "draw_shape" -> <<Widget(1, {"canvas"}, 3), Widget(2, {}, 4)>>
      [] action = "fill_canvas" -> <<Widget(1, {"canvas"}, 3)>>
      [] action = "set_picture_data" -> <<Widget(1, {"picture"}, 3)>>
      [] action \in {"open_window", "close_window"} -> <<Widget(1, {"window"}, 3)>>
      [] action = "set_str" -> <<Widget(1, {"label", "button"}, 3)>>

\* get_widget and get_shape: null for an id that is not there or another kind.
IsThere(need, ids) == IF need.of = "widget" THEN widgets[ids[need.at]] \in need.kinds
                      ELSE shapes[ids[need.at]] \in need.kinds

Refusal(needs, ids) ==
    LET missing == SelectInSeq(needs, LAMBDA n : ~IsThere(n, ids))
    IN IF missing = 0 THEN 0 ELSE needs[missing].status

\* Mutant of Destroy: shapes are looked for in one map and erased from the other.
DestroyOther(h) ==
    /\ Runs(h) /\ h \in {"destroy_widget", "destroy_shape"}
    /\ LET s == Refusal(Needs(h), call.ids) IN
       /\ Answer(s, None, None)
       /\ widgets' = IF s = 0 THEN [widgets EXCEPT ![call.ids[1]] = None] ELSE widgets
    /\ UNCHANGED <<shapes, nextWid, nextSid>>

Destroy(h) ==
    /\ Runs(h) /\ h \in {"destroy_widget", "destroy_shape"}
    /\ LET s == Refusal(Needs(h), call.ids) IN
       /\ Answer(s, None, None)
       /\ widgets' = IF s = 0 /\ h = "destroy_widget" THEN [widgets EXCEPT ![call.ids[1]] = None]
                     ELSE widgets
       /\ shapes' = IF s = 0 /\ h = "destroy_shape" THEN [shapes EXCEPT ![call.ids[1]] = None]
                    ELSE shapes
    /\ UNCHANGED <<nextWid, nextSid>>

Updates == {"add_widget", "rm_widget", "rm_child", "draw_shape", "fill_canvas",
            "set_picture_data", "open_window", "close_window", "set_str"}

Effect(h, type, action, ids) == [op |-> h, type |-> type, action |-> action, ids |-> ids]

\* An update is pushed, unless something it names is missing.
Update(h) ==
    /\ h \in Updates /\ Runs(h)
    /\ LET s == Refusal(Needs(h), call.ids)
       IN Answer(s, None, IF s = 0 THEN Effect(h, None, None, call.ids) ELSE None)
    /\ UNCHANGED serverVars

\* rm_widget, when the child has no parent: that is for the tree to say.
RmOrphan ==
    /\ Runs("rm_widget") /\ Refusal(Needs("rm_widget"), call.ids) = 0
    /\ Answer(1, None, None)
    /\ UNCHANGED serverVars

\* Mutant of AddHandler: the widget is looked for first, and the action taken.
AddHandlerAnyway(h) ==
    /\ Runs(h)
    /\ LET s == Refusal(<<Widget(3, Kind, 1)>>, call.ids)
       IN Answer(s, None, IF s = 0 THEN Effect("add_event_handler", h, HandlerAction(call), call.ids)
                          ELSE None)
    /\ UNCHANGED serverVars

\* add_handler: what the action needs, then the widget.
AddHandler(h) ==
    /\ Runs(h)
    /\ LET s == Refusal(Append(HandlerNeeds(HandlerAction(call)), Widget(3, Kind, 1)), call.ids)
       IN Answer(s, None, IF s = 0 THEN Effect("add_event_handler", h, HandlerAction(call), call.ids)
                          ELSE None)
    /\ UNCHANGED serverVars

EventType == {AeEventType[i] : i \in 2..Len(AeEventType)}

\* What a request carries: the ids it names, the number of bytes of its strings
\* and pixels, the arguments that are there, the grid of a panel.
ASSUME RequestsAssumption ==
    /\ MaxId \in Plain \ {0} /\ Octets \in Nat \ {0}
    /\ IdLen \in Nat \ {0} /\ MaxBehind \in Nat
    /\ None \notin Kind \cup {"shape", "gone", "notify_client"}
    /\ None \notin Requests \cup [kind : Kind \cup {"shape"}, id : Id]
    /\ \A r \in Requests :
          /\ r.op \in Range(AeActionType) \cup {"add_event_handler"} /\ r.len \in Nat
          /\ IF r.op \in Makes THEN r.args \subseteq 0..7 /\ r.grid.cols \in Int /\ r.grid.rows \in Int
             ELSE r.ids[1] \in Id /\ r.ids[2] \in Id
          /\ IF r.op = "add_event_handler"
             THEN r.type \in Range(AeEventType) /\ r.action \in Range(AeEventActionType) /\ r.ids[3] \in Id
             ELSE r.op \notin Makes => r.type = None /\ r.action = None

Serve ==
    \/ Misread \/ DropClient \/ Understand \/ Uncaught
    \/ \E h \in MakesWidget : MakeWidget(h) \/ MakeRefused(h)
    \/ \E h \in MakesShape : MakeShape(h)
    \/ \E h \in {"destroy_widget", "destroy_shape"} : Destroy(h)
    \/ (\E h \in Updates : Update(h)) \/ RmOrphan
    \/ \E h \in EventType : AddHandler(h)

Next == (\E r \in Requests : Ask(r)) \/ Serve \/ Return

Spec == Init /\ [][Next]_vars

-----------------------------------------------------------------------------
(* Properties *)

\* An answer is 0 or one of the statuses the handlers know.
TypeOK ==
    /\ pc \in {"idle", "sent", "read", "answered", "lost", "dropped", "down"}
    /\ call \in Requests \cup {None} /\ (call = None <=> pc = "idle")
    /\ handler # None => pc \in {"read", "answered", "down"}
    /\ status \in 0..4 /\ newId \in {None} \cup [kind : Kind \cup {"shape"}, id : Id]
    /\ widgets \in [Id -> Kind \cup {None}] /\ shapes \in [Id -> {"shape", None}]
    /\ nextWid \in 1..MaxId+1 /\ nextSid \in 1..MaxId+1
    /\ myWidgets \in [Id -> Kind \cup {None, "gone"}]
    /\ myShapes \in [Id -> {"shape", None, "gone"}]
    /\ unread \in Seq(Plain)

\* Library and server list the same pieces for every request, with three
\* exceptions: a window with some of its arguments, of which the two number the
\* bits differently; a grid with as many columns or rows as an octet has
\* values; and a handler for "halt", whose number is that of set_str.  And no
\* client is dropped but for a string or a picture without a byte in it.  Of an
\* event, the library takes as many bytes as the server has sent.
StaysInStep ==
    /\ pc = "lost" =>
        \/ call.op = "make_window" /\ call.args \cap 0..4 \notin {{}, 0..4}
        \/ /\ call.op = "make_panel" /\ 0 \in call.args /\ ~call.grid.even
           /\ call.grid.cols >= Octets \/ call.grid.rows >= Octets
        \/ call.op = "add_event_handler" /\ call.type = "halt"
    /\ pc = "dropped" => call.len = 0
    /\ \A type \in EventType : EventInStep(type)

\* Between calls, what the program has been told it has is what Client has,
\* under the same ids and of the same kinds, as long as the library has read
\* every answer to its end: whatever else was refused meanwhile, and until a
\* make_* is, whose id of 0 it leaves behind (FallsBehind).
KnownObjects ==
    /\ TypeOK
    /\ pc = "idle" /\ unread = <<>> => \A i \in Id :
          /\ widgets[i] = IF myWidgets[i] = "gone" THEN None ELSE myWidgets[i]
          /\ shapes[i] = IF myShapes[i] = "gone" THEN None ELSE myShapes[i]

\* Nothing but a refused make_* leaves a part of its answer behind, and from
\* then on every call is told something else than what it was answered: whatever
\* is asked, the library never comes to the end of what has arrived again.
FallsBehind ==
    [][/\ unread = <<>> /\ unread' # <<>> => call.op \in Makes /\ status # 0
       /\ unread # <<>> => unread' # <<>>]_vars

\* The server never gives an id twice; so while the library reads every answer
\* to its end, an id that a program keeps after it has destroyed the object
\* never comes to name another one.
IdsStayGone ==
    [][\A i \in Id :
        /\ widgets[i] = None /\ widgets'[i] # None => i \in nextWid..nextWid' - 1
        /\ shapes[i] = None /\ shapes'[i] # None => i \in nextSid..nextSid' - 1
        /\ unread = <<>> =>
             /\ myWidgets[i] # None => myWidgets'[i] \in {myWidgets[i], "gone"}
             /\ myShapes[i] # None => myShapes'[i] \in {myShapes[i], "gone"}]_vars

\* Status 0 means that what was asked has been handed on, for the event and with
\* the action asked for, and names objects that exist; any other status means
\* that nothing has been.
EffectAsAsked ==
    pc = "answered" =>
        /\ status # 0 => effect = None /\ newId = None
        /\ status = 0 /\ call.op \in Updates \cup {"add_event_handler"} =>
             /\ effect = Effect(call.op, call.type, call.action, call.ids)
             /\ call.op = "add_event_handler" => widgets[call.ids[3]] # None
             /\ call.action # "notify_client" => widgets[call.ids[1]] # None

=============================================================================
