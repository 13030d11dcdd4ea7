---------------------------- MODULE EventDispatch ----------------------------
(***************************************************************************)
(* EventDispatcher::dispatch in the input thread, while the client's       *)
(* thread makes and destroys the widgets it is about, and the display      *)
(* thread changes the tree they are in (WidgetTree).  The dispatcher holds *)
(* plain pointers: the widgets an event is for, the one last under the     *)
(* mouse, the grabbed window.  One client has all the widgets.             *)
(***************************************************************************)
EXTENDS WidgetTree

CONSTANTS
    Button,         \* the leaves that are buttons
    DeviceEvent,    \* the types of event that devices make
    Asked,          \* the types of event the client asks for, of every widget
    Acts            \* handlers it may add that do something: [of, type, do], an update

ASSUME DispatchAssumption ==
    /\ Button \subseteq Leaf
    /\ DeviceEvent \subseteq {"move", "press", "release", "scroll", "key_press", "key_release"}
    /\ \A a \in Acts : a.of \in Widget /\ a.do \in Update

VARIABLES
    client,     \* "there", "going" (~Client has joined its threads), "gone"
    acts,       \* those of Acts that have been added
    draggable,  \* Window.draggable, by window
    todo,       \* of the dispatch in progress: what is to be called for whom
    calls,      \* the copy of one widget's handlers, those still to be called
    left,       \* Event.left of the event being dispatched
    under,      \* EventDispatcher.last_under_mouse
    grabbed,    \* DisplayManager.grabbed: empty, or a title bar and its window
    inside,     \* for the properties: entered and not left since,
    met         \*   and pointers to what was destroyed while a dispatch held it
dispatchVars == <<todo, calls, left, under, inside>>
allVars == <<vars, dispatchVars, client, acts, draggable, grabbed, met>>

DispatchInit ==
    /\ Init /\ client = "there" /\ acts = {}
    /\ draggable = [w \in Window |-> FALSE]
    /\ todo = <<>> /\ calls = <<>> /\ left = FALSE
    /\ under = None /\ grabbed = None /\ inside = None /\ met = {}

-----------------------------------------------------------------------------
(* The client's thread *)

ClientRequest ==
    /\ client = "there"
    /\ \/ \E n \in Widget : Make(n) \/ RmWidget(n)
       \/ \E p \in Window \cup Panel, c \in Widget : AddWidget(p, c)
       \/ \E w \in Window : OpenWindow(w) \/ RequestClose(w)
    /\ UNCHANGED <<dispatchVars, client, acts, draggable, grabbed>>

Named(do) == Uses(do) \cup (IF do.op \in {"open", "close", "bump"} THEN {do.window} ELSE {})

\* Client::add_handler with an action: the pointers it needs are taken now.
AddHandler(a) ==
    /\ client = "there" /\ a \notin acts
    /\ {a.of} \cup Named(a.do) \subseteq widgets
    /\ acts' = acts \cup {a}
    /\ UNCHANGED <<vars, dispatchVars, client, draggable, grabbed>>

\* Widgets that end when n does.
With(n) == IF n \in Window THEN {n} \cup Parts(n) ELSE {n}

\* Mutant of RmFromUnderMouse: the dispatcher is not told.
RmFromUnderMouseNot(n) == UNCHANGED under

\* EventDispatcher::rm_from_under_mouse, from ~Widget.
RmFromUnderMouse(n) == under' = IF under \in With(n) THEN None ELSE under

\* destroy_widget, or one of Client.widgets while ~Client destroys its members.
DestroyWidget(n) ==
    /\ client # "gone"
    /\ Destroy(n)
    /\ RmFromUnderMouse(n)
    /\ inside' = IF inside \in With(n) THEN None ELSE inside
    /\ acts' = {a \in acts : a.of # n}
    /\ draggable' = [w \in Window |-> w # n /\ draggable[w]]
    /\ UNCHANGED <<client, todo, calls, left, grabbed>>

ClientLeaves ==
    /\ client = "there" /\ client' = "going"
    /\ UNCHANGED <<vars, dispatchVars, acts, draggable, grabbed>>

\* Mutant of ClientGone: event_buf_q is declared after widgets.
ClientGoneEarly ==
    /\ client = "going" /\ client' = "gone"
    /\ UNCHANGED <<vars, dispatchVars, acts, draggable, grabbed>>

\* The members go in the reverse order of their declaration, event_buf_q after
\* the widgets.
ClientGone ==
    /\ client = "going" /\ widgets = {} /\ client' = "gone"
    /\ UNCHANGED <<vars, dispatchVars, acts, draggable, grabbed>>

-----------------------------------------------------------------------------
(* The input thread *)

\* From a widget up to the window w: what Container::get_widgets_at collects.
PathUp(n, w) ==
    LET path[k \in 0..Depth] ==
            IF k = 0 THEN <<n>>
            ELSE LET last == Last(path[k-1])
                 IN  IF last = w THEN path[k-1] ELSE Append(path[k-1], tree.parent[last])
    IN path[Depth]

\* DisplayManager::get_widgets.  The cursor may be over any part of an open
\* window; if that is gone, ReadGone is what may happen.  Key events are for the
\* focused widgets, and nothing calls focus_on().
WidgetsNow(type) ==
    IF type \notin {"move", "press", "release", "scroll"} THEN {<<>>}
    ELSE IF grabbed # None THEN {<<Title(grabbed), grabbed>>}
    ELSE {<<>>} \cup UNION {{PathUp(n, w) : n \in Subtree(tree, w)} : w \in ToSet(stack) \cap widgets}

First(found) == IF found = <<>> THEN None ELSE found[1]

Call(type, n) == [type |-> type, to |-> n]

\* Mutant of Calls: the widget that is entered is told first.
CallsEnterFirst(type, found) ==
    [i \in DOMAIN found |-> Call(type, found[i])]
    \o (IF type = "move"
        THEN <<Call("enter", First(found)), Call("exit", First(found)), Call("remember", First(found))>>
        ELSE IF type = "release" /\ found # <<>>
        THEN <<Call("click", found[1])>>
             \o (IF found[1] \in Button THEN <<Call("action", found[1])>> ELSE <<>>)
        ELSE <<>>)

\* What dispatch() does with the widgets found, in order.
Calls(type, found) ==
    [i \in DOMAIN found |-> Call(type, found[i])]
    \o (IF type = "move"
        THEN <<Call("exit", First(found)), Call("enter", First(found)), Call("remember", First(found))>>
        ELSE IF type = "release" /\ found # <<>>
        THEN <<Call("click", found[1])>>
             \o (IF found[1] \in Button THEN <<Call("action", found[1])>> ELSE <<>>)
        ELSE <<>>)

Dispatch(type, isLeft) ==
    /\ todo = <<>> /\ calls = <<>>
    /\ \E found \in WidgetsNow(type) : todo' = Calls(type, found) /\ left' = (isLeft /\ found # <<>>)
    /\ UNCHANGED <<vars, client, acts, draggable, calls, under, grabbed, inside>>

\* The handlers a widget has from its constructor, or its window's.
OwnHandlers(n, type) ==
    IF n \in {Title(w) : w \in Window} /\ type \in {"move", "press", "release"}
    THEN <<[op |-> CASE type = "move" -> "drag" [] type = "press" -> "start" [] OTHER -> "stop",
            window |-> n[1]]>>
    ELSE IF n \in Window /\ type = "press" THEN <<[op |-> "bump", window |-> n]>>
    ELSE IF n \in Button /\ type \in {"enter", "exit"} THEN <<[op |-> "touch", child |-> n]>>
    ELSE <<>>

\* Widget::get_event_handlers: a copy, each with the widget it is of.
HandlersOf(n, type) ==
    LET added == IF n \in widgets /\ type \in Asked THEN <<[op |-> "notify"]>> ELSE <<>>
        acting == SetToSeq({a.do : a \in {b \in acts : b.of = n /\ b.type = type}})
        all == OwnHandlers(n, type) \o added \o acting
    IN  [i \in DOMAIN all |-> [of |-> n, do |-> all[i]]]

\* The handlers of one widget are copied to be called.  The widget that is left
\* is read only now; nothing is entered or left if it is still the same.
Deliver ==
    /\ calls = <<>> /\ todo # <<>>
    /\ LET c == Head(todo)
           n == IF c.type = "exit" THEN under ELSE c.to
           same == c.type = "exit" /\ c.to = under
       IN  /\ todo' = IF same THEN <<>> ELSE Tail(todo)
           /\ under' = IF c.type = "remember" THEN c.to ELSE under
           /\ inside' = CASE c.type = "enter" -> n
                          [] c.type = "exit" /\ ~same -> None
                          [] OTHER -> inside
           /\ IF n \in Alive \cup {None} \/ same \/ c.type = "remember"
              THEN /\ calls' = IF same THEN <<>> ELSE HandlersOf(n, c.type)
                   /\ UNCHANGED failed
              ELSE calls' = <<>> /\ failed' = TRUE
    /\ left' = (left /\ (todo' # <<>> \/ calls' # <<>>))
    /\ UNCHANGED <<widgets, tree, stack, queue, batch,
                   client, acts, draggable, grabbed>>

\* A handler of the server's own looks at the widget it was made for.
Handle ==
    /\ calls # <<>> /\ calls' = Tail(calls)
    /\ LET do == Head(calls).do IN
       CASE do.op = "notify" -> UNCHANGED <<vars, draggable, grabbed>>
         [] do.op = "drag" ->
              IF do.window \notin widgets
              THEN failed' = TRUE /\ UNCHANGED <<widgets, tree, stack, queue, batch, draggable, grabbed>>
              ELSE IF left /\ draggable[do.window]
              THEN grabbed' = do.window /\ Push([op |-> "touch", child |-> do.window])
                   /\ UNCHANGED draggable
              ELSE UNCHANGED <<vars, draggable, grabbed>>
         [] do.op \in {"start", "stop"} ->
              IF do.window \notin widgets
              THEN failed' = TRUE /\ UNCHANGED <<widgets, tree, stack, queue, batch, draggable, grabbed>>
              ELSE /\ draggable' = [draggable EXCEPT ![do.window] =
                                       (@ \/ left) /\ do.op = "start"]
                   /\ grabbed' = IF do.op = "stop" THEN None ELSE grabbed
                   /\ UNCHANGED vars
         [] OTHER -> Push(do) /\ UNCHANGED <<draggable, grabbed>>
    /\ left' = (left /\ (todo # <<>> \/ calls' # <<>>))
    /\ UNCHANGED <<client, acts, todo, under, inside>>

-----------------------------------------------------------------------------

Display ==
    /\ PopUpdates \/ RunUpdate \/ ReadGone
    /\ UNCHANGED <<dispatchVars, client, acts, draggable, grabbed>>

\* The pointers the dispatch in progress, or a grab, will use.
InHand == {todo[i].to : i \in DOMAIN todo} \cup {calls[i].of : i \in DOMAIN calls}
          \cup (IF grabbed = None THEN {} ELSE With(grabbed) \ {Frame(grabbed)})
Held == InHand \cup {under}

Overtaken ==
    met' = Held' \cap (met \cup (InHand \cap (Alive \ Alive')))

Input == Deliver \/ Handle
         \/ \E type \in DeviceEvent, isLeft \in BOOLEAN : Dispatch(type, isLeft)

DispatchNext ==
    /\ ~failed
    /\ ClientRequest \/ (\E a \in Acts : AddHandler(a)) \/ (\E n \in Widget : DestroyWidget(n)) \/ ClientLeaves \/ ClientGone
       \/ Input \/ Display
    /\ Overtaken

DispatchSpec == DispatchInit /\ [][DispatchNext]_allVars

-----------------------------------------------------------------------------
(* Properties *)

DispatchTypeOK ==
    /\ client \in {"there", "going", "gone"} /\ (client = "gone" => widgets = {})
    /\ acts \subseteq Acts /\ \A a \in acts : a.of \in widgets
    /\ draggable \in [Window -> BOOLEAN] /\ left \in BOOLEAN
    /\ InHand \cup {under, inside} \subseteq Node \cup {None}
    /\ grabbed \in Window \cup {None} /\ met \subseteq Held

\* Every pointer the dispatcher and a grab hold is to a widget that exists,
\* unless the widget was destroyed during a dispatch that had found it, or was
\* grabbed: taking it out of the tree, off the stack and from under the mouse
\* leaves no other way for a destruction to be missed.
HeldExist == DispatchTypeOK /\ Held \subseteq Alive \cup {None} \cup met

\* A widget is entered only when the one entered before was left or is gone, and
\* between dispatches the one entered and not left is the one remembered.
OneInside ==
    /\ todo # <<>> /\ Head(todo).type = "enter" => inside = None
    /\ todo = <<>> => inside = under \/ under \in met

\* ~Client leaves no handler behind that would push an event to its queue, other
\* than those already copied when their widget was destroyed.
QueueIsThere ==
    client = "gone" => \A i \in DOMAIN calls : calls[i].do.op = "notify" => calls[i].of \in met

=============================================================================
