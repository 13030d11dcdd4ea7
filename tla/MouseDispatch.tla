---------------------------- MODULE MouseDispatch ----------------------------
(***************************************************************************)
(* The mouse, from the input thread to the screen: Mouse::process_events   *)
(* makes events, EventDispatcher::dispatch calls the handlers of the       *)
(* widgets under the cursor, the handlers queue updates, and the thread of *)
(* DisplayManager carries them out in batches (MergedUpdates::apply).      *)
(* There is one open window, holding a button, and only its vertical       *)
(* position is kept; the horizontal one is treated in the same way.        *)
(***************************************************************************)
EXTENDS Integers, Sequences

CONSTANTS
    ScreenH,    \* rows of the screen
    TitleH,     \* rows of the window's title bar
    WindowH,    \* rows of the window
    Moves,      \* how far the mouse moves at a time
    MaxEvents   \* bound on the events of the mouse

ASSUME MouseAssumption ==
    /\ ScreenH \in Nat \ {0} /\ MaxEvents \in Nat
    /\ TitleH \in Nat \ {0} /\ WindowH \in Nat /\ WindowH > TitleH
    /\ Moves \subseteq Int \ {0}

None == "none"

VARIABLES
    left,       \* Mouse.left: the left button is down, as far as Mouse knows
    todo,       \* events Mouse is still to dispatch; a tap is a press and a release
    ipc, event, \* the dispatch in progress and its event
    targets,    \* what get_widgets() returned
    under,      \* EventDispatcher.last_under_mouse
    draggable,  \* Window.draggable
    grabbed,    \* DisplayManager.grabbed is not empty: title bar and window
    queue,      \* DisplayManager.update_queue
    dpc, batch, \* the display thread, and the updates it has popped
    merged,     \* MergedUpdates: the moves, the follower, the new cursor
    oldCursor,  \* apply(): old_cursor_y
    cursor,     \* DisplayManager.cursor_y
    shape,      \* DisplayManager.cursor
    winY,       \* Window.y
    made,       \* events made so far
    moved,      \* for the properties: the sum of all moves dispatched,
    clipped,    \*   whether the edge of the screen ever cut one,
    hold        \*   and the row of the window at which it was last pressed
inputVars == <<left, todo, ipc, event, targets, under, draggable, grabbed, made, moved, hold>>
displayVars == <<dpc, batch, merged, oldCursor, cursor, shape, winY, clipped>>
vars == <<inputVars, queue, displayVars>>

NoUpdates == [dy |-> 0, follow |-> FALSE, shape |-> None]

Init ==
    /\ left = FALSE /\ todo = <<>> /\ made = 0
    /\ ipc = "idle" /\ event = [type |-> "release", left |-> FALSE, dy |-> 0]
    /\ targets = <<>> /\ under = None /\ draggable = FALSE /\ grabbed = FALSE
    /\ queue = <<>> /\ dpc = "wait" /\ batch = <<>> /\ merged = NoUpdates
    /\ cursor = ScreenH \div 2 /\ oldCursor = cursor /\ shape = "arrow"
    /\ winY \in 0..(ScreenH - 1)
    /\ moved = 0 /\ clipped = FALSE /\ hold = 0

Push(update) == queue' = Append(queue, update)

-----------------------------------------------------------------------------
(* The mouse *)

Event(type, isLeft, dy) == [type |-> type, left |-> isLeft, dy |-> dy]

Make(events) ==
    /\ ipc = "idle" /\ todo = <<>> /\ made < MaxEvents
    /\ todo' = events /\ made' = made + 1
    /\ UNCHANGED <<ipc, event, targets, under, draggable, grabbed, moved, hold,
                   queue, displayVars>>

Move(dy) == Make(<<Event("move", left, dy)>>) /\ UNCHANGED left

\* BTN_LEFT in the left half, where it is the left button, and in the right half.
PressLeft == Make(<<Event("press", TRUE, 0)>>) /\ left' = TRUE
PressRight == Make(<<Event("press", FALSE, 0)>>) /\ UNCHANGED left
Release == Make(<<Event("release", left, 0)>>) /\ left' = FALSE

\* A tap: a press and a release.  A tap with one finger leaves left set.
Tap(fingers) ==
    /\ left' = (fingers = 1)
    /\ Make(<<Event("press", fingers = 1, 0), Event("release", fingers = 1, 0)>>)

-----------------------------------------------------------------------------
(* EventDispatcher::dispatch *)

\* A move queues the move of the cursor, before anything else.
StartDispatch ==
    /\ ipc = "idle" /\ todo # <<>>
    /\ event' = Head(todo) /\ todo' = Tail(todo)
    /\ ipc' = "hit"
    /\ IF Head(todo).type = "move"
       THEN Push([op |-> "move", dy |-> Head(todo).dy]) /\ moved' = moved + Head(todo).dy
       ELSE UNCHANGED <<queue, moved>>
    /\ UNCHANGED <<left, targets, under, draggable, grabbed, made, hold, displayVars>>

\* Container::get_widgets_at: the widget in row y and those it is in.
WidgetsAt(y) ==
    IF y \in winY..(winY + TitleH - 1) THEN <<"title_label", "title_bar", "window">>
    ELSE IF y \in winY..(winY + WindowH - 1) THEN <<"button", "frame", "window">>
    ELSE <<>>

\* Mutant of WidgetsNow: a grab is not looked at.
WidgetsNowFree == WidgetsAt(cursor)

\* DisplayManager::get_widgets: those at the cursor, unless a window is grabbed.
WidgetsNow == IF grabbed THEN <<"title_bar", "window">> ELSE WidgetsAt(cursor)

GetWidgets ==
    /\ ipc = "hit"
    /\ targets' = WidgetsNow
    /\ hold' = IF event.type = "press" THEN cursor - winY ELSE hold
    /\ ipc' = "act"
    /\ UNCHANGED <<left, todo, event, under, draggable, grabbed, made, moved, queue, displayVars>>

OnTitleBar == "title_bar" \in {targets[i] : i \in DOMAIN targets}

\* The handlers of the window's title bar: drag_window, start_drag, stop_drag.
\* (A press also queues a bump, which changes nothing with one window.)
Handlers ==
    /\ ipc = "act"
    /\ CASE event.type = "move" /\ OnTitleBar /\ event.left /\ draggable ->
              grabbed' = TRUE /\ Push([op |-> "follow"]) /\ UNCHANGED draggable
         [] event.type = "press" /\ OnTitleBar /\ event.left ->
              draggable' = TRUE /\ UNCHANGED <<grabbed, queue>>
         [] event.type = "release" /\ OnTitleBar ->
              draggable' = FALSE /\ grabbed' = FALSE /\ UNCHANGED queue
         [] OTHER -> UNCHANGED <<draggable, grabbed, queue>>
    /\ ipc' = IF event.type = "move" THEN "exit" ELSE "idle"
    /\ UNCHANGED <<left, todo, event, targets, under, made, moved, hold, displayVars>>

Target == IF targets = <<>> THEN None ELSE targets[1]

\* The exit event of the widget that was under the mouse (Button: on_exit) ...
MouseExit ==
    /\ ipc = "exit"
    /\ IF Target # under /\ under = "button"
       THEN Push([op |-> "shape", to |-> "arrow"]) ELSE UNCHANGED queue
    /\ ipc' = "enter"
    /\ UNCHANGED <<left, todo, event, targets, under, draggable, grabbed, made, moved, hold,
                   displayVars>>

\* Mutant of MouseEnter: a widget is remembered only when it has handlers.
MouseEnterForgets ==
    /\ ipc = "enter"
    /\ IF Target # under /\ Target = "button"
       THEN Push([op |-> "shape", to |-> "pointer"]) /\ under' = Target
       ELSE UNCHANGED <<queue, under>>
    /\ ipc' = "idle"
    /\ UNCHANGED <<left, todo, event, targets, draggable, grabbed, made, moved, hold, displayVars>>

\* ... and the enter event of the one that now is (Button: on_enter).
MouseEnter ==
    /\ ipc = "enter"
    /\ IF Target # under /\ Target = "button"
       THEN Push([op |-> "shape", to |-> "pointer"]) ELSE UNCHANGED queue
    /\ under' = Target
    /\ ipc' = "idle"
    /\ UNCHANGED <<left, todo, event, targets, draggable, grabbed, made, moved, hold, displayVars>>

-----------------------------------------------------------------------------
(* DisplayManager::run *)

\* Mutant of PopUpdates: the thread sleeps until there are two updates.
PopUpdatesLate ==
    /\ dpc = "wait" /\ Len(queue) > 1
    /\ batch' = queue /\ queue' = <<>>
    /\ dpc' = "run"
    /\ UNCHANGED <<inputVars, merged, oldCursor, cursor, shape, winY, clipped>>

PopUpdates ==
    /\ dpc = "wait" /\ queue # <<>>
    /\ batch' = queue /\ queue' = <<>>
    /\ dpc' = "run"
    /\ UNCHANGED <<inputVars, merged, oldCursor, cursor, shape, winY, clipped>>

\* Mutant of Merge: a move takes the place of the one before.
MergeLast(update) ==
    CASE update.op = "move" -> [merged EXCEPT !.dy = update.dy]
      [] update.op = "follow" -> [merged EXCEPT !.follow = TRUE]
      [] update.op = "shape" -> [merged EXCEPT !.shape = update.to]

\* MergedUpdates::move_cursor, follow_mouse and set_cursor.
Merge(update) ==
    CASE update.op = "move" -> [merged EXCEPT !.dy = @ + update.dy]
      [] update.op = "follow" -> [merged EXCEPT !.follow = TRUE]
      [] update.op = "shape" -> [merged EXCEPT !.shape = update.to]

RunUpdate ==
    /\ dpc = "run" /\ batch # <<>>
    /\ merged' = Merge(Head(batch))
    /\ batch' = Tail(batch)
    /\ UNCHANGED <<inputVars, queue, dpc, oldCursor, cursor, shape, winY, clipped>>

\* MergedUpdates::apply: the cursor is moved, and only then kept on the screen
\* (update_cursor); the input thread reads it at any time.
MoveCursor ==
    /\ dpc = "run" /\ batch = <<>>
    /\ oldCursor' = cursor
    /\ cursor' = cursor + merged.dy
    /\ shape' = IF merged.shape # None THEN merged.shape ELSE shape
    /\ dpc' = "clamp"
    /\ UNCHANGED <<inputVars, queue, batch, merged, winY, clipped>>

OnScreen(y) == IF y < 0 THEN 0 ELSE IF y >= ScreenH THEN ScreenH - 1 ELSE y

KeepCursorOnScreen ==
    /\ dpc = "clamp"
    /\ cursor' = OnScreen(cursor)
    /\ clipped' = (clipped \/ cursor' # cursor)
    /\ dpc' = "follow"
    /\ UNCHANGED <<inputVars, queue, batch, merged, oldCursor, shape, winY>>

\* What follows the mouse moves as far as the cursor did.
MoveFollowers ==
    /\ dpc = "follow"
    /\ winY' = IF merged.follow THEN winY + cursor - oldCursor ELSE winY
    /\ merged' = NoUpdates
    /\ dpc' = "wait"
    /\ UNCHANGED <<inputVars, queue, batch, oldCursor, cursor, shape, clipped>>

-----------------------------------------------------------------------------

Mouse == (\E dy \in Moves : Move(dy)) \/ PressLeft \/ PressRight \/ Release
         \/ \E fingers \in {1, 2} : Tap(fingers)
Dispatch == StartDispatch \/ GetWidgets \/ Handlers \/ MouseExit \/ MouseEnter
Display == PopUpdates \/ RunUpdate \/ MoveCursor \/ KeepCursorOnScreen \/ MoveFollowers

Next == Mouse \/ Dispatch \/ Display

Spec == Init /\ [][Next]_vars

\* The display thread waits for nothing but updates, and the input thread never
\* for the display thread.
FairSpec == Spec /\ WF_vars(Display) /\ WF_vars(Dispatch)

-----------------------------------------------------------------------------
(* Properties *)

Update == [op : {"move"}, dy : Moves] \cup [op : {"follow"}]
          \cup [op : {"shape"}, to : {"arrow", "pointer"}]

TypeOK ==
    /\ left \in BOOLEAN /\ draggable \in BOOLEAN /\ grabbed \in BOOLEAN
    /\ ipc \in {"idle", "hit", "act", "exit", "enter"}
    /\ dpc \in {"wait", "run", "clamp", "follow"}
    /\ queue \in Seq(Update) /\ batch \in Seq(Update)
    /\ merged \in [dy : Int, follow : BOOLEAN, shape : {None, "arrow", "pointer"}]
    /\ dpc = "wait" => batch = <<>> /\ merged = NoUpdates
    /\ shape \in {"arrow", "pointer"} /\ winY \in Int
    /\ dpc \notin {"clamp"} => cursor \in 0..(ScreenH - 1)

Settled == ipc = "idle" /\ todo = <<>> /\ queue = <<>> /\ dpc = "wait"

Dy(update) == IF update.op = "move" THEN update.dy ELSE 0

\* Sums(updates)[k]: how far the first k updates move the cursor.
Sums(updates) ==
    LET sum[k \in 0..Len(updates)] == IF k = 0 THEN 0 ELSE sum[k-1] + Dy(updates[k])
    IN  sum
MovesIn(updates) == Sums(updates)[Len(updates)]

\* No move of the mouse is lost or counted twice on its way through the queue,
\* the batch and the merged updates, until the edge of the screen cuts one.
MovesConserved ==
    /\ TypeOK
    /\ ~clipped /\ dpc # "clamp" =>
        cursor + MovesIn(queue) + MovesIn(batch)
               + (IF dpc = "follow" THEN 0 ELSE merged.dy) = (ScreenH \div 2) + moved

\* Once every update has been carried out the cursor is a hand exactly when the
\* last widget entered and not left is the button, although enter, exit and
\* moves may have been merged into one update of the cursor, or into many.
ShapeIsRight == Settled => shape = IF under = "button" THEN "pointer" ELSE "arrow"

\* A release ends the grab, wherever the cursor is when it is dispatched.
ReleaseDrops == ipc = "idle" /\ event.type = "release" => ~grabbed

\* Every update queued is carried out.
UpdatesApplied == queue # <<>> ~> queue = <<>> /\ dpc = "wait"

=============================================================================
