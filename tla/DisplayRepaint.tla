---------------------------- MODULE DisplayRepaint ----------------------------
(***************************************************************************)
(* Painting the stack of windows: DisplayManager::repaint() and the two    *)
(* buffers of a DRMConn.  The display thread repaints for the updates it   *)
(* runs, but a client's thread repaints too: destroying or making a window *)
(* does.  Neither window_stack nor the buffers have a lock.                *)
(***************************************************************************)
EXTENDS Integers, Sequences, SequencesExt

CONSTANTS
    Display,    \* the display thread
    Client,     \* the threads of clients
    Window,
    MaxChanges  \* bound on the changes of the stack

ASSUME RepaintAssumption == Display \notin Client /\ MaxChanges \in Nat

Thread == {Display} \cup Client

VARIABLES
    stack,      \* DisplayManager.window_stack, the lowest window first
    bufs,       \* DRMConn.bufs: the windows painted, the lowest first
    front,      \* DRMConn.front_buf
    shown,      \* the buffer the CRTC scans out
    pc,         \* where each thread is in repaint()
    next, end,  \* the iterators of each thread's loop over the stack
    flip,       \* the buffer each thread is about to show
    alone,      \* no other thread has done anything since this one began
    clean,      \* the last repaint was alone, and nothing has changed since
    met,        \* two threads have been repainting at the same time
    changes     \* changes made so far
vars == <<stack, bufs, front, shown, pc, next, end, flip, alone, clean, met, changes>>

Init ==
    /\ stack = <<>> /\ bufs = [b \in 0..1 |-> <<>>] /\ front = 0 /\ shown = 0
    /\ pc = [t \in Thread |-> "idle"]
    /\ next = [t \in Thread |-> 1] /\ end = [t \in Thread |-> 0]
    /\ flip = [t \in Thread |-> 0]
    /\ alone = [t \in Thread |-> FALSE] /\ clean = TRUE
    /\ met = FALSE /\ changes = 0

Back == 1 - front

Disturb(t) == [u \in Thread |-> u = t /\ \A v \in Thread \ {t} : pc[v] = "idle"]

\* Every change is followed by a repaint in the same thread.
Change(t, newStack) ==
    /\ pc[t] = "idle" /\ changes < MaxChanges
    /\ stack' = newStack
    /\ pc' = [pc EXCEPT ![t] = "clear"]
    /\ alone' = Disturb(t) /\ clean' = FALSE /\ met' = (met \/ ~alone'[t])
    /\ changes' = changes + 1
    /\ UNCHANGED <<bufs, front, shown, next, end, flip>>

\* Window::open: a window that is open already stays where it is.
Open(t, w) == Change(t, IF w \in ToSet(stack) THEN stack ELSE Append(stack, w))

\* std::remove and erase: Kept(w)[i] is what they leave of the first i windows.
Kept(w) ==
    LET kept[i \in 0..Len(stack)] ==
            IF i = 0 THEN <<>>
            ELSE IF stack[i] = w THEN kept[i-1] ELSE Append(kept[i-1], stack[i])
    IN  kept
Without(w) == Kept(w)[Len(stack)]

\* Window::close, also from ~Window when a client destroys it.
Close(t, w) == Change(t, Without(w))

\* Window::bump, on a press of the mouse: open() after close().
Bump(t, w) == Change(t, Append(Without(w), w))

\* A repaint with the stack as it is: Window::set_pos, Widget::autorepaint.
Repaint(t) == Change(t, stack)

\* Mutant of Clear: what was painted two repaints ago stays.
ClearNot(t) ==
    /\ pc[t] = "clear"
    /\ next' = [next EXCEPT ![t] = 1] /\ end' = [end EXCEPT ![t] = Len(stack)]
    /\ pc' = [pc EXCEPT ![t] = "paint"]
    /\ UNCHANGED <<bufs, stack, front, shown, flip, alone, clean, met, changes>>

\* conn.clear(), and the loop's iterators.
Clear(t) ==
    /\ pc[t] = "clear"
    /\ bufs' = [bufs EXCEPT ![Back] = <<>>]
    /\ next' = [next EXCEPT ![t] = 1] /\ end' = [end EXCEPT ![t] = Len(stack)]
    /\ pc' = [pc EXCEPT ![t] = "paint"]
    /\ UNCHANGED <<stack, front, shown, flip, alone, clean, met, changes>>

\* conn.composite().  If the stack has shrunk under the loop, the iterator
\* points past it: at a window that was there before, or at nothing good.
Paint(t) ==
    /\ pc[t] = "paint" /\ next[t] <= end[t]
    /\ \E w \in IF next[t] \in DOMAIN stack THEN {stack[next[t]]} ELSE Window :
           bufs' = [bufs EXCEPT ![Back] = Append(@, w)]
    /\ next' = [next EXCEPT ![t] = @ + 1]
    /\ UNCHANGED <<stack, front, shown, pc, end, flip, alone, clean, met, changes>>

\* conn.repaint(): the back buffer is looked up ...
ChooseBuffer(t) ==
    /\ pc[t] = "paint" /\ next[t] > end[t]
    /\ flip' = [flip EXCEPT ![t] = Back]
    /\ pc' = [pc EXCEPT ![t] = "show"]
    /\ UNCHANGED <<stack, bufs, front, shown, next, end, alone, clean, met, changes>>

\* ... shown ...
SetCrtc(t) ==
    /\ pc[t] = "show"
    /\ shown' = flip[t]
    /\ pc' = [pc EXCEPT ![t] = "swap"]
    /\ UNCHANGED <<stack, bufs, front, next, end, flip, alone, clean, met, changes>>

\* ... and made the front buffer.
Swap(t) ==
    /\ pc[t] = "swap"
    /\ front' = 1 - front
    /\ pc' = [pc EXCEPT ![t] = "idle"]
    /\ clean' = alone[t]
    /\ UNCHANGED <<stack, bufs, shown, next, end, flip, alone, met, changes>>

\* Updates are run by the display thread only; a client's thread closes a
\* window by destroying it, and repaints when it makes one or destroys a widget.
ChangeStep(t) ==
    \/ t = Display /\ \E w \in Window : Open(t, w) \/ Bump(t, w)
    \/ \E w \in Window : Close(t, w)
    \/ Repaint(t)
RepaintStep(t) == Clear(t) \/ Paint(t) \/ ChooseBuffer(t) \/ SetCrtc(t) \/ Swap(t)

Next == \E t \in Thread : ChangeStep(t) \/ RepaintStep(t)

Spec == Init /\ [][Next]_vars

-----------------------------------------------------------------------------
(* Properties *)

TypeOK ==
    /\ stack \in Seq(Window) /\ IsInjective(stack)
    /\ bufs \in [0..1 -> Seq(Window)]
    /\ front \in 0..1 /\ shown \in 0..1 /\ flip \in [Thread -> 0..1]
    /\ pc \in [Thread -> {"idle", "clear", "paint", "show", "swap"}]
    /\ alone \in [Thread -> BOOLEAN] /\ clean \in BOOLEAN
    /\ met \in BOOLEAN /\ changes \in 0..MaxChanges

\* A repaint that no other thread's change or repaint has met shows exactly the
\* open windows, in the order they are stacked - whatever overlapping repaints
\* before it have left in the buffers.
CleanShowsStack == TypeOK /\ (clean => bufs[shown] = stack)

\* The windows on the screen are only ever painted over out of sight: as long
\* as repaints have not overlapped, the buffer being shown is left as it is.
PaintsOutOfSight == [][met' \/ bufs'[shown] = bufs[shown]]_vars

=============================================================================
