------------------------------ MODULE WidgetTree ------------------------------
(***************************************************************************)
(* The widgets of one client: the thread that reads its requests (run_in   *)
(* of net/Client.cpp) makes and destroys widgets at once, but changes the  *)
(* tree of widgets through updates that hold plain pointers and are run    *)
(* later, by the thread of DisplayManager.                                 *)
(*                                                                         *)
(* A widget stands for its address: one that is made after another was     *)
(* destroyed may get its address.  A request for an update, an update and  *)
(* a destruction are one step each.                                        *)
(***************************************************************************)
EXTENDS Integers, Sequences, SequencesExt, FiniteSets

CONSTANTS
    Window, Panel, Leaf,    \* the widgets a client can make
    None,
    MaxUpdates              \* bound on the updates on their way

\* Window's constructor makes two panels of its own.
Title(w) == <<w, "title_bar">>
Frame(w) == <<w, "frame">>
Parts(w) == {Title(w), Frame(w)}

Widget == Window \cup Panel \cup Leaf
Container == Window \cup Panel \cup UNION {Parts(w) : w \in Window}
Node == Container \cup Leaf

\* An address is given again only to a widget, or a part, of the same kind, and None
\* (nullptr) is none.
OwnAddresses ==
    /\ Window \cap Panel = {} /\ (Window \cup Panel) \cap Leaf = {}
    /\ \A w \in Window : Parts(w) \cap Widget = {}
    /\ None \notin Node /\ IsFiniteSet(Node)

ASSUME TreeAssumption == MaxUpdates \in Nat /\ OwnAddresses

VARIABLES
    widgets,    \* Client.widgets
    tree,       \* Container.children, Widget.parent and Widget.root
    stack,      \* DisplayManager.window_stack, the top last
    queue,      \* DisplayManager.update_queue
    batch,      \* the updates popped and still to run
    failed      \* the server used a widget that is gone, or a tree with a cycle
vars == <<widgets, tree, stack, queue, batch, failed>>

Alive == widgets \cup UNION {Parts(w) : w \in widgets \cap Window}

Init ==
    /\ widgets = {} /\ stack = <<>> /\ queue = <<>> /\ batch = <<>> /\ failed = FALSE
    /\ tree = [children |-> [n \in Container |-> <<>>],
               parent |-> [n \in Node |-> None], root |-> [n \in Node |-> None]]

-----------------------------------------------------------------------------
(* The tree *)

Children(t, n) == IF n \in Container THEN ToSet(t.children[n]) ELSE {}

Depth == Cardinality(Node)     \* nothing is further below

\* std::remove, then erase: Kept(s, e)[i] is what is left of the first i. (Rm erases
\* one element only, which is all there is: no child is there twice, TreeAgrees.)
Kept(s, e) ==
    LET kept[i \in 0..Len(s)] ==
            IF i = 0 THEN <<>> ELSE IF s[i] = e THEN kept[i-1] ELSE Append(kept[i-1], s[i])
    IN  kept
Without(s, e) == Kept(s, e)[Len(s)]

\* n and what is below it.
Subtree(t, n) ==
    LET below[k \in 0..Depth] ==
            IF k = 0 THEN {n}
            ELSE LET above == below[k-1]
                 IN above \cup UNION {Children(t, m) : m \in above}
    IN below[Depth]

\* Mutant of SetRoot: what is below keeps its root.
SetRootAlone(t, n, r) == [t EXCEPT !.root[n] = r]

SetRoot(t, n, r) ==
    LET below == Subtree(t, n)
    IN [t EXCEPT !.root = [m \in Node |-> IF m \in below THEN r ELSE @[m]]]

\* Container::rm
Removed(t, p, c) ==
    IF Contains(t.children[p], c)
    THEN [SetRoot(t, c, None) EXCEPT !.children[p] = Without(@, c), !.parent[c] = None]
    ELSE t

\* A window passes to its frame what is not a part of it (Window::rm).
Rm(t, p, c) == IF p \in Window /\ c \notin Parts(p) THEN Removed(t, Frame(p), c)
               ELSE Removed(t, p, c)

RmAt(t, p, i) == IF i <= Len(t.children[p]) THEN Rm(t, p, t.children[p][i]) ELSE t

Target(p) == IF p \in Window THEN Frame(p) ELSE p

Detached(t, c) == IF t.parent[c] = None THEN t ELSE Rm(t, t.parent[c], c)

Append2(t, p, c) == [t EXCEPT !.children[p] = Append(@, c), !.parent[c] = p]

\* Mutant of Added: the child is not taken from where it is.
AddedTwice(t, p, c) == SetRoot(Append2(t, Target(p), c), c, t.root[Target(p)])

\* Container::add, to the frame of a window.
Added(t, p, c) == SetRoot(Append2(Detached(t, c), Target(p), c), c,
                          Detached(t, c).root[Target(p)])

\* set_root() calls itself for ever.
HasCycle(t, p, c) == Target(p) \in Subtree(Detached(t, c), c)

\* Container::~Container leaves its children without a parent.
Orphaned(t, n) ==
    LET below == UNION {Subtree(t, c) : c \in Children(t, n)}
    IN [children |-> [t.children EXCEPT ![n] = <<>>],
        parent |-> [m \in Node |-> IF m \in Children(t, n) THEN None ELSE t.parent[m]],
        root |-> [m \in Node |-> IF m \in below THEN None ELSE t.root[m]]]

Gone(t, n) ==
    LET u == IF n \in Container THEN Orphaned(t, n) ELSE t
        v == IF u.parent[n] \in {None, n} THEN u ELSE Rm(u, u.parent[n], n)
    IN [v EXCEPT !.parent[n] = None, !.root[n] = None]

-----------------------------------------------------------------------------
(* The requests of the client: net/Client.cpp *)

Made(t, w) ==
    IF w \in Window
    THEN [t EXCEPT !.children[w] = <<Title(w), Frame(w)>>,
                   !.parent[w] = w, !.parent[Title(w)] = w, !.parent[Frame(w)] = w,
                   !.root[w] = w, !.root[Title(w)] = w, !.root[Frame(w)] = w]
    ELSE t

Make(w) ==
    /\ w \in Widget \ widgets
    /\ widgets' = widgets \cup {w} /\ tree' = Made(tree, w)
    /\ UNCHANGED <<stack, queue, batch, failed>>

\* Mutant of CloseWindow: the window stays on the stack.
CloseWindowNot(w) == stack

CloseWindow(w) == Without(stack, w)

\* A window closes, and its parts go, frame first, while it is still a Window.
Destroy(w) ==
    /\ w \in widgets
    /\ widgets' = widgets \ {w}
    /\ IF w \in Window
       THEN tree' = Gone(Gone(Gone(tree, Frame(w)), Title(w)), w) /\ stack' = CloseWindow(w)
       ELSE tree' = Gone(tree, w) /\ UNCHANGED stack
    /\ UNCHANGED <<queue, batch, failed>>

Push(u) ==
    /\ Len(queue) + Len(batch) < MaxUpdates
    /\ queue' = Append(queue, u)
    /\ UNCHANGED <<widgets, tree, stack, batch, failed>>

AddWidget(p, c) == /\ p \in widgets \cap Container /\ c \in widgets
                   /\ Push([op |-> "add", parent |-> p, child |-> c])

\* The parent is the one the child has now, not when the update is run.
RmWidget(c) == /\ c \in widgets /\ tree.parent[c] # None
               /\ Push([op |-> "rm", parent |-> tree.parent[c], child |-> c])

RmChild(p, i) == /\ p \in widgets \cap Container
                 /\ Push([op |-> "rm_child", parent |-> p, index |-> i])

OpenWindow(w) == w \in widgets /\ Push([op |-> "open", window |-> w])
RequestClose(w) == w \in widgets /\ Push([op |-> "close", window |-> w])

\* The window's own handler of a mouse press.
Press(w) == w \in widgets /\ Contains(stack, w) /\ Push([op |-> "bump", window |-> w])

-----------------------------------------------------------------------------
(* DisplayManager::run *)

PopUpdates ==
    /\ batch = <<>> /\ queue # <<>>
    /\ batch' = queue /\ queue' = <<>>
    /\ UNCHANGED <<widgets, tree, stack, failed>>

\* open(), bump() and close() put a pointer on the stack or take it off, and look
\* at nothing behind it; rm() only compares the child's.
Uses(u) == CASE u.op = "add" -> {u.parent, u.child}
             [] u.op \in {"rm", "rm_child"} -> {u.parent}
             [] u.op \in {"touch", "rm_now"} -> {u.child}
             [] u.op \in {"open", "close", "bump"} -> {}

Fails(u) == \/ ~(Uses(u) \subseteq Alive)
            \/ u.op = "add" /\ HasCycle(tree, u.parent, u.child)

RunAdd(u) == /\ u.op = "add" /\ tree' = Added(tree, u.parent, u.child)
             /\ UNCHANGED stack
RunRm(u) == /\ u.op = "rm" /\ tree' = Rm(tree, u.parent, u.child)
            /\ UNCHANGED stack
\* rm_widget as a handler's action (EventDispatch) asks for the parent only now.
RunRmNow(u) == /\ u.op = "rm_now"
               /\ tree' = IF tree.parent[u.child] = None THEN tree
                          ELSE Rm(tree, tree.parent[u.child], u.child)
               /\ UNCHANGED stack
\* What changes a widget but not its place; pushed by a handler (EventDispatch).
RunTouch(u) == u.op = "touch" /\ UNCHANGED <<tree, stack>>
RunRmChild(u) == /\ u.op = "rm_child" /\ tree' = RmAt(tree, u.parent, u.index)
                 /\ UNCHANGED stack
RunOpen(u) == /\ u.op = "open"
              /\ stack' = IF Contains(stack, u.window) THEN stack ELSE Append(stack, u.window)
              /\ UNCHANGED tree
RunClose(u) == u.op = "close" /\ stack' = CloseWindow(u.window) /\ UNCHANGED tree
RunBump(u) == /\ u.op = "bump" /\ stack' = Append(CloseWindow(u.window), u.window)
              /\ UNCHANGED tree

RunUpdate ==
    /\ batch # <<>> /\ batch' = Tail(batch)
    /\ LET u == Head(batch) IN
       IF Fails(u) THEN failed' = TRUE /\ UNCHANGED <<tree, stack>>
       ELSE /\ RunAdd(u) \/ RunRm(u) \/ RunRmChild(u) \/ RunOpen(u) \/ RunClose(u) \/ RunBump(u)
                \/ RunTouch(u) \/ RunRmNow(u)
            /\ UNCHANGED failed
    /\ UNCHANGED <<widgets, queue>>

\* Whoever composes the stack, or looks there for the window under the mouse,
\* reads a window that is gone: that fails, or goes on with what is found there.
ReadGone ==
    /\ \E w \in ToSet(stack) : w \notin widgets
    /\ failed' = TRUE
    /\ UNCHANGED <<widgets, tree, stack, queue, batch>>

-----------------------------------------------------------------------------

Request == \/ \E w \in Widget : Make(w) \/ Destroy(w) \/ RmWidget(w)
           \/ \E p \in Window \cup Panel, c \in Widget : AddWidget(p, c)
           \/ \E p \in Window \cup Panel, i \in 1..2 : RmChild(p, i)
           \/ \E w \in Window : OpenWindow(w) \/ RequestClose(w)

Next == /\ ~failed
        /\ Request \/ (\E w \in Window : Press(w)) \/ PopUpdates \/ RunUpdate \/ ReadGone

Spec == Init /\ [][Next]_vars

-----------------------------------------------------------------------------
(* Properties *)

Update == [op : {"add", "rm"}, parent : Container, child : Widget]
          \cup [op : {"rm_child"}, parent : Container, index : 1..2]
          \cup [op : {"touch"}, child : Node] \cup [op : {"rm_now"}, child : Widget]
          \cup [op : {"open", "close", "bump"}, window : Window]

\* The updates on their way are those that were pushed: one popped is not left.
TypeOK ==
    /\ widgets \subseteq Widget /\ failed \in BOOLEAN
    /\ tree \in [children : [Container -> Seq(Node)], parent : [Node -> Container \cup {None}],
                 root : [Node -> Window \cup {None}]]
    /\ stack \in Seq(Window)
    /\ queue \in Seq(Update) /\ batch \in Seq(Update)
    /\ Len(queue) + Len(batch) <= MaxUpdates

\* However requests, updates and destructions interleave, a container and its
\* children agree about each other, no child is there twice, and no widget that
\* exists has a child or a parent that does not.
TreeAgrees ==
    /\ TypeOK
    /\ \A p \in Alive \cap Container :
        /\ IsInjective(tree.children[p])
        /\ \A c \in ToSet(tree.children[p]) : c \in Alive /\ tree.parent[c] = p
    /\ \A c \in Alive : LET p == tree.parent[c] IN
        p \notin {None, c} => p \in Alive /\ Contains(tree.children[p], c)

\* A widget is painted to the window of the container it is in, and that window
\* exists: what repaint() does to root without a look.
RootsAgree ==
    \A c \in Alive : LET p == tree.parent[c] IN
        /\ tree.root[c] \in Alive \cup {None}
        /\ p = None => tree.root[c] = None
        /\ p \notin {None, c} => tree.root[c] = tree.root[p]

\* The update under way opens or raises w.
Opens(w) == /\ batch # <<>> /\ batch' = Tail(batch)
            /\ Head(batch).op \in {"open", "bump"} /\ Head(batch).window = w

\* A window is composed once, and no destruction leaves one on the stack: what is
\* composed exists, but for a window that an update has opened or raised when it
\* was gone already, until it is closed or its address given again.
StackExists ==
    [][/\ IsInjective(stack')
       /\ \A w \in ToSet(stack') \ Alive' : w \in ToSet(stack) \ Alive \/ Opens(w)]_vars

=============================================================================
