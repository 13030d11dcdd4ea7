----------------------------- MODULE MCWidgetTree -----------------------------
(* An instance of WidgetTree for TLC. *)
EXTENDS WidgetTree, TLC

Symmetry == Permutations(Window) \cup Permutations(Panel) \cup Permutations(Leaf)

-----------------------------------------------------------------------------
(* What the code does not keep, though it says so: TLC refutes each of these *)
(* (README.md, "Where the code departs from its comments").                  *)

\* "Title bar": what WindowLayout lays out as the first component of a window.
FirstIsTitleBar ==
    \A w \in widgets \cap Window :
        tree.children[w] # <<>> => tree.children[w][1] = Title(w)

\* "Re-composite all windows": every window that is composed exists.
ComposedExist == ToSet(stack) \subseteq Alive

\* How often the display manager is told to repaint when n is painted for an
\* ancestor: Window::repaint(bool) does not look at its argument.
RepaintsBelow(n) ==
    LET calls[m \in Node] ==
            (IF m \in Window THEN 1 ELSE 0)
            + (IF m \in Container
               THEN FoldSeq(LAMBDA c, sum : sum + calls[c], 0, tree.children[m]) ELSE 0)
    IN calls[n]

\* Container::repaint(true)
Repaints(n) == 1 + FoldSeq(LAMBDA c, sum : sum + RepaintsBelow(c), 0, tree.children[n])

\* "Only make the display manager repaint the window if the repaint request was
\* issued directly to this widget".
RepaintsOnce ==
    \A n \in (Alive \cap Container) \ Window : tree.root[n] # None => Repaints(n) = 1

=============================================================================
