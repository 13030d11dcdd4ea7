------------------------------ MODULE MCPainting ------------------------------
(* An instance of Painting for TLC. *)
EXTENDS Painting

\* Containers
NoPreference == -1
Preferences == {NoPreference, 1}
Edges == {[border |-> 0, margin |-> 0], [border |-> 1, margin |-> 0], [border |-> 0, margin |-> 1]}

\* Colours
Ink(name) == [name |-> name, alpha |-> 255]
Glass(name) == [name |-> name, alpha |-> 128]
NoInk(name) == [name |-> name, alpha |-> 0]

JunkPixel == Ink(<<"junk", 0>>)
Grounds == {Glass(<<"ground", 0>>), NoInk(<<"ground", 0>>)}
PanelColours == [window |-> Ink(<<"window", 0>>), title |-> Ink(<<"title", 0>>),
                 frame |-> Ink(<<"frame", 0>>), edge |-> Ink(<<"edge", 0>>),
                 child |-> [i \in 1..4 |-> Ink(<<"child", i>>)]]

\* Shapes
BitmapSize == [w |-> 4, h |-> 3]
Colourings == {<<Ink(<<"fill", 0>>), Glass(<<"edge", 0>>)>>,
               <<Glass(<<"fill", 0>>), Ink(<<"edge", 0>>)>>,
               <<Glass(<<"fill", 0>>), NoInk(<<"edge", 0>>)>>,
               <<NoInk(<<"fill", 0>>), Ink(<<"edge", 0>>)>>}
BoxSet(xs, extents, ts) ==
    {[x |-> x, y |-> y, w |-> w, h |-> h, t |-> t, colour |-> c[1], edge |-> c[2]] :
        x, y \in xs, w, h \in extents, t \in ts, c \in Colourings}
RectangleSet == BoxSet(-1..3, 0..2, {-1, 1, 2})
EllipseSet == BoxSet(-1..2, {-1, 0, 2, 3, 5}, {-1, 0, 1})
LineSet == {[x |-> x, y |-> y, x1 |-> x1, y1 |-> y1, colour |-> c] :
                x, x1 \in -2..5, y, y1 \in -2..4,
                c \in {Ink(<<"line", 0>>), Glass(<<"line", 0>>)}}

Positions == {-4, -2, -1, 0, 1, 3, 4, 5}

\* A picture with pixels of every kind
Picture == [w |-> 3, h |-> 2,
            px |-> [o \in 0..5 |-> IF o = 4 THEN <<>>
                                   ELSE IF o \in {1, 3} THEN <<Glass(<<"data", o>>)>>
                                   ELSE <<Ink(<<"data", o>>)>>]]

\* Text
Ch(glyph, advance, breaks, space) ==
    [glyph |-> glyph, advance |-> advance, breaks |-> breaks, space |-> space,
     newline |-> FALSE, prints |-> TRUE, loads |-> TRUE]
Letter == Ch("a", 1, FALSE, FALSE)
WideLetter == Ch("m", 2, FALSE, FALSE)
Space == Ch(" ", 1, TRUE, TRUE)
Hyphen == Ch("-", 1, TRUE, FALSE)
Newline == [Ch("newline", 1, TRUE, TRUE) EXCEPT !.newline = TRUE, !.prints = FALSE]
Tab == [Ch("tab", 1, FALSE, TRUE) EXCEPT !.prints = FALSE]
Unknown == [Ch("unknown", 1, FALSE, FALSE) EXCEPT !.loads = FALSE]
Wraps == {-1, 0, 1, 3, 6}
Chars == {Letter, WideLetter, Space, Hyphen, Newline, Tab, Unknown}

-----------------------------------------------------------------------------
(* What painting may come to; TLC refutes each of these (README.md, "Shapes  *)
(* and texts that leave their bitmap").                                      *)

\* A line is clipped to the bitmap.
LineStaysIn == last.op = "line" => outcome # "wild"

\* ... by a computation that comes to an end.
LineIsPainted == last.op = "line" => outcome # "trapped"

\* An ellipse is clipped to the bitmap.
EllipseStaysIn == last.op = "ellipse" => outcome # "wild"

\* An ellipse of any size can be painted.
EllipseIsPainted == last.op = "ellipse" => outcome # "trapped"

\* A character that cannot be loaded is left out.
UnknownIsLeftOut == last.op = "text" => outcome # "wild"

\* get_h() has room for every line.
HeightIsEnough ==
    last.op = "text" /\ outcome = "done" =>
        \A k \in DOMAIN pen.printed : pen.printed[k].row < TextLines(pen, last.limit)

-----------------------------------------------------------------------------
(* What the code does not keep, though it says so: TLC refutes each of these *)
(* (README.md, "Where the code departs from its comments").                  *)

\* Container::get_widgets_at asks the layout to "predict the index of the child
\* which contains the point".
PredictsChild == kind = "container" /\ Len(children) <= Cols * Rows =>
    \A i \in DOMAIN children : \A x \in 0..(Window.w - 1), y \in 0..(Window.h - 1) :
        Covers(children[i], x, y) => IndexFromPosition(x, y) = i - 1

\* ... and so does the window: a point of the title bar is the title bar's.
TitleIsFound == kind = "container" =>
    \A x \in 0..(Window.w - 1), y \in 0..(Window.h - 1) :
        Covers(TitleBar(Window), x, y) => PartAt(Window, x, y) = 0

\* A cell "in first column" is at the left side of the container.
FirstColumnIsLeft == kind = "container" /\ nextCol = 0 => nextX = 0

\* "GridLayout with custom proportions": each row gets its own share of the height.
RowsHaveOwnShare ==
    kind = "container" /\ Len(children) < Cols * Rows =>
        CellH = (ph * yProps[(Len(children) \div Cols) + 1]) \div SumProps(yProps)

\* ... whatever they are.
ChildrenApart ==
    \A i, j \in DOMAIN children :
        i < j /\ j <= Cols /\ children[i].w > 0 /\ children[j].w > 0 =>
            children[i].x + children[i].w <= children[j].x

\* "line break if next segment will run past wrap limit": a word that fits in a
\* line is in one.
FittingWordsWhole ==
    last.op = "text" /\ last.limit # 0 /\ (\A i \in DOMAIN last.str : last.str[i].loads) =>
        \A w \in Words(last.str) : Width(last.str, w[1], w[2]) < last.limit =>
            \A j, k \in DOMAIN pen.printed :
                {pen.printed[j].i, pen.printed[k].i} \subseteq w[1]..w[2] =>
                    pen.printed[j].row = pen.printed[k].row

=============================================================================
