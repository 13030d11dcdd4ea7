------------------------------- MODULE Painting -------------------------------
(***************************************************************************)
(* What the widgets of a window paint, and where: a window its parts, the  *)
(* frame its children in the cells of a grid, a canvas the shapes that a   *)
(* program draws on it, a picture its data, a label its text.  GridLayout, *)
(* WindowLayout, Shapes and TextWrap say where things go; here they are    *)
(* asked for, one at a time, by the thread of the display.                 *)
(*                                                                         *)
(* Coordinates are small, so that no product overflows.                    *)
(***************************************************************************)
EXTENDS GridLayout, WindowLayout, Shapes, TextWrap

CONSTANTS
    Bitmap,                     \* the size of what is painted into: [w, h]
    Colour, Junk,               \* colours of fills; what is in a new bitmap
    Rectangles, Lines, Ellipses,    \* shapes that are drawn
    Data,                       \* a picture: [w, h, px]
    From, Extent,               \* positions and sizes a picture is given
    Panels,                     \* colours of a window, its parts and the children
    MaxStr,                     \* bound on the length of a text
    Wrap                        \* where texts are wrapped (Text.wrap)

\* The window whose frame has the container's size: the container is the frame
\* itself, or a panel that has the frame for itself, as in a grid of one cell.
WindowOf(w, h) == [w |-> w + 2 * Extra, h |-> h + TitleH + 2 * Extra]

ASSUME PaintingAssumption ==
    /\ \A w, h \in Size :
        Frame(WindowOf(w, h)) = [x |-> ParentX, y |-> ParentY, w |-> w, h |-> h]
    /\ Bitmap.w \in Nat \ {0} /\ Bitmap.h \in Nat \ {0}
    /\ Data.w \in Nat /\ Data.h \in Nat /\ DOMAIN Data.px = 0..(Data.w * Data.h - 1)
    /\ \A o \in DOMAIN Data.px : Data.px[o] = <<>> \/ Data.px[o] = <<Data.px[o][1]>>
    /\ From \subseteq Int /\ Extent \subseteq Nat /\ Wrap \subseteq Int /\ MaxStr \in Nat

\* Only the constructor of a rectangle asks whether width and height are negative.
ASSUME ShapesAssumption ==
    /\ \A s \in Rectangles : {s.x, s.y, s.t} \subseteq Int /\ {s.w, s.h} \subseteq Nat
    /\ \A s \in Ellipses : {s.x, s.y, s.w, s.h, s.t} \subseteq Int
    /\ \A s \in Lines : {s.x, s.y, s.x1, s.y1} \subseteq Int /\ s.colour.alpha \in Nat

\* The parts of a window are to be seen.
ASSUME PanelsAssumption ==
    LET visible(colour) == colour.alpha \in Nat \ {0}
    IN  /\ visible(Panels.window) /\ visible(Panels.title) /\ visible(Panels.frame)
        /\ visible(Panels.edge) /\ \A i \in 1..MaxChildren : visible(Panels.child[i])

VARIABLES
    kind,       \* "container", "canvas", "picture" or "label"
    px,         \* the map of the bitmap
    before,     \* what was in it before the last request
    last,       \* the last request
    pen,        \* where Text::paint has put its characters
    outcome     \* "done", "trapped" by a division by zero, or "wild"
canvas == <<px, before, last, pen, outcome>>
painting == <<vars, kind, canvas>>

None == [op |-> "none"]

PaintingInit ==
    /\ px = [o \in 0..(Bitmap.w * Bitmap.h - 1) |-> <<Junk>>] /\ before = px
    /\ last = None /\ pen = Pen /\ outcome = "done"
    /\ \/ kind = "container" /\ Init
       \/ /\ kind \in {"canvas", "picture", "label"}
          /\ pw = 0 /\ ph = 0 /\ padding = 0 /\ regular = TRUE
          /\ xProps = Ones(1) /\ yProps = Ones(1)
          /\ nextCol = 0 /\ nextRow = 0 /\ nextX = 0 /\ nextY = 0
          /\ children = <<>> /\ thrown = FALSE

\* Container::layout.
Layout == kind = "container" /\ Next /\ UNCHANGED <<kind, canvas>>

\* Canvas::fill, and Canvas::clear for the colour that is clear.
Fill(colour) ==
    /\ px' = [o \in DOMAIN px |-> IF colour.alpha = 0 THEN <<>> ELSE <<colour>>]
    /\ before' = px /\ last' = [op |-> "fill"]
    /\ UNCHANGED <<vars, kind, pen, outcome>>

\* Canvas::draw.
Draw(op, shape, ways) ==
    /\ last' = [op |-> op, shape |-> shape] /\ before' = px
    /\ \/ /\ ways = {}
          /\ outcome' = "trapped" /\ UNCHANGED px
       \/ \E strokes \in ways :
            IF Wild(px, strokes)
            THEN outcome' = "wild" /\ UNCHANGED px
            ELSE px' = Painted(px, strokes) /\ UNCHANGED outcome
    /\ UNCHANGED <<vars, kind, pen>>

\* Picture::paint, which is Canvas::paint too.
Show(x, y, w, h) ==
    /\ last' = [op |-> "show", x |-> x, y |-> y, w |-> w, h |-> h] /\ before' = px
    /\ px' = Composited(px, Bitmap, Data, x, y, Min({w, Data.w}), Min({h, Data.h}))
    /\ UNCHANGED <<vars, kind, pen, outcome>>

\* Label::set_size, or set_str: -1 is the width of the label.
SetText(str, wrap) ==
    /\ LET limit == IF wrap = -1 THEN Bitmap.w ELSE wrap
       IN  /\ last' = [op |-> "text", str |-> str, limit |-> limit]
           /\ pen' = Typeset(str, limit)
    /\ outcome' = (IF pen'.broken THEN "wild" ELSE "done")
    /\ UNCHANGED <<vars, kind, px, before>>

\* One request of each widget is enough: of a canvas one shape, on any kind of pixel.
CanvasNext ==
    /\ kind = "canvas" /\ last.op \in {"none", "fill"}
    /\ \/ last = None /\ \E colour \in Colour : Fill(colour)
       \/ \E s \in Rectangles : Draw("rectangle", s, {RectangleStrokes(Bitmap, s)})
       \/ \E s \in Lines : Draw("line", s, LineStrokes(Bitmap, s))
       \/ \E s \in Ellipses : Draw("ellipse", s, EllipseStrokes(Bitmap, s))

PictureNext ==
    /\ kind = "picture" /\ last = None
    /\ \E x, y \in From, w, h \in Extent : Show(x, y, w, h)

LabelNext ==
    /\ kind = "label" /\ last = None
    /\ \E str \in SeqOf(Char, MaxStr), wrap \in Wrap : SetText(str, wrap)

PaintingNext == Layout \/ CanvasNext \/ PictureNext \/ LabelNext

PaintingSpec == PaintingInit /\ [][PaintingNext]_painting

-----------------------------------------------------------------------------
(* Containers *)

Window == WindowOf(pw, ph)

Box(at, t, colour) ==
    [x |-> at.x, y |-> at.y, w |-> at.w, h |-> at.h, t |-> t,
     colour |-> colour, edge |-> Panels.edge]

\* Window's constructor, then repaint(): the title bar, the frame, and each child
\* with its border.  Panels, buttons and labels paint their Rectangle.
Boxes ==
    LET inner == [x |-> WindowBorder, y |-> WindowBorder,
                  w |-> Window.w - 2 * WindowBorder, h |-> Window.h - 2 * WindowBorder]
    IN  <<Box(inner, WindowBorder, Panels.window), Box(TitleBar(Window), 0, Panels.title),
          Box(Frame(Window), 0, Panels.frame)>>
        \o [i \in DOMAIN children |-> Box(children[i], children[i].border, Panels.child[i])]

\* The map after each of them.
WindowPainted ==
    LET map[k \in 0..Len(Boxes)] ==
            IF k = 0 THEN [o \in 0..(Window.w * Window.h - 1) |-> <<Junk>>]
            ELSE Painted(map[k - 1], RectangleStrokes(Window, Boxes[k]))
    IN  map

\* get_widgets_at of the window and of its parts: the innermost widget at a point.
Found(x, y) ==
    LET part == PartAt(Window, x, y)
        i == IndexFromPosition(x, y) + 1
    IN  IF part = 0 /\ Covers(TitleBar(Window), x, y) THEN Panels.title
        ELSE IF part = 1 /\ Covers(Frame(Window), x, y)
        THEN IF i \in DOMAIN children /\ Covers(children[i], x, y) THEN Panels.child[i]
             ELSE Panels.frame
        ELSE Panels.window

\* The rows of the title bar that PartAt counts to the frame.
LastTitleRows == (Extra + TitleH - WindowBorder)..(Extra + TitleH - 1)

\* In a window whose frame is a grid of equal cells that fill it without a remainder,
\* and for any sizes the children prefer, an event at a point is given to the
\* widget that is seen there; where a border is seen, to the one it is around.
\* The last rows of the title bar are excepted.
SeenIsFound ==
    TypeOK /\ (kind = "container" /\ EvenGrid /\ Len(children) <= Cols * Rows =>
        LET painted == WindowPainted[Len(Boxes)]
        IN  \A x \in 0..(Window.w - 1), y \in 0..(Window.h - 1) \ LastTitleRows :
                LET seen == Last(painted[y * Window.w + x]) IN
                \/ seen = Found(x, y)
                \/ seen = Panels.edge /\ Found(x, y) \in {Panels.window, Panels.frame})

-----------------------------------------------------------------------------
(* Shapes *)

Points == {<<x, y>> : x \in 0..(Bitmap.w - 1), y \in 0..(Bitmap.h - 1)}
Pixel(map, p) == map[Offset(Bitmap, p)]

\* Every pixel of the bitmap is what it was, with one more colour where `asked`.
PaintedAsAsked(asked(_)) ==
    /\ outcome = "done"
    /\ \A p \in Points : Pixel(px, p) = Blended(Pixel(before, p), asked(p))

\* A rectangle reaches as far as it was asked to, whatever of it is outside of
\* the bitmap; its border is around it; and no pixel is blended into twice.
RectangleAsAsked ==
    last.op = "rectangle" =>
        LET s == last.shape
            inside(p, t) == /\ p[1] \in (s.x - t)..(s.x + s.w + t - 1)
                            /\ p[2] \in (s.y - t)..(s.y + s.h + t - 1)
        IN  PaintedAsAsked(LAMBDA p :
                IF s.colour.alpha = 0 THEN <<>>
                ELSE IF inside(p, 0) THEN <<s.colour>>
                ELSE IF HasBorder(s) /\ inside(p, s.t) THEN <<s.edge>> ELSE <<>>)

\* A line between two points of the bitmap has a pixel in each column or in each
\* row between them, none further than half a pixel from it, both ends among them,
\* and each is painted once, as can be told where its colour is not there already.
\* One that is on one side of the bitmap is not there.
LineAsAsked ==
    last.op = "line" =>
        LET s == last.shape
            p == <<s.x, s.y>>
            q == <<s.x1, s.y1>>
            dx == s.x1 - s.x
            dy == s.y1 - s.y
            long == Max({Abs(dx), Abs(dy)})
            marked == {r \in Points : Pixel(px, r) # Pixel(before, r)}
            told == s.colour.alpha # 0 /\ \A r \in Points : Pixel(before, r) # <<s.colour>>
        IN  /\ p \in Points /\ q \in Points /\ told =>
                /\ PaintedAsAsked(LAMBDA r : IF r \in marked THEN <<s.colour>> ELSE <<>>)
                /\ {p, q} \subseteq marked /\ Cardinality(marked) = long + 1
                /\ \A r \in marked : 2 * Abs((r[1] - s.x) * dy - (r[2] - s.y) * dx) <= long
            /\ Beyond(Bitmap, p) \cap Beyond(Bitmap, q) # {} =>
                PaintedAsAsked(LAMBDA r : <<>>)

\* An ellipse whose middle is in the bitmap has the pixels of its equation, as far
\* as they are in the bitmap, and its border those of the equation of the larger
\* one, each painted once.  (A negative border takes rows of it away.)
EllipseAsAsked ==
    last.op = "ellipse" =>
        LET s == last.shape
            a == s.w \div 2
            h == s.h \div 2
            middle == s.x + a
            across(p) == IF p[1] >= middle THEN p[1] - middle ELSE middle - 1 - p[1]
            down(p) == p[2] - s.y - h
            square(n) == n * n
            within(p, r, t) == square(across(p) * t) + square(down(p) * r) < square(r * t)
        IN  s.w >= 0 /\ h > 0 /\ s.t >= 0 /\ middle \in 0..Bitmap.w =>
                PaintedAsAsked(LAMBDA p :
                    IF s.colour.alpha = 0 THEN <<>>
                    ELSE IF within(p, a, h) THEN <<s.colour>>
                    ELSE IF HasBorder(s) /\ within(p, a + s.t, h + s.t) THEN <<s.edge>>
                    ELSE <<>>)

\* Of a picture that part is shown that was given room and that is in the bitmap,
\* each pixel in its place, and nothing beside it changes.
ShownIsData ==
    last.op = "show" =>
        PaintedAsAsked(LAMBDA p :
            LET u == p[1] - last.x
                v == p[2] - last.y
            IN  IF u \in 0..(Min({last.w, Data.w}) - 1) /\ v \in 0..(Min({last.h, Data.h}) - 1)
                THEN Data.px[v * Data.w + u] ELSE <<>>)

-----------------------------------------------------------------------------
(* Text *)

\* A word is a longest part of a text without breakpoints.
Words(str) ==
    {w \in (DOMAIN str) \X (DOMAIN str) :
        /\ w[1] <= w[2] /\ \A i \in w[1]..w[2] : ~str[i].breaks
        /\ w[1] = 1 \/ str[w[1] - 1].breaks
        /\ w[2] = Len(str) \/ str[w[2] + 1].breaks}

Widths(str) == Sums([i \in DOMAIN str |-> str[i].advance])
Width(str, from, to) == Widths(str)[to] - Widths(str)[from - 1]

\* In a text that can be loaded every character that is printable and no space is
\* printed once, in the order of reading; in its line, if there is room for it at
\* all; after a newline in a later line; and a word is not broken if it would fit in
\* a line with the breakpoint before it.
WordsWhole ==
    last.op = "text" /\ (\A i \in DOMAIN last.str : last.str[i].loads) =>
        LET str == last.str
            printed == pen.printed
            wraps == last.limit # 0
        IN  /\ outcome = "done"
            /\ \A i \in DOMAIN str : str[i].prints /\ ~str[i].space =>
                \E k \in DOMAIN printed : printed[k].i = i
            /\ \A k \in DOMAIN printed : k > 1 =>
                LET this == printed[k]
                    prev == printed[k - 1]
                IN  /\ prev.i < this.i
                    /\ \/ this.row = prev.row /\ this.x = prev.x + str[prev.i].advance
                       \/ this.row > prev.row /\ this.x = 0
                    /\ wraps /\ (\E i \in prev.i..this.i : str[i].newline) => this.row > prev.row
            /\ \A k \in DOMAIN printed : wraps =>
                printed[k].x = 0 \/ printed[k].x + str[printed[k].i].advance < last.limit
            /\ \A w \in Words(str) : wraps /\ Width(str, Max({w[1] - 1, 1}), w[2]) < last.limit =>
                \A j, k \in DOMAIN printed : {printed[j].i, printed[k].i} \subseteq w[1]..w[2] =>
                    printed[j].row = printed[k].row

=============================================================================
