------------------------------ MODULE GridLayout ------------------------------
(***************************************************************************)
(* gui/GridLayout.cpp: placing the children of a container in the cells of *)
(* a grid, one after the other (Container::layout), and telling from a     *)
(* position in the container which child is there (index_from_position).   *)
(* All divisions are of natural numbers, so \div is C's.                   *)
(***************************************************************************)
EXTENDS Integers, Sequences, SequencesExt, FiniteSetsExt

CONSTANTS
    ParentX, ParentY,   \* the position of the container
    Size,       \* widths and heights of the container
    Prop,       \* proportions of a column or row (uint8_t)
    MaxLines,   \* bound on the columns, and on the rows
    Padding,    \* paddings of the container
    Edge,       \* borders and margins of a child
    Preferred,  \* preferred widths and heights of a child; -1 for none
    MaxChildren \* bound on the children placed

ASSUME GridAssumption ==
    /\ ParentX \in Nat /\ ParentY \in Nat
    /\ Size \subseteq Nat /\ Prop \subseteq 0..255 /\ MaxLines \in Nat \ {0}
    /\ Padding \subseteq Nat /\ Edge \subseteq [border : Nat, margin : Nat]
    /\ Preferred \subseteq Nat \cup {-1} /\ MaxChildren \in Nat

VARIABLES
    pw, ph, padding,        \* the container
    xProps, yProps,         \* x_props, y_props
    regular,                \* made from numbers of columns and rows
    nextCol, nextRow,       \* next_col, next_row
    nextX, nextY,           \* next_x, next_y
    children,               \* the children: position, size and border
    thrown                  \* set_full_size() has thrown GUIException
grid == <<pw, ph, padding, xProps, yProps, regular>>
next == <<nextCol, nextRow, nextX, nextY>>
vars == <<grid, next, children, thrown>>

Cols == Len(xProps)
Rows == Len(yProps)

\* What the first proportions add up to.
Sums(props) == LET sum[n \in 0..Len(props)] == IF n = 0 THEN 0 ELSE sum[n - 1] + props[n]
               IN  sum
Total(props) == Sums(props)[Len(props)]

\* The sum is kept in a uint8_t when proportions are given.
SumProps(props) == IF regular THEN Total(props) ELSE Total(props) % 256

PropSeqs == UNION {[1..n -> Prop] : n \in 1..MaxLines}
Ones(n) == [i \in 1..n |-> 1]

\* Proportions that add up to 0 (mod 256) divide by zero in place(), and so do
\* numbers of columns or rows that are 0; negative ones throw in the constructor.
Init ==
    /\ pw \in Size /\ ph \in Size /\ padding \in Padding
    /\ \/ regular = TRUE /\ \E c, r \in 1..MaxLines : xProps = Ones(c) /\ yProps = Ones(r)
       \/ regular = FALSE /\ xProps \in PropSeqs /\ yProps \in PropSeqs
    /\ SumProps(xProps) # 0 /\ SumProps(yProps) # 0
    /\ nextCol = 0 /\ nextRow = 0 /\ nextX = 0 /\ nextY = 0
    /\ children = <<>> /\ thrown = FALSE

CellW == (pw * xProps[nextCol + 1]) \div SumProps(xProps)
CellH == (ph * yProps[nextRow + 1]) \div SumProps(yProps)

\* A cell loses the padding on the outer sides of the grid.
PaddedW == IF nextCol \in {0, Cols - 1} THEN CellW - padding ELSE CellW
PaddedH == IF nextRow \in {0, Rows - 1} THEN CellH - padding ELSE CellH

\* Mutant of Fit: a child gets what it prefers.
FitPreferred(padded, preferred, extra) ==
    IF preferred < 0 THEN padded ELSE preferred + 2 * extra

Fit(padded, preferred, extra) ==
    IF preferred < 0 THEN padded ELSE Min({padded, preferred + 2 * extra})

\* Widget::set_full_size: not even the border and the margin fit.
TooSmall(w, h, extra) == w < 2 * extra \/ h < 2 * extra

\* "Prepare for next cell".
NextCell ==
    /\ nextCol' = (nextCol + 1) % Cols
    /\ nextX' = (IF nextX + CellW >= pw THEN 0 ELSE nextX + CellW)
    /\ IF nextCol' = 0
       THEN /\ nextY' = (IF nextY + CellH >= ph THEN 0 ELSE nextY + CellH)
            /\ nextRow' = (nextCol' + 1) % Rows
       ELSE UNCHANGED <<nextY, nextRow>>

\* place(), for a child with a border and a margin that would like to be prefW
\* by prefH.
Place(edge, prefW, prefH) ==
    /\ ~thrown /\ Len(children) < MaxChildren
    /\ LET extra == edge.border + edge.margin
           w == Fit(PaddedW, prefW, extra)
           h == Fit(PaddedH, prefH, extra)
           x == ParentX + nextX + (PaddedW - w) \div 2 + (IF nextCol = 0 THEN padding ELSE 0) + extra
           y == ParentY + nextY + (PaddedH - h) \div 2 + (IF nextRow = 0 THEN padding ELSE 0) + extra
       IN IF TooSmall(w, h, extra)
          THEN thrown' = TRUE /\ UNCHANGED <<next, children>>
          ELSE /\ children' = Append(children, [x |-> x, y |-> y, w |-> w - 2 * extra,
                                                h |-> h - 2 * extra, border |-> edge.border])
               /\ NextCell
               /\ UNCHANGED thrown
    /\ UNCHANGED grid

Next == \E edge \in Edge, prefW, prefH \in Preferred : Place(edge, prefW, prefH)

Spec == Init /\ [][Next]_vars

-----------------------------------------------------------------------------
(* From a position to a child *)

\* Widths are added up until the target is reached.
Reached(props, extent, n) ==
    LET width(i) == (extent * props[i]) \div SumProps(props)
    IN  FoldSeq(LAMBDA i, sum : sum + width(i), 0, [i \in 1..n |-> i])

Line(props, extent, at) ==
    LET stop == Min({n \in 0..Len(props) : n = Len(props) \/ Reached(props, extent, n) >= at})
    IN  IF at <= Reached(props, extent, stop) THEN stop - 1 ELSE stop

\* Mutant of IndexFromPosition: rows and columns are exchanged.
IndexFromPositionSwapped(atX, atY) ==
    LET x == atX - (ParentX + padding)
        y == atY - (ParentY + padding)
        w == pw - 2 * padding
        h == ph - 2 * padding
    IN  IF x < 0 \/ y < 0 \/ x >= w \/ y >= h THEN -1
        ELSE IF regular
        THEN ((y * Rows) \div h) + ((x * Cols) \div w) * Rows
        ELSE Line(yProps, h, y) * Cols + Line(xProps, w, x)

IndexFromPosition(atX, atY) ==
    LET x == atX - (ParentX + padding)
        y == atY - (ParentY + padding)
        w == pw - 2 * padding
        h == ph - 2 * padding
    IN  IF x < 0 \/ y < 0 \/ x >= w \/ y >= h THEN -1
        ELSE IF regular
        THEN ((y * Rows) \div h) * Cols + ((x * Cols) \div w)
        ELSE Line(yProps, h, y) * Cols + Line(xProps, w, x)

-----------------------------------------------------------------------------
(* Properties *)

TypeOK ==
    /\ nextCol \in 0..(Cols - 1) /\ nextRow \in 0..(Rows - 1)
    /\ nextX \in Nat /\ nextY \in Nat
    /\ \A i \in DOMAIN children : children[i] \in [x : Int, y : Int, w : Nat, h : Nat, border : Nat]
    /\ thrown \in BOOLEAN

Covers(child, x, y) ==
    /\ x \in child.x..(child.x + child.w - 1)
    /\ y \in child.y..(child.y + child.h - 1)

\* The case the code was written for: equal cells, no padding, and a container
\* that they fill without a remainder.
EvenGrid == regular /\ padding = 0 /\ pw % Cols = 0 /\ ph % Rows = 0

\* In any grid whose proportions add up to what a uint8_t holds, children neither
\* overlap nor leave the container, for as long as there is room: the first row of
\* cells.  A proportion of 0 makes a child of no width, which is put where the next
\* one is, or where the first one is.
FirstRowApart ==
    Total(xProps) = SumProps(xProps) =>
        \A j \in DOMAIN children : j <= Cols =>
            /\ ParentX <= children[j].x /\ children[j].x + children[j].w <= ParentX + pw
            /\ \A i \in DOMAIN children : i < j =>
                \/ children[i].w = 0 \/ children[j].w = 0
                \/ children[i].x + children[i].w <= children[j].x

=============================================================================
