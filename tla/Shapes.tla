-------------------------------- MODULE Shapes --------------------------------
(***************************************************************************)
(* shape/Rectangle.cpp, shape/Line.cpp, shape/Ellipse.cpp and the clipping *)
(* of bitmap/Bitmap.cpp: which pixels of a bitmap are written, how often   *)
(* and in which order.                                                     *)
(*                                                                         *)
(* A bitmap b is b.w by b.h, and its pixel (x, y) is at y * b.w + x of the *)
(* map: no other check keeps a coordinate in its row, or in the map.  A    *)
(* colour has an alpha of 0, 255 or something between.  Of a pixel we keep *)
(* what was blended into it since an opaque colour was, or nothing.        *)
(***************************************************************************)
EXTENDS Integers, Sequences, SequencesExt, FiniteSetsExt

\* A colour written to each of a set of offsets.
Stroke(at, colour) == [at |-> at, colour |-> colour]

\* Colour::src_over and the cases before it: a pixel on which nothing is to be
\* seen is replaced, and so is every pixel by an opaque colour.
Over(pixel, colour) ==
    IF colour.alpha = 255 THEN <<colour>> ELSE Append(pixel, colour)

\* The pixel at o after each of the strokes.
Coats(pixel, strokes, o) ==
    LET coat[k \in 0..Len(strokes)] ==
            IF k = 0 THEN pixel
            ELSE IF o \in strokes[k].at THEN Over(coat[k - 1], strokes[k].colour)
            ELSE coat[k - 1]
    IN  coat

Painted(px, strokes) == [o \in DOMAIN px |-> Coats(px[o], strokes, o)[Len(strokes)]]

\* A pixel and what is to be blended into it: a colour or nothing.
Blended(pixel, seen) == IF seen = <<>> THEN pixel ELSE Over(pixel, seen[1])

\* Written, and before that perhaps read, outside of the map.
Wild(px, strokes) == \E i \in DOMAIN strokes : ~(strokes[i].at \subseteq DOMAIN px)

Cut(v, limit) == Min({Max({v, 0}), limit})

Abs(n) == IF n < 0 THEN -n ELSE n
Sign(p, q) == IF p < q THEN 1 ELSE -1

\* C's division, and what it can yield: by zero it ends the process.
Quot(p, q) == LET m == Abs(p) \div Abs(q) IN IF (p < 0) = (q < 0) THEN m ELSE -m
Quots(p, q) == IF q = 0 THEN {} ELSE {Quot(p, q)}

-----------------------------------------------------------------------------
(* Rectangle::paint *)

\* What is in the bitmap of a shape with t more on each side.
Bounds(b, s, t) == [x0 |-> Cut(s.x - t, b.w), x1 |-> Cut(s.x + s.w + t, b.w),
                    y0 |-> Cut(s.y - t, b.h), y1 |-> Cut(s.y + s.h + t, b.h)]

Area(b, x0, y0, x1, y1) == {y * b.w + x : x \in x0..(x1 - 1), y \in y0..(y1 - 1)}

\* Mutant of BorderStrokes: the sides are as high as the border, so that the
\* corners are painted twice.
BorderStrokesCorners(b, s) ==
    LET in == Bounds(b, s, 0)
        out == Bounds(b, s, s.t)
    IN  <<Stroke(Area(b, out.x0, out.y0, out.x1, in.y0), s.edge),
          Stroke(Area(b, out.x0, out.y0, in.x0, out.y1), s.edge),
          Stroke(Area(b, in.x1, out.y0, out.x1, out.y1), s.edge),
          Stroke(Area(b, out.x0, in.y1, out.x1, out.y1), s.edge)>>

\* Top, left, right and bottom.
BorderStrokes(b, s) ==
    LET in == Bounds(b, s, 0)
        out == Bounds(b, s, s.t)
    IN  <<Stroke(Area(b, out.x0, out.y0, out.x1, in.y0), s.edge),
          Stroke(Area(b, out.x0, in.y0, in.x0, in.y1), s.edge),
          Stroke(Area(b, in.x1, in.y0, out.x1, in.y1), s.edge),
          Stroke(Area(b, out.x0, in.y1, out.x1, out.y1), s.edge)>>

HasBorder(s) == s.t > 0 /\ s.edge.alpha > 0

RectangleStrokes(b, s) ==
    LET in == Bounds(b, s, 0)
        inside == <<Stroke(Area(b, in.x0, in.y0, in.x1, in.y1), s.colour)>>
    IN  IF s.colour.alpha = 0 THEN <<>>
        ELSE IF HasBorder(s) THEN inside \o BorderStrokes(b, s) ELSE inside

-----------------------------------------------------------------------------
(* Line::paint.  Ends of lines are pairs. *)

\* Line::classify_point: the sides of the bitmap a point is beyond.
Beyond(b, p) ==
    {side \in {"left", "right", "above", "below"} :
        CASE side = "left"  -> p[1] < 0
          [] side = "right" -> p[1] >= b.w
          [] side = "above" -> p[2] < 0
          [] side = "below" -> p[2] >= b.h}

\* Line::intersect: an end p of a line to q is moved to the side that it is
\* beyond, first up or down and from there to the left or the right.
MovedInY(b, p, q) ==
    IF p[2] >= b.h
    THEN {<<p[1] + d, b.h>> : d \in Quots((q[1] - p[1]) * (b.h - 1 - p[2]), q[2] - p[2])}
    ELSE IF p[2] < 0
    THEN {<<p[1] + d, 0>> : d \in Quots((q[1] - p[1]) * (-p[2]), q[2] - p[2])}
    ELSE {p}

MovedInX(b, p, q) ==
    IF p[1] >= b.w
    THEN {<<b.w, p[2] + d>> : d \in Quots((q[2] - p[2]) * (b.w - 1 - p[1]), q[1] - p[1])}
    ELSE IF p[1] < 0
    THEN {<<0, p[2] + d>> : d \in Quots((q[2] - p[2]) * (-p[1]), q[1] - p[1])}
    ELSE {p}

Intersect(b, p, q) == UNION {MovedInX(b, r, q) : r \in MovedInY(b, p, q)}

\* The second end is moved towards the first one as it is by then.
ClippedEnds(b, p, q) ==
    UNION {{<<r, s>> : s \in Intersect(b, q, r)} : r \in Intersect(b, p, q)}

\* Mutant of CourseStep: the error is not corrected by a step to the side.
CourseStepUncorrected(p, q, s) ==
    LET dx == Abs(q[1] - p[1])
        dy == -Abs(q[2] - p[2])
    IN  [x |-> IF 2 * s.e >= dy THEN s.x + Sign(p[1], q[1]) ELSE s.x,
         y |-> IF 2 * s.e <= dx THEN s.y + Sign(p[2], q[2]) ELSE s.y,
         e |-> s.e + (IF 2 * s.e <= dx THEN dx ELSE 0)]

\* One step of Bresenham's algorithm on the way from p to q.
CourseStep(p, q, s) ==
    LET dx == Abs(q[1] - p[1])
        dy == -Abs(q[2] - p[2])
    IN  [x |-> IF 2 * s.e >= dy THEN s.x + Sign(p[1], q[1]) ELSE s.x,
         y |-> IF 2 * s.e <= dx THEN s.y + Sign(p[2], q[2]) ELSE s.y,
         e |-> s.e + (IF 2 * s.e >= dy THEN dy ELSE 0) + (IF 2 * s.e <= dx THEN dx ELSE 0)]

\* It ends when it is at q, which takes no more steps than rows and columns.
CourseSteps(p, q) ==
    LET dx == Abs(q[1] - p[1])
        dy == -Abs(q[2] - p[2])
        at[k \in 0..(dx - dy)] == IF k = 0 THEN [x |-> p[1], y |-> p[2], e |-> dx + dy]
                                  ELSE CourseStep(p, q, at[k - 1])
    IN  at

Course(p, q) ==
    LET at == CourseSteps(p, q)
        arrived == {k \in DOMAIN at : <<at[k].x, at[k].y>> = q}
        last == IF arrived = {} THEN Abs(q[1] - p[1]) + Abs(q[2] - p[2]) ELSE Min(arrived)
    IN  [k \in 1..(last + 1) |-> <<at[k - 1].x, at[k - 1].y>>]

Offset(b, p) == p[2] * b.w + p[1]

StraightStrokes(b, p, q, colour) ==
    LET ends == {Offset(b, p), Offset(b, q)}
        step == IF p[2] = q[2] THEN 1 ELSE b.w
    IN  <<Stroke({o \in Min(ends)..Max(ends) : (o - Min(ends)) % step = 0}, colour)>>

\* The ways a line can be painted: one, or none when a division by zero ends it.
LineStrokes(b, s) ==
    LET p == <<s.x, s.y>>
        q == <<s.x1, s.y1>>
    IN  IF s.colour.alpha = 0 \/ Beyond(b, p) \cap Beyond(b, q) # {} THEN {<<>>}
        ELSE {IF r[1][1] = r[2][1] \/ r[1][2] = r[2][2]
              THEN StraightStrokes(b, r[1], r[2], s.colour)
              ELSE LET course == Course(r[1], r[2])
                   IN  [k \in DOMAIN course |-> Stroke({Offset(b, course[k])}, s.colour)]
              : r \in ClippedEnds(b, p, q)}

-----------------------------------------------------------------------------
(* Ellipse::paint *)

\* Mutant of Reach: the pixel that is on the limit is painted too.
ReachClosed(limit, room) == Cardinality({k \in 0..(room - 1) : k * k <= limit})

\* How far a loop from the centre comes that ends at `limit`, a square, and
\* when there is no `room` left.
Reach(limit, room) == Cardinality({k \in 0..(room - 1) : k * k < limit})

\* A row is painted from the middle to the left, the other way, and on to the border.
EllipseRow(b, s, y) ==
    LET a == Quot(s.w, 2)   c == a + s.t   middle == s.x + a
        h == Quot(s.h, 2)   d == h + s.t   dy == y - h - s.y
        limit == a * a - Quot(a * a * dy * dy, h * h)
        rim == c * c - Quot(c * c * dy * dy, d * d)
        left == Reach(limit, middle)
        right == Reach(limit, b.w - middle)
        at(u) == y * b.w + u
    IN  <<Stroke({at(middle - k - 1) : k \in 0..(left - 1)}, s.colour),
          Stroke({at(middle + k) : k \in 0..(right - 1)}, s.colour)>>
        \o IF ~HasBorder(s) THEN <<>>
           ELSE <<Stroke({at(middle - k - 1) : k \in left..(Reach(rim, middle) - 1)}, s.edge),
                  Stroke({at(middle + k) : k \in right..(Reach(rim, b.w - middle) - 1)}, s.edge)>>

EllipseStrokes(b, s) ==
    LET out == Bounds(b, s, s.t)
        h == Quot(s.h, 2)
    IN  IF s.colour.alpha = 0 \/ out.y0 >= out.y1 THEN {<<>>}
        ELSE IF h = 0 \/ h + s.t = 0 THEN {}
        ELSE LET parts == IF HasBorder(s) THEN 4 ELSE 2
             IN  {[k \in 1..(parts * (out.y1 - out.y0)) |->
                     EllipseRow(b, s, out.y0 + ((k - 1) \div parts))[((k - 1) % parts) + 1]]}

-----------------------------------------------------------------------------
(* Bitmap::composite with BlendMode::SRC_OVER *)

\* Mutant of Skipped: a picture that begins outside is shown from its beginning.
SkippedNot(v, limit) == 0

\* What of a source that begins at v is not in the bitmap.
Skipped(v, limit) == Cut(v, limit) - v

\* The part of a bitmap `from` that is w by h is blended into the one of px at
\* (x, y), as far as it lies in it.
Composited(px, b, from, x, y, w, h) ==
    LET cw == Min({w - Skipped(x, b.w), b.w - Cut(x, b.w)})
        ch == Min({h - Skipped(y, b.h), b.h - Cut(y, b.h)})
        source(i, j) == IF i \in 0..(cw - 1) /\ j \in 0..(ch - 1)
                        THEN from.px[(Skipped(y, b.h) + j) * from.w + Skipped(x, b.w) + i]
                        ELSE <<>>
    IN  [o \in DOMAIN px |->
            Blended(px[o], source((o % b.w) - Cut(x, b.w), (o \div b.w) - Cut(y, b.h)))]

=============================================================================
