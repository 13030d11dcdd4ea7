--------------------------- MODULE PaintingProofs ---------------------------
(***************************************************************************)
(* Proofs about Painting, for bitmaps, panels, windows and texts of any    *)
(* size, any shapes, any pictures and any shares of a grid that the types  *)
(* of the code can hold.                                                   *)
(***************************************************************************)
EXTENDS Painting, FiniteSetTheorems, SequenceTheorems, WellFoundedInduction, TLAPS

-----------------------------------------------------------------------------
(* Recursion and sequences *)

\* Induction over the numbers, for a set of them.
LEMMA SetInduction ==
    ASSUME NEW S, 0 \in S, \A n \in Nat : n \in S => n + 1 \in S
    PROVE  Nat \subseteq S
  <1> DEFINE R == OpToRel(<, Nat)
             T == Nat \ S
  <1>1. SUFFICES ASSUME T # {} PROVE FALSE
    OBVIOUS
  <1>2. IsWellFoundedOn(R, Nat)
    BY NatLessThanWellFounded
  <1>3. PICK x \in T : \A y \in T : <<y, x>> \notin R
    <2>1. T \subseteq Nat
      OBVIOUS
    <2> HIDE DEF R, T
    <2> QED
      BY <1>1, <1>2, <2>1, WFMin
  <1>4. ASSUME NEW m \in Nat, NEW n \in Nat, m < n PROVE <<m, n>> \in R
    BY <1>4 DEF OpToRel
  <1> HIDE DEF R
  <1>5. x \in Nat /\ x \notin S /\ x # 0
    OBVIOUS
  <1>6. x - 1 \in Nat /\ x - 1 < x
    BY <1>5
  <1>7. x - 1 \in S
    BY <1>3, <1>4, <1>5, <1>6
  <1> QED
    BY <1>5, <1>6, <1>7

\* A function on 1..n is a sequence of length n.
LEMMA LenIs ==
    ASSUME NEW n \in Nat, NEW f, f = [i \in 1..n |-> f[i]]
    PROVE  Len(f) = n /\ DOMAIN f = 1..n
  <1>1. f \in [1..n -> {f[i] : i \in 1..n}]
    OBVIOUS
  <1>2. f \in Seq({f[i] : i \in 1..n})
    BY <1>1
  <1> QED
    BY <1>1, <1>2

-----------------------------------------------------------------------------
(* What strokes do to a pixel *)

\* The recursion in Coats has a solution, and it is that one.
LEMMA CoatsIs ==
    ASSUME NEW pixel, NEW strokes, NEW o, Len(strokes) \in Nat
    PROVE  LET c == Coats(pixel, strokes, o)
           IN  /\ c[0] = pixel
               /\ \A k \in 1..Len(strokes) :
                    c[k] = IF o \in strokes[k].at THEN Over(c[k-1], strokes[k].colour) ELSE c[k-1]
  <1> DEFINE n == Len(strokes)
             Coat(f, k) == IF k = 0 THEN pixel
                           ELSE IF o \in strokes[k].at THEN Over(f[k-1], strokes[k].colour)
                           ELSE f[k-1]
             P(f, m) == f = [k \in 0..m |-> Coat(f, k)]
             I == {m \in Nat : \E f : P(f, m)}
  <1>1. 0 \in I
    <2>1. P([k \in 0..0 |-> pixel], 0)
      OBVIOUS
    <2> QED
      BY <2>1
  <1>2. ASSUME NEW m \in Nat, m \in I PROVE m + 1 \in I
    <2>1. PICK f : P(f, m)
      BY <1>2
    <2> DEFINE new == Coat(f, m + 1)
               g == [k \in 0..(m+1) |-> IF k = m + 1 THEN new ELSE f[k]]
    <2> HIDE DEF new
    <2>2. ASSUME NEW k \in 0..(m+1) PROVE g[k] = Coat(g, k)
      <3>1. CASE k = m + 1
        <4>1. g[m] = f[m] /\ (m + 1) - 1 = m /\ m + 1 # 0 /\ g[m + 1] = new
          OBVIOUS
        <4> HIDE DEF g
        <4> QED
          BY <3>1, <4>1 DEF new
      <3>2. CASE k = 0
        BY <2>1, <3>2
      <3>3. CASE k \in 1..m
        <4>1. k - 1 \in 0..m /\ g[k] = f[k] /\ g[k-1] = f[k-1] /\ k # 0
          BY <3>3
        <4>2. f[k] = Coat(f, k)
          BY <2>1, <3>3
        <4> HIDE DEF g
        <4> QED
          BY <4>1, <4>2
      <3> QED
        BY <3>1, <3>2, <3>3
    <2>3. g = [k \in 0..(m+1) |-> g[k]]
      OBVIOUS
    <2>4. P(g, m + 1)
      <3> HIDE DEF g
      <3> QED
        BY <2>2, <2>3
    <2> HIDE DEF g, P
    <2> QED
      BY <2>4
  <1> HIDE DEF I
  <1>3. n \in I
    BY <1>1, <1>2, SetInduction
  <1>4. PICK f : P(f, n)
    BY <1>3 DEF I
  <1>5. P(Coats(pixel, strokes, o), n)
    <2>1. Coats(pixel, strokes, o) = CHOOSE h : P(h, n)
      BY DEF Coats
    <2> HIDE DEF P
    <2> QED
      BY <1>4, <2>1
  <1> HIDE DEF n
  <1>6. Coats(pixel, strokes, o)[0] = pixel
    BY <1>5 DEF n
  <1>7. ASSUME NEW k \in 1..n
        PROVE  Coats(pixel, strokes, o)[k]
                    = IF o \in strokes[k].at
                      THEN Over(Coats(pixel, strokes, o)[k-1], strokes[k].colour)
                      ELSE Coats(pixel, strokes, o)[k-1]
    <2>1. k \in 0..n /\ k # 0
      BY DEF n
    <2> QED
      BY <1>5, <2>1
  <1> QED
    BY <1>6, <1>7 DEF n

\* A pixel that no stroke covers stays as it is.
LEMMA PixelNone ==
    ASSUME NEW pixel, NEW strokes, NEW o, Len(strokes) \in Nat,
           \A k \in 1..Len(strokes) : o \notin strokes[k].at
    PROVE  Coats(pixel, strokes, o)[Len(strokes)] = pixel
  <1> DEFINE c == Coats(pixel, strokes, o)
             I == {m \in Nat : m <= Len(strokes) => c[m] = pixel}
  <1>1. c[0] = pixel /\ \A k \in 1..Len(strokes) : c[k] = c[k-1]
    BY CoatsIs
  <1> HIDE DEF c
  <1>2. 0 \in I
    BY <1>1
  <1>3. ASSUME NEW m \in Nat, m \in I PROVE m + 1 \in I
    <2> SUFFICES ASSUME m + 1 <= Len(strokes) PROVE c[m + 1] = pixel
      OBVIOUS
    <2>1. m + 1 \in 1..Len(strokes) /\ (m + 1) - 1 = m
      OBVIOUS
    <2> QED
      BY <1>1, <1>3, <2>1
  <1> HIDE DEF I
  <1>4. Len(strokes) \in I
    BY <1>2, <1>3, SetInduction
  <1> QED
    BY <1>4 DEF I, c

\* One that just one stroke covers is painted once.
LEMMA PixelOnce ==
    ASSUME NEW pixel, NEW strokes, NEW o, Len(strokes) \in Nat,
           NEW one \in 1..Len(strokes), o \in strokes[one].at,
           \A k \in 1..Len(strokes) : k # one => o \notin strokes[k].at
    PROVE  Coats(pixel, strokes, o)[Len(strokes)] = Over(pixel, strokes[one].colour)
  <1> DEFINE c == Coats(pixel, strokes, o)
             I == {m \in Nat : m <= Len(strokes) =>
                        c[m] = IF m < one THEN pixel ELSE Over(pixel, strokes[one].colour)}
  <1>1. /\ c[0] = pixel
        /\ \A k \in 1..Len(strokes) :
             c[k] = IF o \in strokes[k].at THEN Over(c[k-1], strokes[k].colour) ELSE c[k-1]
    BY CoatsIs
  <1> HIDE DEF c
  <1>2. 0 \in I
    BY <1>1
  <1>3. ASSUME NEW m \in Nat, m \in I PROVE m + 1 \in I
    <2> SUFFICES ASSUME m + 1 <= Len(strokes)
                 PROVE  c[m + 1] = IF m + 1 < one THEN pixel
                                   ELSE Over(pixel, strokes[one].colour)
      OBVIOUS
    <2>1. m + 1 \in 1..Len(strokes) /\ (m + 1) - 1 = m
      OBVIOUS
    <2>2. c[m] = IF m < one THEN pixel ELSE Over(pixel, strokes[one].colour)
      BY <1>3
    <2>3. c[m + 1] = IF o \in strokes[m + 1].at THEN Over(c[m], strokes[m + 1].colour)
                     ELSE c[m]
      BY <1>1, <2>1
    <2>4. CASE m + 1 = one
      <3>1. m < one
        BY <2>4
      <3> QED
        BY <2>2, <2>3, <2>4, <3>1
    <2>5. CASE m + 1 # one
      <3>1. o \notin strokes[m + 1].at /\ (m < one <=> m + 1 < one)
        BY <2>1, <2>5
      <3> QED
        BY <2>2, <2>3, <3>1
    <2> QED
      BY <2>4, <2>5
  <1> HIDE DEF I
  <1>4. Len(strokes) \in I
    BY <1>2, <1>3, SetInduction
  <1> QED
    BY <1>4 DEF I, c

-----------------------------------------------------------------------------
(* Rows and columns *)

\* A pixel is at one place only.
LEMMA PlaceIs ==
    ASSUME NEW w \in Nat \ {0}, NEW x \in 0..(w - 1), NEW u \in 0..(w - 1),
           NEW y \in Int, NEW v \in Int, y * w + x = v * w + u
    PROVE  x = u /\ y = v
  <1>1. (v - y) * w = x - u /\ (y - v) * w = u - x
    OBVIOUS
  <1>2. \A d \in Nat \ {0} : d * w >= w
    OBVIOUS
  <1>3. ~(y < v) /\ ~(v < y)
    BY <1>1, <1>2
  <1> QED
    BY <1>3

\* Division undoes what Offset does.
LEMMA DivisionIs ==
    ASSUME NEW w \in Nat \ {0}, NEW x \in 0..(w - 1), NEW y \in Int
    PROVE  (y * w + x) % w = x /\ (y * w + x) \div w = y
  <1> DEFINE o == y * w + x
             q == o \div w
             r == o % w
  <1>1. o \in Int /\ q \in Int /\ r \in 0..(w - 1) /\ o = q * w + r
    OBVIOUS
  <1> HIDE DEF q, r
  <1>2. y * w + x = q * w + r
    BY <1>1
  <1>3. x = r /\ y = q
    BY <1>1, <1>2, PlaceIs
  <1> QED
    BY <1>3 DEF q, r

\* A number is so many times another one, and a rest.
LEMMA EuclidIs ==
    ASSUME NEW w \in Nat \ {0}, NEW t \in Int
    PROVE  t \div w \in Int /\ t = (t \div w) * w + (t % w)
  <1> DEFINE q == t \div w
             r == t % w
  <1>1. q \in Int /\ r \in 0..(w - 1) /\ t = q * w + r
    OBVIOUS
  <1> QED
    BY <1>1

\* A row of the bitmap is in its map as far as it is in the bitmap.
LEMMA PlaceInMap ==
    ASSUME NEW w \in Nat \ {0}, NEW h \in Nat, NEW x \in 0..(w - 1), NEW y \in 0..(h - 1)
    PROVE  y * w + x \in 0..(w * h - 1)
  <1>1. \A d \in Nat : d * w \in Nat
    OBVIOUS
  <1>2. (h - 1 - y) * w >= 0 /\ y * w >= 0
    BY <1>1
  <1>3. (h - 1 - y) * w = w * h - w - y * w
    OBVIOUS
  <1>4. y * w \in Int /\ w * h \in Int
    OBVIOUS
  <1> QED
    BY <1>2, <1>3, <1>4

\* The smaller and the larger of two numbers.
LEMMA MinIs == \A a, b \in Int : Min({a, b}) = IF a <= b THEN a ELSE b
  <1> SUFFICES ASSUME NEW a \in Int, NEW b \in Int
               PROVE  Min({a, b}) = IF a <= b THEN a ELSE b
    OBVIOUS
  <1> DEFINE c == IF a <= b THEN a ELSE b
  <1>1. c \in {a, b} /\ \A y \in {a, b} : c <= y
    OBVIOUS
  <1>2. \A x \in {a, b} : (\A y \in {a, b} : x <= y) => x = c
    BY <1>1
  <1> HIDE DEF c
  <1>3. Min({a, b}) = c
    BY <1>1, <1>2 DEF Min
  <1> QED
    BY <1>3 DEF c

LEMMA MaxIs == \A a, b \in Int : Max({a, b}) = IF a >= b THEN a ELSE b
  <1> SUFFICES ASSUME NEW a \in Int, NEW b \in Int
               PROVE  Max({a, b}) = IF a >= b THEN a ELSE b
    OBVIOUS
  <1> DEFINE c == IF a >= b THEN a ELSE b
  <1>1. c \in {a, b} /\ \A y \in {a, b} : c >= y
    OBVIOUS
  <1>2. \A x \in {a, b} : (\A y \in {a, b} : x >= y) => x = c
    BY <1>1
  <1> HIDE DEF c
  <1>3. Max({a, b}) = c
    BY <1>1, <1>2 DEF Max
  <1> QED
    BY <1>3 DEF c

\* A coordinate that is cut is moved to the side it is beyond.
LEMMA CutIs ==
    ASSUME NEW v \in Int, NEW limit \in Nat
    PROVE  Cut(v, limit) = IF v <= 0 THEN 0 ELSE IF v <= limit THEN v ELSE limit
  <1>1. Max({v, 0}) = IF v >= 0 THEN v ELSE 0
    BY MaxIs
  <1>2. Max({v, 0}) \in Int
    BY <1>1
  <1>3. Cut(v, limit) = IF Max({v, 0}) <= limit THEN Max({v, 0}) ELSE limit
    BY <1>2, MinIs DEF Cut
  <1> QED
    BY <1>1, <1>3

-----------------------------------------------------------------------------
(* What is on a canvas, a picture and a label after a request *)

Offsets == 0..(Bitmap.w * Bitmap.h - 1)

\* A map of the bitmap in which each pixel has at most one colour.
Plain(map) == DOMAIN map = Offsets /\ \A o \in Offsets : map[o] = <<>> \/ \E c : map[o] = <<c>>

\* What a shape that is painted with these strokes leaves behind.
Drawn(strokes) == IF Wild(before, strokes) THEN outcome = "wild"
                  ELSE outcome = "done" /\ px = Painted(before, strokes)

\* Any request but the filling of a canvas is the last one.  What is there after it
\* comes of what was there before it by that request alone.
RequestInv ==
    /\ Plain(before)
    /\ last.op \in {"none", "fill", "rectangle", "line", "ellipse", "show", "text"}
    /\ last.op \in {"none", "fill"} => outcome = "done" /\ Plain(px)
    /\ last.op = "rectangle" =>
        last.shape \in Rectangles /\ Drawn(RectangleStrokes(Bitmap, last.shape))
    /\ last.op = "line" =>
        /\ last.shape \in Lines
        /\ \/ LineStrokes(Bitmap, last.shape) = {}
           \/ \E strokes \in LineStrokes(Bitmap, last.shape) : Drawn(strokes)
    /\ last.op = "ellipse" =>
        /\ last.shape \in Ellipses
        /\ \/ EllipseStrokes(Bitmap, last.shape) = {}
           \/ \E strokes \in EllipseStrokes(Bitmap, last.shape) : Drawn(strokes)
    /\ last.op = "show" =>
        /\ last.x \in From /\ last.y \in From /\ last.w \in Extent /\ last.h \in Extent
        /\ outcome = "done"
        /\ px = Composited(before, Bitmap, Data, last.x, last.y,
                           Min({last.w, Data.w}), Min({last.h, Data.h}))
    /\ last.op = "text" =>
        /\ last.str \in Seq(Char) /\ last.limit \in Int
        /\ pen = Typeset(last.str, last.limit)
        /\ outcome = IF pen.broken THEN "wild" ELSE "done"

\* A new bitmap is full of junk.
LEMMA RequestInit == PaintingInit => RequestInv
  BY DEF PaintingInit, RequestInv, Plain, Offsets, None

\* Each request of PaintingNext leaves what the invariant says of it.
LEMMA RequestNext ==
    ASSUME RequestInv, [PaintingNext]_painting
    PROVE  RequestInv'
  <1>1. ASSUME NEW colour \in Colour, Fill(colour), last = None
        PROVE  RequestInv'
    <2>1. Plain(px) /\ outcome = "done"
      BY <1>1 DEF RequestInv, None
    <2>2. Plain(px)' /\ Plain(before)' /\ outcome' = "done" /\ last' = [op |-> "fill"]
      BY <1>1, <2>1 DEF Fill, Plain, Offsets
    <2> QED
      BY <2>2 DEF RequestInv
  <1>2. ASSUME NEW op, NEW shape, NEW ways, Draw(op, shape, ways), last.op \in {"none", "fill"}
        PROVE  /\ last' = [op |-> op, shape |-> shape] /\ Plain(before)'
               /\ ways = {} \/ \E strokes \in ways : Drawn(strokes)'
    <2>1. Plain(px) /\ outcome = "done"
      BY <1>2 DEF RequestInv
    <2> QED
      BY <1>2, <2>1 DEF Draw, Drawn, Plain
  <1>3. ASSUME NEW s \in Rectangles, last.op \in {"none", "fill"},
               Draw("rectangle", s, {RectangleStrokes(Bitmap, s)})
        PROVE  RequestInv'
    <2>1. /\ last' = [op |-> "rectangle", shape |-> s] /\ Plain(before)'
          /\ Drawn(RectangleStrokes(Bitmap, s))'
      <3>1. \E strokes \in {RectangleStrokes(Bitmap, s)} : Drawn(strokes)'
        BY <1>2, <1>3
      <3>2. PICK strokes \in {RectangleStrokes(Bitmap, s)} : Drawn(strokes)'
        BY <3>1
      <3>3. strokes = RectangleStrokes(Bitmap, s)
        OBVIOUS
      <3> QED
        BY <1>2, <1>3, <3>2, <3>3
    <2>2. /\ last'.op = "rectangle" /\ last'.shape = s
          /\ RectangleStrokes(Bitmap, last.shape)' = RectangleStrokes(Bitmap, s)
      BY <2>1
    <2> QED
      BY <2>1, <2>2 DEF RequestInv
  <1>4. ASSUME NEW s \in Lines, last.op \in {"none", "fill"},
               Draw("line", s, LineStrokes(Bitmap, s))
        PROVE  RequestInv'
    <2>1. /\ last' = [op |-> "line", shape |-> s] /\ Plain(before)'
          /\ \/ LineStrokes(Bitmap, s) = {}
             \/ \E strokes \in LineStrokes(Bitmap, s) : Drawn(strokes)'
      BY <1>2, <1>4
    <2>2. /\ last'.op = "line" /\ last'.shape = s
          /\ LineStrokes(Bitmap, last.shape)' = LineStrokes(Bitmap, s)
      BY <2>1
    <2> QED
      BY <2>1, <2>2 DEF RequestInv
  <1>5. ASSUME NEW s \in Ellipses, last.op \in {"none", "fill"},
               Draw("ellipse", s, EllipseStrokes(Bitmap, s))
        PROVE  RequestInv'
    <2>1. /\ last' = [op |-> "ellipse", shape |-> s] /\ Plain(before)'
          /\ \/ EllipseStrokes(Bitmap, s) = {}
             \/ \E strokes \in EllipseStrokes(Bitmap, s) : Drawn(strokes)'
      BY <1>2, <1>5
    <2>2. /\ last'.op = "ellipse" /\ last'.shape = s
          /\ EllipseStrokes(Bitmap, last.shape)' = EllipseStrokes(Bitmap, s)
      BY <2>1
    <2> QED
      BY <2>1, <2>2 DEF RequestInv
  <1>6. ASSUME NEW x \in From, NEW y \in From, NEW w \in Extent, NEW h \in Extent,
               last = None, Show(x, y, w, h)
        PROVE  RequestInv'
    <2>1. Plain(px) /\ outcome = "done"
      BY <1>6 DEF RequestInv, None
    <2> QED
      BY <1>6, <2>1 DEF RequestInv, Show, Plain
  <1>7. ASSUME NEW str \in SeqOf(Char, MaxStr), NEW wrap \in Wrap, SetText(str, wrap)
        PROVE  RequestInv'
    <2> DEFINE limit == IF wrap = -1 THEN Bitmap.w ELSE wrap
    <2>1. str \in Seq(Char)
      BY PaintingAssumption DEF SeqOf
    <2>2. limit \in Int
      BY PaintingAssumption
    <2>3. Plain(before)'
      BY <1>7 DEF SetText, RequestInv, Plain
    <2>4. /\ last' = [op |-> "text", str |-> str, limit |-> limit]
          /\ pen' = Typeset(str, limit) /\ outcome' = IF pen'.broken THEN "wild" ELSE "done"
      BY <1>7 DEF SetText
    <2> HIDE DEF limit
    <2>5. last'.op = "text" /\ Typeset(last.str, last.limit)' = Typeset(str, limit)
      BY <2>4
    <2>6. last'.str = str /\ last'.limit = limit
      BY <2>4
    <2> QED
      BY <2>1, <2>2, <2>3, <2>4, <2>5, <2>6 DEF RequestInv
  <1>8. CASE UNCHANGED canvas
    BY <1>8 DEF canvas, RequestInv, Drawn, Plain
  <1>9. CASE Layout
    BY <1>8, <1>9 DEF Layout
  <1>10. CASE UNCHANGED painting
    BY <1>8, <1>10 DEF painting
  <1> QED
    BY <1>1, <1>3, <1>4, <1>5, <1>6, <1>7, <1>9, <1>10
       DEF PaintingNext, CanvasNext, PictureNext, LabelNext

\* The size of the bitmap, and the places in it.
LEMMA SizeOfBitmap ==
    /\ Bitmap.w \in Nat \ {0} /\ Bitmap.h \in Nat \ {0}
    /\ \A p \in Points : /\ p = <<p[1], p[2]>> /\ p[1] \in 0..(Bitmap.w - 1) /\ p[2] \in 0..(Bitmap.h - 1)
                         /\ Offset(Bitmap, p) = p[2] * Bitmap.w + p[1]
                         /\ Offset(Bitmap, p) \in Offsets
  <1>1. Bitmap.w \in Nat \ {0} /\ Bitmap.h \in Nat \ {0}
    BY PaintingAssumption
  <1>2. ASSUME NEW p \in Points
        PROVE  /\ p = <<p[1], p[2]>> /\ p[1] \in 0..(Bitmap.w - 1) /\ p[2] \in 0..(Bitmap.h - 1)
               /\ Offset(Bitmap, p) = p[2] * Bitmap.w + p[1]
    BY DEF Points, Offset
  <1>3. ASSUME NEW p \in Points PROVE Offset(Bitmap, p) \in Offsets
    BY <1>1, <1>2, PlaceInMap DEF Offsets
  <1> QED
    BY <1>1, <1>2, <1>3

-----------------------------------------------------------------------------
(* Pictures *)

\* What is blended in at a place is the pixel of the data that belongs there.
LEMMA RequestShows == RequestInv => ShownIsData
  <1> SUFFICES ASSUME RequestInv, last.op = "show" PROVE ShownIsData
    BY DEF ShownIsData
  <1> DEFINE w == Min({last.w, Data.w})
             h == Min({last.h, Data.h})
             seen(p) == LET u == p[1] - last.x
                            v == p[2] - last.y
                        IN  IF u \in 0..(w - 1) /\ v \in 0..(h - 1)
                            THEN Data.px[v * Data.w + u] ELSE <<>>
  <1>1. /\ last.x \in Int /\ last.y \in Int /\ w \in Nat /\ h \in Nat /\ outcome = "done"
        /\ px = Composited(before, Bitmap, Data, last.x, last.y, w, h) /\ DOMAIN before = Offsets
    <2>1. /\ last.w \in Nat /\ last.h \in Nat /\ last.x \in Int /\ last.y \in Int
          /\ Data.w \in Nat /\ Data.h \in Nat
      BY PaintingAssumption DEF RequestInv
    <2>2. w \in Nat /\ h \in Nat
      BY <2>1, MinIs
    <2> QED
      BY <2>1, <2>2 DEF RequestInv, Plain
  <1> HIDE DEF w, h
  <1>2. ASSUME NEW p \in Points
        PROVE  Pixel(px, p) = Blended(Pixel(before, p), seen(p))
    <2> DEFINE o == Offset(Bitmap, p)
               x == last.x
               y == last.y
               W == Bitmap.w
               H == Bitmap.h
               cw == Min({w - Skipped(x, W), W - Cut(x, W)})
               ch == Min({h - Skipped(y, H), H - Cut(y, H)})
               i == p[1] - Cut(x, W)
               j == p[2] - Cut(y, H)
    <2>1. /\ p[1] \in 0..(W - 1) /\ p[2] \in 0..(H - 1) /\ W \in Nat \ {0} /\ H \in Nat \ {0}
          /\ o \in DOMAIN before /\ o = p[2] * W + p[1]
      BY <1>1, SizeOfBitmap
    <2>2. o % W = p[1] /\ o \div W = p[2]
      <3> HIDE DEF W, H, o
      <3>1. p[2] \in Int
        BY <2>1
      <3> QED
        BY <2>1, <3>1, DivisionIs
    <2>3. px[o] = Blended(before[o],
                          IF i \in 0..(cw - 1) /\ j \in 0..(ch - 1)
                          THEN Data.px[(Skipped(y, H) + j) * Data.w + Skipped(x, W) + i]
                          ELSE <<>>)
      BY <1>1, <2>1, <2>2 DEF Composited
    <2>4. Cut(x, W) = (IF x <= 0 THEN 0 ELSE IF x <= W THEN x ELSE W)
      BY <1>1, <2>1, CutIs
    <2>5. Cut(y, H) = (IF y <= 0 THEN 0 ELSE IF y <= H THEN y ELSE H)
      BY <1>1, <2>1, CutIs
    <2>6. cw = IF w - Skipped(x, W) <= W - Cut(x, W) THEN w - Skipped(x, W) ELSE W - Cut(x, W)
      BY <1>1, <2>1, <2>4, MinIs DEF Skipped
    <2>7. ch = IF h - Skipped(y, H) <= H - Cut(y, H) THEN h - Skipped(y, H) ELSE H - Cut(y, H)
      BY <1>1, <2>1, <2>5, MinIs DEF Skipped
    <2>8. Skipped(x, W) + i = p[1] - x /\ (i \in 0..(cw - 1) <=> p[1] - x \in 0..(w - 1))
      <3> HIDE DEF cw
      <3> QED
        BY <1>1, <2>1, <2>4, <2>6 DEF Skipped
    <2>9. Skipped(y, H) + j = p[2] - y /\ (j \in 0..(ch - 1) <=> p[2] - y \in 0..(h - 1))
      <3> HIDE DEF ch
      <3> QED
        BY <1>1, <2>1, <2>5, <2>7 DEF Skipped
    <2>10. (Skipped(y, H) + j) * Data.w + Skipped(x, W) + i
              = (Skipped(y, H) + j) * Data.w + (Skipped(x, W) + i)
      <3>1. /\ Skipped(x, W) \in Int /\ i \in Int /\ j \in Int /\ Skipped(y, H) \in Int
            /\ Data.w \in Int
        <4>1. Data.w \in Int
          BY PaintingAssumption
        <4> QED
          BY <1>1, <2>1, <2>4, <2>5, <4>1 DEF Skipped
      <3> HIDE DEF i, j
      <3> QED
        BY <3>1
    <2> HIDE DEF o, i, j, cw, ch
    <2> QED
      BY <2>3, <2>8, <2>9, <2>10 DEF Pixel, o
  <1> QED
    BY <1>1, <1>2 DEF ShownIsData, PaintedAsAsked, w, h

\* What is shown of a picture, and where, for pictures, positions and sizes of any
\* number (Bitmap::composite).
THEOREM AlwaysShownIsData == PaintingSpec => []ShownIsData
  <1> QED
    BY RequestInit, RequestNext, RequestShows, PTL DEF PaintingSpec

-----------------------------------------------------------------------------
(* Rectangles *)

\* A place is in an area of a bitmap if its column and its row are.
LEMMA AreaHas ==
    ASSUME NEW b, b.w \in Nat \ {0}, NEW x0 \in Nat, NEW x1 \in 0..b.w, NEW y0 \in Int, NEW y1 \in Int,
           NEW x \in 0..(b.w - 1), NEW y \in Int
    PROVE  y * b.w + x \in Area(b, x0, y0, x1, y1) <=> x \in x0..(x1 - 1) /\ y \in y0..(y1 - 1)
  <1>1. ASSUME y * b.w + x \in Area(b, x0, y0, x1, y1)
        PROVE  x \in x0..(x1 - 1) /\ y \in y0..(y1 - 1)
    <2>1. PICK u \in x0..(x1 - 1), v \in y0..(y1 - 1) : y * b.w + x = v * b.w + u
      BY <1>1 DEF Area
    <2>2. u \in 0..(b.w - 1) /\ v \in Int
      OBVIOUS
    <2>3. x = u /\ y = v
      BY <2>1, <2>2, PlaceIs
    <2> QED
      BY <2>3
  <1> QED
    BY <1>1 DEF Area

\* The place (x, y) is in a shape with t more on each side.
Within(s, x, y, t) == x \in (s.x - t)..(s.x + s.w + t - 1) /\ y \in (s.y - t)..(s.y + s.h + t - 1)

\* What a rectangle puts there.
RectangleAt(s, x, y) ==
    IF s.colour.alpha = 0 THEN <<>>
    ELSE IF Within(s, x, y, 0) THEN <<s.colour>>
    ELSE IF HasBorder(s) /\ Within(s, x, y, s.t) THEN <<s.edge>> ELSE <<>>

IsRectangle(s) == s.x \in Int /\ s.y \in Int /\ s.w \in Nat /\ s.h \in Nat /\ s.t \in Int

\* The four bounds of a rectangle grown by t, and which positions are between them.
LEMMA BoundsAre ==
    ASSUME NEW b, b.w \in Nat, b.h \in Nat, NEW s,
           s.x \in Int, s.y \in Int, s.w \in Int, s.h \in Int, NEW t \in Int
    PROVE  /\ Bounds(b, s, t).x0 = Cut(s.x - t, b.w) /\ Bounds(b, s, t).x1 = Cut(s.x + s.w + t, b.w)
           /\ Bounds(b, s, t).y0 = Cut(s.y - t, b.h) /\ Bounds(b, s, t).y1 = Cut(s.y + s.h + t, b.h)
           /\ Bounds(b, s, t).x0 \in 0..b.w /\ Bounds(b, s, t).x1 \in 0..b.w
           /\ Bounds(b, s, t).y0 \in 0..b.h /\ Bounds(b, s, t).y1 \in 0..b.h
           /\ \A x \in 0..(b.w - 1) :
                /\ Bounds(b, s, t).x0 <= x <=> s.x - t <= x
                /\ x < Bounds(b, s, t).x1 <=> x < s.x + s.w + t
           /\ \A y \in 0..(b.h - 1) :
                /\ Bounds(b, s, t).y0 <= y <=> s.y - t <= y
                /\ y < Bounds(b, s, t).y1 <=> y < s.y + s.h + t
  <1>1. /\ Bounds(b, s, t).x0 = Cut(s.x - t, b.w) /\ Bounds(b, s, t).x1 = Cut(s.x + s.w + t, b.w)
        /\ Bounds(b, s, t).y0 = Cut(s.y - t, b.h) /\ Bounds(b, s, t).y1 = Cut(s.y + s.h + t, b.h)
    BY DEF Bounds
  <1>2. ASSUME NEW v \in Int, NEW limit \in Nat
        PROVE  /\ Cut(v, limit) \in 0..limit
               /\ \A x \in 0..(limit - 1) : (Cut(v, limit) <= x <=> v <= x) /\ (x < Cut(v, limit) <=> x < v)
    BY CutIs
  <1>3. /\ s.x - t \in Int /\ s.x + s.w + t \in Int /\ s.y - t \in Int /\ s.y + s.h + t \in Int
    OBVIOUS
  <1>4. /\ Cut(s.x - t, b.w) \in 0..b.w /\ Cut(s.x + s.w + t, b.w) \in 0..b.w
        /\ Cut(s.y - t, b.h) \in 0..b.h /\ Cut(s.y + s.h + t, b.h) \in 0..b.h
    BY <1>2, <1>3
  <1>5. \A x \in 0..(b.w - 1) :
            /\ Cut(s.x - t, b.w) <= x <=> s.x - t <= x
            /\ x < Cut(s.x + s.w + t, b.w) <=> x < s.x + s.w + t
    BY <1>2, <1>3
  <1>6. \A y \in 0..(b.h - 1) :
            /\ Cut(s.y - t, b.h) <= y <=> s.y - t <= y
            /\ y < Cut(s.y + s.h + t, b.h) <=> y < s.y + s.h + t
    BY <1>2, <1>3
  <1> QED
    BY <1>1, <1>4, <1>5, <1>6

\* No place is painted twice by a rectangle, and each as it is asked for.
LEMMA RectanglePixel ==
    ASSUME NEW b, b.w \in Nat \ {0}, b.h \in Nat \ {0}, NEW s, IsRectangle(s), NEW pixel,
           NEW x \in 0..(b.w - 1), NEW y \in 0..(b.h - 1)
    PROVE  LET strokes == RectangleStrokes(b, s)
           IN  Coats(pixel, strokes, y * b.w + x)[Len(strokes)] = Blended(pixel, RectangleAt(s, x, y))
  <1> DEFINE o == y * b.w + x
             strokes == RectangleStrokes(b, s)
             in == Bounds(b, s, 0)
             out == Bounds(b, s, s.t)
             inside == Area(b, in.x0, in.y0, in.x1, in.y1)
             top == Area(b, out.x0, out.y0, out.x1, in.y0)
             left == Area(b, out.x0, in.y0, in.x0, in.y1)
             right == Area(b, in.x1, in.y0, out.x1, in.y1)
             bottom == Area(b, out.x0, in.y1, out.x1, out.y1)
  <1>1. /\ in.x0 \in 0..b.w /\ in.x1 \in 0..b.w /\ in.y0 \in 0..b.h /\ in.y1 \in 0..b.h
        /\ in.x0 <= x <=> s.x <= x
        /\ x < in.x1 <=> x < s.x + s.w
        /\ in.y0 <= y <=> s.y <= y
        /\ y < in.y1 <=> y < s.y + s.h
    <2>1. s.x - 0 = s.x /\ s.x + s.w + 0 = s.x + s.w /\ s.y - 0 = s.y /\ s.y + s.h + 0 = s.y + s.h
      BY DEF IsRectangle
    <2>2. /\ b.w \in Nat /\ b.h \in Nat /\ 0 \in Int
          /\ s.x \in Int /\ s.y \in Int /\ s.w \in Int /\ s.h \in Int
      BY DEF IsRectangle
    <2>3. /\ in.x0 \in 0..b.w /\ in.x1 \in 0..b.w /\ in.y0 \in 0..b.h /\ in.y1 \in 0..b.h
          /\ in.x0 <= x <=> s.x - 0 <= x
          /\ x < in.x1 <=> x < s.x + s.w + 0
          /\ in.y0 <= y <=> s.y - 0 <= y
          /\ y < in.y1 <=> y < s.y + s.h + 0
      BY <2>2, BoundsAre
    <2> QED
      BY <2>1, <2>3
  <1>2. /\ out.x0 \in 0..b.w /\ out.x1 \in 0..b.w /\ out.y0 \in 0..b.h /\ out.y1 \in 0..b.h
        /\ out.x0 <= x <=> s.x - s.t <= x
        /\ x < out.x1 <=> x < s.x + s.w + s.t
        /\ out.y0 <= y <=> s.y - s.t <= y
        /\ y < out.y1 <=> y < s.y + s.h + s.t
    <2>1. /\ b.w \in Nat /\ b.h \in Nat /\ s.t \in Int
          /\ s.x \in Int /\ s.y \in Int /\ s.w \in Int /\ s.h \in Int
      BY DEF IsRectangle
    <2> QED
      BY <2>1, BoundsAre
  <1> HIDE DEF in, out
  <1>3. o \in inside <=> Within(s, x, y, 0)
    <2>1. o \in inside <=> x \in in.x0..(in.x1 - 1) /\ y \in in.y0..(in.y1 - 1)
      BY <1>1, AreaHas
    <2> QED
      BY <1>1, <2>1 DEF Within, IsRectangle
  <1>4. o \in top <=> x \in out.x0..(out.x1 - 1) /\ y \in out.y0..(in.y0 - 1)
    BY <1>1, <1>2, AreaHas
  <1>5. o \in left <=> x \in out.x0..(in.x0 - 1) /\ y \in in.y0..(in.y1 - 1)
    BY <1>1, <1>2, AreaHas
  <1>6. o \in right <=> x \in in.x1..(out.x1 - 1) /\ y \in in.y0..(in.y1 - 1)
    BY <1>1, <1>2, AreaHas
  <1>7. o \in bottom <=> x \in out.x0..(out.x1 - 1) /\ y \in in.y1..(out.y1 - 1)
    BY <1>1, <1>2, AreaHas
  <1>8. CASE s.colour.alpha = 0
    <2>1. strokes = <<>>
      BY <1>8 DEF RectangleStrokes
    <2> HIDE DEF strokes
    <2>2. Coats(pixel, strokes, o)[Len(strokes)] = pixel
      BY <2>1, PixelNone
    <2> QED
      BY <1>8, <2>2 DEF RectangleAt, Blended, strokes
  <1>9. CASE s.colour.alpha # 0 /\ ~HasBorder(s)
    <2>1. strokes = <<Stroke(inside, s.colour)>>
      BY <1>9 DEF RectangleStrokes, in
    <2> HIDE DEF strokes, inside
    <2>2. Len(strokes) = 1 /\ strokes[1].at = inside /\ strokes[1].colour = s.colour
      BY <2>1 DEF Stroke
    <2>3. CASE o \in inside
      <3>1. /\ Len(strokes) \in Nat /\ 1 \in 1..Len(strokes) /\ o \in strokes[1].at
            /\ \A k \in 1..Len(strokes) : k # 1 => o \notin strokes[k].at
        BY <2>2, <2>3
      <3>2. Coats(pixel, strokes, o)[Len(strokes)] = Over(pixel, strokes[1].colour)
        <4> HIDE DEF o
        <4> QED
          BY <3>1, PixelOnce
      <3> QED
        BY <1>3, <1>9, <2>2, <2>3, <3>2 DEF RectangleAt, Blended, strokes
    <2>4. CASE o \notin inside
      <3>1. Len(strokes) \in Nat /\ \A k \in 1..Len(strokes) : o \notin strokes[k].at
        BY <2>2, <2>4
      <3>2. Coats(pixel, strokes, o)[Len(strokes)] = pixel
        BY <3>1, PixelNone
      <3> QED
        BY <1>3, <1>9, <2>4, <3>2 DEF RectangleAt, Blended, strokes
    <2> QED
      BY <2>3, <2>4
  <1>10. CASE s.colour.alpha # 0 /\ HasBorder(s)
    <2> DEFINE at == <<inside, top, left, right, bottom>>
    <2>1. s.t > 0
      BY <1>10 DEF HasBorder
    <2>2. strokes = <<Stroke(inside, s.colour)>>
                    \o <<Stroke(top, s.edge), Stroke(left, s.edge),
                         Stroke(right, s.edge), Stroke(bottom, s.edge)>>
      BY <1>10 DEF RectangleStrokes, BorderStrokes, in, out
    <2>3. /\ Within(s, x, y, s.t) <=> /\ x \in out.x0..(out.x1 - 1) /\ y \in out.y0..(out.y1 - 1)
          /\ Within(s, x, y, 0) <=> /\ x \in in.x0..(in.x1 - 1) /\ y \in in.y0..(in.y1 - 1)
      BY <1>1, <1>2 DEF Within, IsRectangle
    <2>4. /\ in.x0 <= x => out.x0 <= x
          /\ x < in.x1 => x < out.x1
          /\ in.y0 <= y => out.y0 <= y
          /\ y < in.y1 => y < out.y1
          /\ in.x0 <= x \/ x < in.x1
          /\ in.y0 <= y \/ y < in.y1
      BY <1>1, <1>2, <2>1 DEF IsRectangle
    <2>5. /\ (o \in top \/ o \in left \/ o \in right \/ o \in bottom)
                <=> Within(s, x, y, s.t) /\ ~Within(s, x, y, 0)
          /\ o \in inside => o \notin top /\ o \notin left /\ o \notin right /\ o \notin bottom
          /\ o \in top => o \notin left /\ o \notin right /\ o \notin bottom
          /\ o \in left => o \notin right /\ o \notin bottom
          /\ o \in right => o \notin bottom
      <3> HIDE DEF inside, top, left, right, bottom, o
      <3> QED
        BY <1>1, <1>2, <1>3, <1>4, <1>5, <1>6, <1>7, <2>3, <2>4
    <2> HIDE DEF strokes, inside, top, left, right, bottom, o
    <2>6. /\ Len(strokes) = 5
          /\ strokes[1] = Stroke(inside, s.colour) /\ strokes[2] = Stroke(top, s.edge)
          /\ strokes[3] = Stroke(left, s.edge) /\ strokes[4] = Stroke(right, s.edge)
          /\ strokes[5] = Stroke(bottom, s.edge)
      BY <2>2
    <2>7. /\ strokes[1].colour = s.colour /\ \A k \in 2..5 : strokes[k].colour = s.edge
          /\ \A k \in 1..5 : strokes[k].at = at[k]
      <3>1. ASSUME NEW k \in 1..5 PROVE k \in {1, 2, 3, 4, 5}
        OBVIOUS
      <3> QED
        BY <2>6, <3>1 DEF Stroke
    <2>8. ASSUME NEW k \in 1..5, o \in at[k]
          PROVE  \A j \in 1..5 : j # k => o \notin at[j]
      <3>1. ASSUME NEW j \in 1..5 PROVE j \in {1, 2, 3, 4, 5}
        OBVIOUS
      <3> QED
        BY <2>5, <2>8, <3>1
    <2>9. ASSUME NEW k \in 1..5, o \in at[k]
          PROVE  Coats(pixel, strokes, o)[Len(strokes)] = Over(pixel, strokes[k].colour)
      <3> HIDE DEF at
      <3>1. Len(strokes) \in Nat /\ 1..Len(strokes) = 1..5
        BY <2>6
      <3>2. /\ k \in 1..Len(strokes) /\ o \in strokes[k].at
            /\ \A j \in 1..Len(strokes) : j # k => o \notin strokes[j].at
        BY <2>7, <2>8, <2>9, <3>1
      <3> QED
        BY <3>1, <3>2, PixelOnce
    <2>10. CASE o \in inside
      <3>1. Coats(pixel, strokes, o)[Len(strokes)] = Over(pixel, s.colour)
        BY <2>7, <2>9, <2>10
      <3> QED
        BY <1>3, <1>10, <2>10, <3>1 DEF RectangleAt, Blended, strokes, o
    <2>11. CASE o \in top \/ o \in left \/ o \in right \/ o \in bottom
      <3>1. PICK k \in 2..5 : o \in at[k]
        BY <2>11
      <3>2. Coats(pixel, strokes, o)[Len(strokes)] = Over(pixel, s.edge)
        <4>1. k \in 1..5
          OBVIOUS
        <4> HIDE DEF at
        <4> QED
          BY <2>7, <2>9, <3>1, <4>1
      <3> QED
        BY <1>3, <1>10, <2>5, <2>11, <3>2 DEF RectangleAt, Blended, strokes, o
    <2>12. CASE o \notin inside /\ ~(o \in top \/ o \in left \/ o \in right \/ o \in bottom)
      <3>1. \A k \in 1..Len(strokes) : o \notin strokes[k].at
        <4>1. ASSUME NEW k \in 1..5 PROVE k \in {1, 2, 3, 4, 5}
          OBVIOUS
        <4> QED
          BY <2>6, <2>7, <2>12, <4>1
      <3>2. Len(strokes) \in Nat
        BY <2>6
      <3>3. Coats(pixel, strokes, o)[Len(strokes)] = pixel
        BY <3>1, <3>2, PixelNone
      <3> QED
        BY <1>3, <1>10, <2>5, <2>12, <3>3 DEF RectangleAt, Blended, strokes, o
    <2> QED
      BY <2>10, <2>11, <2>12
  <1> QED
    BY <1>8, <1>9, <1>10

\* Nothing outside of the map is written by a rectangle.
LEMMA RectangleStaysIn ==
    ASSUME NEW b, b.w \in Nat \ {0}, b.h \in Nat \ {0}, NEW s, IsRectangle(s),
           NEW map, DOMAIN map = 0..(b.w * b.h - 1)
    PROVE  ~Wild(map, RectangleStrokes(b, s)) /\ Len(RectangleStrokes(b, s)) \in Nat
  <1> DEFINE strokes == RectangleStrokes(b, s)
             in == Bounds(b, s, 0)
             out == Bounds(b, s, s.t)
  <1>1. /\ in.x0 \in 0..b.w /\ in.x1 \in 0..b.w /\ in.y0 \in 0..b.h /\ in.y1 \in 0..b.h
        /\ out.x0 \in 0..b.w /\ out.x1 \in 0..b.w /\ out.y0 \in 0..b.h /\ out.y1 \in 0..b.h
    <2>1. /\ b.w \in Nat /\ b.h \in Nat /\ s.t \in Int /\ 0 \in Int
          /\ s.x \in Int /\ s.y \in Int /\ s.w \in Int /\ s.h \in Int
      BY DEF IsRectangle
    <2> QED
      BY <2>1, BoundsAre
  <1> HIDE DEF strokes, in, out
  <1>2. ASSUME NEW x0 \in 0..b.w, NEW x1 \in 0..b.w, NEW y0 \in 0..b.h, NEW y1 \in 0..b.h
        PROVE  Area(b, x0, y0, x1, y1) \subseteq DOMAIN map
    <2> SUFFICES ASSUME NEW o \in Area(b, x0, y0, x1, y1) PROVE o \in DOMAIN map
      OBVIOUS
    <2>0. PICK x \in x0..(x1 - 1), y \in y0..(y1 - 1) : o = y * b.w + x
      BY DEF Area
    <2>1. x \in 0..(b.w - 1) /\ y \in 0..(b.h - 1)
      OBVIOUS
    <2> QED
      BY <2>0, <2>1, PlaceInMap
  <1> DEFINE inside == Area(b, in.x0, in.y0, in.x1, in.y1)
             top == Area(b, out.x0, out.y0, out.x1, in.y0)
             left == Area(b, out.x0, in.y0, in.x0, in.y1)
             right == Area(b, in.x1, in.y0, out.x1, in.y1)
             bottom == Area(b, out.x0, in.y1, out.x1, out.y1)
  <1>3. \A at \in {inside, top, left, right, bottom} : at \subseteq DOMAIN map
    <2>1. inside \subseteq DOMAIN map
      BY <1>1, <1>2
    <2>2. top \subseteq DOMAIN map
      BY <1>1, <1>2
    <2>3. left \subseteq DOMAIN map
      BY <1>1, <1>2
    <2>4. right \subseteq DOMAIN map
      BY <1>1, <1>2
    <2>5. bottom \subseteq DOMAIN map
      BY <1>1, <1>2
    <2> HIDE DEF inside, top, left, right, bottom
    <2> QED
      BY <2>1, <2>2, <2>3, <2>4, <2>5
  <1>4. \/ strokes = <<>>
        \/ strokes = <<Stroke(inside, s.colour)>>
        \/ strokes = <<Stroke(inside, s.colour)>>
                      \o <<Stroke(top, s.edge), Stroke(left, s.edge),
                           Stroke(right, s.edge), Stroke(bottom, s.edge)>>
    BY DEF RectangleStrokes, BorderStrokes, in, out, strokes
  <1> HIDE DEF inside, top, left, right, bottom
  <1>5. /\ DOMAIN strokes \subseteq 1..5 /\ Len(strokes) \in Nat
        /\ \A i \in DOMAIN strokes : strokes[i].at \in {inside, top, left, right, bottom}
    <2>1. CASE strokes = <<>>
      BY <2>1
    <2>2. CASE strokes = <<Stroke(inside, s.colour)>>
      BY <2>2 DEF Stroke
    <2>3. CASE strokes = <<Stroke(inside, s.colour)>>
                         \o <<Stroke(top, s.edge), Stroke(left, s.edge),
                              Stroke(right, s.edge), Stroke(bottom, s.edge)>>
      <3>1. /\ Len(strokes) = 5 /\ DOMAIN strokes = 1..5
            /\ strokes[1] = Stroke(inside, s.colour) /\ strokes[2] = Stroke(top, s.edge)
            /\ strokes[3] = Stroke(left, s.edge) /\ strokes[4] = Stroke(right, s.edge)
            /\ strokes[5] = Stroke(bottom, s.edge)
        BY <2>3
      <3>2. \A i \in 1..5 : i \in {1, 2, 3, 4, 5}
        OBVIOUS
      <3> QED
        BY <3>1, <3>2 DEF Stroke
    <2> QED
      BY <1>4, <2>1, <2>2, <2>3
  <1>6. ~Wild(map, strokes)
    BY <1>3, <1>5 DEF Wild
  <1> QED
    BY <1>5, <1>6 DEF strokes

\* After a rectangle the canvas is as it was asked for.
LEMMA RequestDraws == RequestInv => RectangleAsAsked
  <1> SUFFICES ASSUME RequestInv, last.op = "rectangle" PROVE RectangleAsAsked
    BY DEF RectangleAsAsked
  <1> DEFINE s == last.shape
             strokes == RectangleStrokes(Bitmap, s)
  <1>1. s \in Rectangles /\ Drawn(strokes) /\ DOMAIN before = Offsets
    BY DEF RequestInv, Plain
  <1>2. IsRectangle(s)
    BY <1>1, ShapesAssumption DEF IsRectangle
  <1> HIDE DEF s
  <1>3. /\ Bitmap.w \in Nat \ {0} /\ Bitmap.h \in Nat \ {0}
        /\ ~Wild(before, strokes)
    BY <1>1, <1>2, SizeOfBitmap, RectangleStaysIn DEF Offsets
  <1>4. outcome = "done" /\ px = Painted(before, strokes)
    BY <1>1, <1>3 DEF Drawn
  <1> HIDE DEF strokes
  <1>5. ASSUME NEW p \in Points
        PROVE  Pixel(px, p) = Blended(Pixel(before, p), RectangleAt(s, p[1], p[2]))
    <2> DEFINE o == Offset(Bitmap, p)
    <2>1. /\ p[1] \in 0..(Bitmap.w - 1) /\ p[2] \in 0..(Bitmap.h - 1)
          /\ o \in DOMAIN before /\ o = p[2] * Bitmap.w + p[1]
      BY <1>1, SizeOfBitmap
    <2>2. px[o] = Coats(before[o], strokes, o)[Len(strokes)]
      BY <1>4, <2>1 DEF Painted
    <2>3. Coats(before[o], strokes, o)[Len(strokes)] = Blended(before[o], RectangleAt(s, p[1], p[2]))
      BY <1>2, <1>3, <2>1, RectanglePixel DEF strokes
    <2> QED
      BY <2>2, <2>3 DEF Pixel
  <1>6. s.x - 0 = s.x /\ s.x + s.w + 0 - 1 = s.x + s.w - 1
    BY <1>2 DEF IsRectangle
  <1>7. ASSUME NEW p
        PROVE  RectangleAt(s, p[1], p[2])
                 = IF s.colour.alpha = 0 THEN <<>>
                   ELSE IF /\ p[1] \in (s.x - 0)..(s.x + s.w + 0 - 1)
                           /\ p[2] \in (s.y - 0)..(s.y + s.h + 0 - 1) THEN <<s.colour>>
                   ELSE IF HasBorder(s) /\ /\ p[1] \in (s.x - s.t)..(s.x + s.w + s.t - 1)
                                          /\ p[2] \in (s.y - s.t)..(s.y + s.h + s.t - 1)
                        THEN <<s.edge>> ELSE <<>>
    BY DEF RectangleAt, Within
  <1> QED
    BY <1>4, <1>5, <1>7 DEF RectangleAsAsked, PaintedAsAsked, s

\* Rectangle::paint, for bitmaps and rectangles of any size and at any place.
THEOREM AlwaysRectangleAsAsked == PaintingSpec => []RectangleAsAsked
  <1> QED
    BY RequestInit, RequestNext, RequestDraws, PTL DEF PaintingSpec

-----------------------------------------------------------------------------
(* Ellipses *)

\* The squares that are below a limit are those of the first numbers.
LEMMA ReachIs ==
    ASSUME NEW limit \in Int, NEW room \in Nat
    PROVE  /\ Reach(limit, room) \in 0..room
           /\ \A k \in Nat : k < Reach(limit, room) <=> k < room /\ k * k < limit
  <1> DEFINE below(m) == {k \in 0..(m - 1) : k * k < limit}
             I == {m \in Nat : \E r \in 0..m : below(m) = 0..(r - 1)}
  <1>1. 0 \in I
    OBVIOUS
  <1>2. ASSUME NEW m \in Nat, m \in I PROVE m + 1 \in I
    <2>1. PICK r \in 0..m : below(m) = 0..(r - 1)
      BY <1>2
    <2>2. CASE m * m < limit
      <3>1. ASSUME NEW k \in 0..m PROVE k * k < limit
        <4>1. k * k <= m * m
          <5>1. k * k <= m * k
            OBVIOUS
          <5>2. m * k <= m * m
            OBVIOUS
          <5>3. k * k \in Int /\ m * k \in Int /\ m * m \in Int
            OBVIOUS
          <5> QED
            BY <5>1, <5>2, <5>3
        <4>2. k * k \in Int /\ m * m \in Int
          OBVIOUS
        <4> QED
          BY <2>2, <4>1, <4>2
      <3>2. below(m + 1) = 0..((m + 1) - 1)
        BY <3>1
      <3> QED
        BY <3>2
    <2>3. CASE ~(m * m < limit)
      <3>1. below(m + 1) = below(m)
        BY <2>3
      <3> HIDE DEF below
      <3> QED
        BY <2>1, <3>1
    <2> QED
      BY <2>2, <2>3
  <1> HIDE DEF I
  <1>3. room \in I
    BY <1>1, <1>2, SetInduction
  <1>4. PICK r \in 0..room : below(room) = 0..(r - 1)
    BY <1>3 DEF I
  <1>5. Cardinality(0..(r - 1)) = r
    <2>1. r - 1 \in Int /\ 0 \in Int
      OBVIOUS
    <2>2. Cardinality(0..(r - 1)) = IF 0 > r - 1 THEN 0 ELSE (r - 1) - 0 + 1
      BY <2>1, FS_Interval
    <2> QED
      BY <2>2
  <1>6. Reach(limit, room) = r
    BY <1>4, <1>5 DEF Reach
  <1>7. ASSUME NEW k \in Nat
        PROVE  k < r <=> k < room /\ k * k < limit
    <2>1. k \in below(room) <=> k \in 0..(r - 1)
      BY <1>4
    <2> QED
      BY <2>1
  <1> QED
    BY <1>6, <1>7

\* A place that is u across from the middle and v down from it is in an ellipse
\* that is r wide and t high on each side.
InOval(u, v, r, t) == (u * t) * (u * t) + (v * r) * (v * r) < (r * t) * (r * t)

\* The equation with the division that the code has in it.
LEMMA OvalIs ==
    ASSUME NEW u \in Nat, NEW v \in Int, NEW r \in Nat, NEW t \in Nat \ {0}
    PROVE  /\ r * r - Quot(r * r * v * v, t * t) \in Int
           /\ u * u < r * r - Quot(r * r * v * v, t * t) <=> InOval(u, v, r, t)
  <1> DEFINE A == r * r
             T == t * t
             V == r * r * v * v
             U == u * u
             q == V \div T
  <1>1. T \in Nat \ {0} /\ A \in Nat /\ U \in Nat
    OBVIOUS
  <1>2. V = (v * r) * (v * r)
    OBVIOUS
  <1>3. V \in Nat
    <2>1. \A n \in Int : n * n \in Nat
      OBVIOUS
    <2>2. v * r \in Int
      OBVIOUS
    <2> QED
      BY <1>2, <2>1, <2>2
  <1>4. (u * t) * (u * t) = U * T
    OBVIOUS
  <1>5. (r * t) * (r * t) = A * T
    OBVIOUS
  <1>6. InOval(u, v, r, t) <=> U * T + V < A * T
    BY <1>2, <1>4, <1>5 DEF InOval
  <1> HIDE DEF A, T, V, U
  <1>7. q \in Int /\ q * T <= V /\ V < q * T + T
    BY <1>1, <1>3
  <1>8. Quot(V, T) = q
    BY <1>1, <1>3 DEF Quot, Abs
  <1> HIDE DEF q
  <1>9. U < A - q <=> U * T + V < A * T
    <2>1. CASE U < A - q
      <3>1. A - U - q - 1 \in Nat
        BY <1>1, <1>7, <2>1
      <3>2. (A - U - q - 1) * T >= 0
        BY <1>1, <3>1
      <3>3. (A - U - q - 1) * T = A * T - U * T - q * T - T
        BY <1>1, <1>7
      <3>4. A * T \in Int /\ U * T \in Int /\ q * T \in Int
        BY <1>1, <1>7
      <3> QED
        BY <1>1, <1>3, <1>7, <2>1, <3>2, <3>3, <3>4
    <2>2. CASE ~(U < A - q)
      <3>1. U + q - A \in Nat
        BY <1>1, <1>7, <2>2
      <3>2. (U + q - A) * T >= 0
        BY <1>1, <3>1
      <3>3. (U + q - A) * T = U * T + q * T - A * T
        BY <1>1, <1>7
      <3>4. A * T \in Int /\ U * T \in Int /\ q * T \in Int
        BY <1>1, <1>7
      <3> QED
        BY <1>1, <1>3, <1>7, <2>2, <3>2, <3>3, <3>4
    <2> QED
      BY <2>1, <2>2
  <1> QED
    BY <1>1, <1>6, <1>7, <1>8, <1>9 DEF A, T, V, U

\* An ellipse is no higher than it is.
LEMMA OvalEnds ==
    ASSUME NEW u \in Nat, NEW v \in Int, NEW r \in Nat, NEW t \in Nat, v >= t \/ -v >= t
    PROVE  ~InOval(u, v, r, t)
  <1>1. v * v >= t * t
    <2>1. CASE v >= t
      <3>1. v * v >= t * v /\ t * v >= t * t
        BY <2>1
      <3> QED
        BY <3>1
    <2>2. CASE -v >= t
      <3>1. (-v) * (-v) >= t * (-v) /\ t * (-v) >= t * t /\ (-v) * (-v) = v * v
        BY <2>2
      <3>2. (-v) * (-v) \in Int /\ t * (-v) \in Int /\ t * t \in Int
        OBVIOUS
      <3> QED
        BY <3>1, <3>2
    <2> QED
      BY <2>1, <2>2
  <1>2. (v * v - t * t) * (r * r) >= 0
    <2>1. v * v - t * t \in Nat /\ r * r \in Nat
      BY <1>1
    <2> QED
      BY <2>1
  <1>3. (v * v - t * t) * (r * r) = (v * r) * (v * r) - (r * t) * (r * t)
    OBVIOUS
  <1>4. (u * t) * (u * t) \in Nat /\ (v * r) * (v * r) \in Int /\ (r * t) * (r * t) \in Int
    <2>1. \A n \in Int : n * n \in Nat
      OBVIOUS
    <2>2. u * t \in Int /\ v * r \in Int /\ r * t \in Int
      OBVIOUS
    <2> QED
      BY <2>1, <2>2
  <1> QED
    BY <1>2, <1>3, <1>4 DEF InOval

\* An ellipse whose rows can all be painted as its equation says.
IsEllipse(b, s) ==
    /\ s.x \in Int /\ s.y \in Int /\ s.w \in Nat /\ s.h \in Int /\ s.t \in Nat
    /\ s.h \div 2 \in Nat \ {0} /\ s.x + (s.w \div 2) \in 0..b.w

\* The place (x, y) is in an ellipse with t more on each side.
InEllipse(s, x, y, t) ==
    LET middle == s.x + (s.w \div 2)
    IN  InOval(IF x >= middle THEN x - middle ELSE middle - 1 - x, y - s.y - (s.h \div 2),
               (s.w \div 2) + t, (s.h \div 2) + t)

\* What an ellipse puts there.
EllipseAt(s, x, y) ==
    IF s.colour.alpha = 0 THEN <<>>
    ELSE IF InEllipse(s, x, y, 0) THEN <<s.colour>>
    ELSE IF HasBorder(s) /\ InEllipse(s, x, y, s.t) THEN <<s.edge>> ELSE <<>>

\* The parts of a row, and where each of them is: on the left and the right of the
\* middle, inside and on the border.
RowParts(s) == IF HasBorder(s) THEN 4 ELSE 2

InPart(s, part, x, y) ==
    /\ part \in {1, 3} <=> x < s.x + (s.w \div 2)
    /\ part \in {1, 2} <=> InEllipse(s, x, y, 0)
    /\ part \in {3, 4} => InEllipse(s, x, y, s.t)

\* What a row of an ellipse paints: in each part the places of it that are in the bitmap.
LEMMA RowIs ==
    ASSUME NEW b, b.w \in Nat \ {0}, b.h \in Nat \ {0}, NEW s,
           IsEllipse(b, s), NEW y \in 0..(b.h - 1), NEW part \in 1..RowParts(s)
    PROVE  /\ EllipseRow(b, s, y)[part].colour = IF part \in {1, 2} THEN s.colour ELSE s.edge
           /\ EllipseRow(b, s, y)[part].at \subseteq 0..(b.w * b.h - 1)
           /\ \A x \in 0..(b.w - 1), v \in Int :
                v * b.w + x \in EllipseRow(b, s, y)[part].at <=> v = y /\ InPart(s, part, x, y)
  <1> DEFINE a == s.w \div 2   h == s.h \div 2   c == a + s.t   d == h + s.t
             middle == s.x + a   dy == y - h - s.y
             limit == a * a - Quot(a * a * dy * dy, h * h)
             rim == c * c - Quot(c * c * dy * dy, d * d)
             left == Reach(limit, middle)
             room == b.w - middle
             right == Reach(limit, room)
             farLeft == Reach(rim, middle)
             farRight == Reach(rim, room)
             at(u) == y * b.w + u
             toLeft(l, m, colour) == Stroke({at(middle - k - 1) : k \in l..(m - 1)}, colour)
             toRight(l, m, colour) == Stroke({at(middle + k) : k \in l..(m - 1)}, colour)
             S1 == toLeft(0, left, s.colour)
             S2 == toRight(0, right, s.colour)
             S3 == toLeft(left, farLeft, s.edge)
             S4 == toRight(right, farRight, s.edge)
             across(x) == IF x >= middle THEN x - middle ELSE middle - 1 - x
  <1>1. /\ a \in Nat /\ h \in Nat \ {0} /\ c \in Nat /\ d \in Nat \ {0} /\ dy \in Int
        /\ middle \in 0..b.w /\ middle \in Nat /\ room \in Nat /\ room = b.w - middle
    BY DEF IsEllipse
  <1>2. Quot(s.w, 2) = a /\ Quot(s.h, 2) = h
    <2>1. s.w >= 0 /\ s.h >= 0
      BY <1>1 DEF IsEllipse
    <2> QED
      BY <2>1 DEF Quot, Abs, IsEllipse
  <1>3. EllipseRow(b, s, y) = <<S1, S2>> \o IF ~HasBorder(s) THEN <<>> ELSE <<S3, S4>>
    BY <1>2 DEF EllipseRow
  <1>4. EllipseRow(b, s, y)[part] = CASE part = 1 -> S1 [] part = 2 -> S2
                                      [] part = 3 -> S3 [] part = 4 -> S4
    <2> HIDE DEF S1, S2, S3, S4
    <2>1. CASE HasBorder(s)
      <3>1. part \in {1, 2, 3, 4}
        BY <2>1 DEF RowParts
      <3>2. EllipseRow(b, s, y) = <<S1, S2>> \o <<S3, S4>>
        BY <1>3, <2>1
      <3> QED
        BY <3>1, <3>2
    <2>2. CASE ~HasBorder(s)
      <3>1. part \in {1, 2}
        BY <2>2 DEF RowParts
      <3>2. EllipseRow(b, s, y) = <<S1, S2>> \o <<>>
        BY <1>3, <2>2
      <3> QED
        BY <3>1, <3>2
    <2> QED
      BY <2>1, <2>2
  <1>5. part \in {1, 2, 3, 4}
    BY DEF RowParts
  <1>6. ASSUME NEW x \in 0..(b.w - 1)
        PROVE  /\ across(x) \in Nat
               /\ InEllipse(s, x, y, 0) <=> across(x) * across(x) < limit
               /\ InEllipse(s, x, y, s.t) <=> across(x) * across(x) < rim
    <2>1. across(x) \in Nat
      BY <1>1
    <2>2. /\ InEllipse(s, x, y, 0) <=> InOval(across(x), dy, a, h)
          /\ InEllipse(s, x, y, s.t) <=> InOval(across(x), dy, c, d)
      <3>1. a + 0 = a /\ h + 0 = h /\ y - s.y - h = dy
        BY <1>1 DEF IsEllipse
      <3> QED
        BY <3>1 DEF InEllipse
    <2> HIDE DEF across, a, h, c, d, dy
    <2> QED
      BY <1>1, <2>1, <2>2, OvalIs
  <1>7. limit \in Int /\ rim \in Int
    <2> HIDE DEF a, h, c, d, dy
    <2>1. 0 \in Nat
      OBVIOUS
    <2> QED
      BY <1>1, <2>1, OvalIs
  <1> HIDE DEF limit, rim, dy, c, d, a, h
  <1>8. /\ left \in 0..middle /\ farLeft \in 0..middle
        /\ right \in 0..room /\ farRight \in 0..room
        /\ \A k \in Nat : /\ k < left <=> k < middle /\ k * k < limit
                          /\ k < farLeft <=> k < middle /\ k * k < rim
                          /\ k < right <=> k < room /\ k * k < limit
                          /\ k < farRight <=> k < room /\ k * k < rim
    <2> HIDE DEF room, middle
    <2>1. /\ left \in 0..middle
          /\ \A k \in Nat : k < left <=> k < middle /\ k * k < limit
      BY <1>1, <1>7, ReachIs
    <2>2. /\ farLeft \in 0..middle
          /\ \A k \in Nat : k < farLeft <=> k < middle /\ k * k < rim
      BY <1>1, <1>7, ReachIs
    <2>3. room \in Nat
      BY <1>1
    <2>4. /\ right \in 0..room
          /\ \A k \in Nat : k < right <=> k < room /\ k * k < limit
      BY <1>7, <2>3, ReachIs
    <2>5. /\ farRight \in 0..room
          /\ \A k \in Nat : k < farRight <=> k < room /\ k * k < rim
      BY <1>7, <2>3, ReachIs
    <2> HIDE DEF left, right, farLeft, farRight
    <2> QED
      BY <2>1, <2>2, <2>4, <2>5
  <1> HIDE DEF left, right, farLeft, farRight, middle, room
  <1>9. ASSUME NEW l \in Nat, NEW m \in 0..middle, NEW colour
        PROVE  LET S == toLeft(l, m, colour)
               IN  /\ S.colour = colour
                   /\ S.at \subseteq 0..(b.w * b.h - 1)
                   /\ \A x \in 0..(b.w - 1), v \in Int :
                        v * b.w + x \in S.at <=> v = y /\ x < middle /\ middle - 1 - x \in l..(m - 1)
    <2> DEFINE S == toLeft(l, m, colour)
    <2>1. S.colour = colour /\ S.at = {at(middle - k - 1) : k \in l..(m - 1)}
      BY DEF Stroke
    <2>2. \A k \in l..(m - 1) : middle - k - 1 \in 0..(b.w - 1)
      BY <1>1
    <2>3. S.at \subseteq 0..(b.w * b.h - 1)
      BY <2>1, <2>2, PlaceInMap
    <2>4. ASSUME NEW x \in 0..(b.w - 1), NEW v \in Int
          PROVE  v * b.w + x \in S.at <=> v = y /\ x < middle /\ middle - 1 - x \in l..(m - 1)
      <3>1. ASSUME v * b.w + x \in S.at
            PROVE  v = y /\ x < middle /\ middle - 1 - x \in l..(m - 1)
        <4>1. PICK k \in l..(m - 1) : v * b.w + x = y * b.w + (middle - k - 1)
          BY <2>1, <3>1
        <4> DEFINE u == middle - k - 1
        <4>2. u \in 0..(b.w - 1) /\ y \in Int /\ v * b.w + x = y * b.w + u
          BY <2>2, <4>1
        <4>3. k = middle - 1 - u /\ u < middle
          BY <1>1
        <4> HIDE DEF u
        <4>4. x = u /\ v = y
          BY <4>2, PlaceIs
        <4> QED
          BY <4>3, <4>4
      <3>2. ASSUME v = y, x < middle, middle - 1 - x \in l..(m - 1)
            PROVE  v * b.w + x \in S.at
        <4>1. x = middle - (middle - 1 - x) - 1
          BY <1>1
        <4>2. v * b.w + x = at(middle - (middle - 1 - x) - 1)
          BY <3>2, <4>1
        <4> QED
          BY <2>1, <3>2, <4>2
      <3> QED
        BY <3>1, <3>2
    <2> HIDE DEF S
    <2> QED
      BY <2>1, <2>3, <2>4 DEF S
  <1>10. ASSUME NEW l \in Nat, NEW m \in 0..room, NEW colour
         PROVE  LET S == toRight(l, m, colour)
                IN  /\ S.colour = colour
                    /\ S.at \subseteq 0..(b.w * b.h - 1)
                    /\ \A x \in 0..(b.w - 1), v \in Int :
                         v * b.w + x \in S.at <=> v = y /\ x >= middle /\ x - middle \in l..(m - 1)
    <2> DEFINE S == toRight(l, m, colour)
    <2>1. S.colour = colour /\ S.at = {at(middle + k) : k \in l..(m - 1)}
      BY DEF Stroke
    <2>2. \A k \in l..(m - 1) : middle + k \in 0..(b.w - 1)
      BY <1>1
    <2>3. S.at \subseteq 0..(b.w * b.h - 1)
      BY <2>1, <2>2, PlaceInMap
    <2>4. ASSUME NEW x \in 0..(b.w - 1), NEW v \in Int
          PROVE  v * b.w + x \in S.at <=> v = y /\ x >= middle /\ x - middle \in l..(m - 1)
      <3>1. ASSUME v * b.w + x \in S.at
            PROVE  v = y /\ x >= middle /\ x - middle \in l..(m - 1)
        <4>1. PICK k \in l..(m - 1) : v * b.w + x = y * b.w + (middle + k)
          BY <2>1, <3>1
        <4> DEFINE u == middle + k
        <4>2. u \in 0..(b.w - 1) /\ y \in Int /\ v * b.w + x = y * b.w + u
          BY <2>2, <4>1
        <4>3. k = u - middle /\ u >= middle
          BY <1>1
        <4> HIDE DEF u
        <4>4. x = u /\ v = y
          BY <4>2, PlaceIs
        <4> QED
          BY <4>3, <4>4
      <3>2. ASSUME v = y, x >= middle, x - middle \in l..(m - 1)
            PROVE  v * b.w + x \in S.at
        <4>1. x = middle + (x - middle)
          BY <1>1
        <4>2. v * b.w + x = at(middle + (x - middle))
          BY <3>2, <4>1
        <4> QED
          BY <2>1, <3>2, <4>2
      <3> QED
        BY <3>1, <3>2
    <2> HIDE DEF S
    <2> QED
      BY <2>1, <2>3, <2>4 DEF S
  <1>11. ASSUME NEW x \in 0..(b.w - 1)
         PROVE  /\ InPart(s, 1, x, y) <=> x < middle /\ middle - 1 - x \in 0..(left - 1)
                /\ InPart(s, 2, x, y) <=> x >= middle /\ x - middle \in 0..(right - 1)
                /\ InPart(s, 3, x, y) <=> x < middle /\ middle - 1 - x \in left..(farLeft - 1)
                /\ InPart(s, 4, x, y) <=> x >= middle /\ x - middle \in right..(farRight - 1)
    <2>1. middle = s.x + (s.w \div 2)
      BY DEF middle, a
    <2> DEFINE inner == InEllipse(s, x, y, 0)
               outer == InEllipse(s, x, y, s.t)
    <2>2. /\ InPart(s, 1, x, y) <=> x < middle /\ inner
          /\ InPart(s, 2, x, y) <=> ~(x < middle) /\ inner
          /\ InPart(s, 3, x, y) <=> x < middle /\ ~inner /\ outer
          /\ InPart(s, 4, x, y) <=> ~(x < middle) /\ ~inner /\ outer
      BY <2>1 DEF InPart
    <2> HIDE DEF inner, outer
    <2>3. CASE x < middle
      <3>1. across(x) = middle - 1 - x /\ middle - 1 - x \in Nat /\ middle - 1 - x < middle
        BY <1>1, <2>3
      <3>2. /\ inner <=> (middle - 1 - x) * (middle - 1 - x) < limit
            /\ outer <=> (middle - 1 - x) * (middle - 1 - x) < rim
        BY <1>6, <3>1 DEF inner, outer
      <3>3. /\ inner <=> middle - 1 - x < left
            /\ outer <=> middle - 1 - x < farLeft
        BY <1>8, <3>1, <3>2
      <3> QED
        BY <1>1, <1>8, <2>2, <2>3, <3>1, <3>3
    <2>4. CASE ~(x < middle)
      <3>1. across(x) = x - middle /\ x - middle \in Nat /\ x - middle < room
        BY <1>1, <2>4
      <3>2. /\ inner <=> (x - middle) * (x - middle) < limit
            /\ outer <=> (x - middle) * (x - middle) < rim
        BY <1>6, <3>1 DEF inner, outer
      <3>3. /\ inner <=> x - middle < right
            /\ outer <=> x - middle < farRight
        BY <1>8, <3>1, <3>2
      <3> QED
        BY <1>1, <1>8, <2>2, <2>4, <3>1, <3>3
    <2> QED
      BY <2>3, <2>4
  <1>12. /\ 0 \in Nat /\ left \in Nat /\ right \in Nat
    BY <1>1, <1>8
  <1> HIDE DEF toLeft, toRight, across
  <1>13. CASE part = 1
    <2>1. EllipseRow(b, s, y)[part] = S1
      BY <1>4, <1>13
    <2>2. /\ S1.colour = s.colour /\ S1.at \subseteq 0..(b.w * b.h - 1)
          /\ \A x \in 0..(b.w - 1), v \in Int :
               v * b.w + x \in S1.at <=> v = y /\ x < middle /\ middle - 1 - x \in 0..(left - 1)
      BY <1>8, <1>9, <1>12
    <2> HIDE DEF S1
    <2> QED
      BY <1>11, <1>13, <2>1, <2>2
  <1>14. CASE part = 2
    <2>1. EllipseRow(b, s, y)[part] = S2
      BY <1>4, <1>14
    <2>2. /\ S2.colour = s.colour /\ S2.at \subseteq 0..(b.w * b.h - 1)
          /\ \A x \in 0..(b.w - 1), v \in Int :
               v * b.w + x \in S2.at <=> v = y /\ x >= middle /\ x - middle \in 0..(right - 1)
      BY <1>8, <1>10, <1>12
    <2> HIDE DEF S2
    <2> QED
      BY <1>11, <1>14, <2>1, <2>2
  <1>15. CASE part = 3
    <2>1. EllipseRow(b, s, y)[part] = S3
      BY <1>4, <1>15
    <2>2. /\ S3.colour = s.edge /\ S3.at \subseteq 0..(b.w * b.h - 1)
          /\ \A x \in 0..(b.w - 1), v \in Int :
               v * b.w + x \in S3.at <=> v = y /\ x < middle /\ middle - 1 - x \in left..(farLeft - 1)
      BY <1>8, <1>9, <1>12
    <2> HIDE DEF S3
    <2> QED
      BY <1>11, <1>15, <2>1, <2>2
  <1>16. CASE part = 4
    <2>1. EllipseRow(b, s, y)[part] = S4
      BY <1>4, <1>16
    <2>2. /\ S4.colour = s.edge /\ S4.at \subseteq 0..(b.w * b.h - 1)
          /\ \A x \in 0..(b.w - 1), v \in Int :
               v * b.w + x \in S4.at <=> v = y /\ x >= middle /\ x - middle \in right..(farRight - 1)
      BY <1>8, <1>10, <1>12
    <2> HIDE DEF S4
    <2> QED
      BY <1>11, <1>16, <2>1, <2>2
  <1> QED
    BY <1>5, <1>13, <1>14, <1>15, <1>16

\* Strokes of an ellipse that are in the bitmap and that do what is asked for.
AsEllipse(b, s, strokes, pixel, x, y) ==
    /\ \A i \in DOMAIN strokes : strokes[i].at \subseteq 0..(b.w * b.h - 1)
    /\ Coats(pixel, strokes, y * b.w + x)[Len(strokes)] = Blended(pixel, EllipseAt(s, x, y))

\* Every row of an ellipse that is in the bitmap is painted, part after part.
LEMMA EllipsePixel ==
    ASSUME NEW b, b.w \in Nat \ {0}, b.h \in Nat \ {0}, NEW s, IsEllipse(b, s), NEW pixel,
           NEW x \in 0..(b.w - 1), NEW y \in 0..(b.h - 1)
    PROVE  /\ EllipseStrokes(b, s) # {}
           /\ \A strokes \in EllipseStrokes(b, s) : AsEllipse(b, s, strokes, pixel, x, y)
  <1> DEFINE o == y * b.w + x
             out == Bounds(b, s, s.t)
             parts == RowParts(s)
             rows == out.y1 - out.y0
             h == s.h \div 2
             row(k) == out.y0 + ((k - 1) \div parts)
             part(k) == ((k - 1) % parts) + 1
             all == [k \in 1..(parts * rows) |-> EllipseRow(b, s, row(k))[part(k)]]
  <1>1. /\ out.y0 \in 0..b.h /\ out.y1 \in 0..b.h
        /\ out.y0 <= y <=> s.y - s.t <= y
        /\ y < out.y1 <=> y < s.y + s.h + s.t
    <2>1. /\ b.w \in Nat /\ b.h \in Nat /\ s.t \in Int
          /\ s.x \in Int /\ s.y \in Int /\ s.w \in Int /\ s.h \in Int
      BY DEF IsEllipse
    <2> QED
      BY <2>1, BoundsAre
  <1>2. /\ h \in Nat \ {0} /\ s.w \div 2 \in Nat /\ s.t \in Nat /\ s.h \in Int /\ s.y \in Int
        /\ 2 * h <= s.h
    BY DEF IsEllipse
  <1>3. Quot(s.h, 2) = h
    <2>1. s.h >= 0
      BY <1>2
    <2> QED
      BY <2>1, <1>2 DEF Quot, Abs
  <1> HIDE DEF out
  <1>4. parts \in {2, 4}
    BY DEF RowParts
  <1>5. CASE s.colour.alpha = 0 \/ out.y0 >= out.y1
    <2>1. EllipseStrokes(b, s) = {<<>>}
      BY <1>5 DEF EllipseStrokes, out
    <2>2. Coats(pixel, <<>>, o)[Len(<<>>)] = pixel
      <3>1. Len(<<>>) = 0 /\ \A k \in 1..0 : FALSE
        OBVIOUS
      <3> QED
        BY <3>1, PixelNone
    <2>3. EllipseAt(s, x, y) = <<>>
      <3>1. CASE s.colour.alpha = 0
        BY <3>1 DEF EllipseAt
      <3>2. CASE out.y0 >= out.y1
        <4>1. y < s.y - s.t \/ y >= s.y + s.h + s.t
          BY <1>1, <1>2, <3>2
        <4>2. ~InEllipse(s, x, y, 0) /\ ~InEllipse(s, x, y, s.t)
          <5> DEFINE middle == s.x + (s.w \div 2)
                     u == IF x >= middle THEN x - middle ELSE middle - 1 - x
                     v == y - s.y - h
          <5>1. u \in Nat /\ v \in Int
            BY <1>2 DEF IsEllipse
          <5>2. /\ v >= h + 0 \/ -v >= h + 0
                /\ v >= h + s.t \/ -v >= h + s.t
            BY <1>2, <4>1
          <5>3. /\ InEllipse(s, x, y, 0) <=> InOval(u, v, (s.w \div 2) + 0, h + 0)
                /\ InEllipse(s, x, y, s.t) <=> InOval(u, v, (s.w \div 2) + s.t, h + s.t)
            BY DEF InEllipse
          <5>4. /\ (s.w \div 2) + 0 \in Nat /\ (s.w \div 2) + s.t \in Nat
                /\ h + 0 \in Nat /\ h + s.t \in Nat
            BY <1>2
          <5> HIDE DEF u, v, h
          <5>5. ~InOval(u, v, (s.w \div 2) + 0, h + 0)
            BY <5>1, <5>2, <5>4, OvalEnds
          <5>6. ~InOval(u, v, (s.w \div 2) + s.t, h + s.t)
            BY <5>1, <5>2, <5>4, OvalEnds
          <5> QED
            BY <5>3, <5>5, <5>6
        <4> QED
          BY <4>2 DEF EllipseAt
      <3> QED
        BY <1>5, <3>1, <3>2
    <2>4. \A i \in DOMAIN <<>> : FALSE
      OBVIOUS
    <2> QED
      BY <2>1, <2>2, <2>3, <2>4 DEF Blended, AsEllipse
  <1>6. CASE s.colour.alpha # 0 /\ out.y0 < out.y1
    <2>1. EllipseStrokes(b, s) = {all}
      <3>1. ~(h = 0 \/ h + s.t = 0) /\ ~(out.y0 >= out.y1)
        BY <1>1, <1>2, <1>6
      <3> HIDE DEF h
      <3> QED
        BY <1>3, <1>6, <3>1 DEF EllipseStrokes, RowParts, out
    <2>2. parts * rows \in Nat /\ rows \in Nat
      BY <1>1, <1>4, <1>6
    <2>3. Len(all) = parts * rows /\ DOMAIN all = 1..(parts * rows)
      <3> DEFINE n == parts * rows
      <3>1. all = [i \in 1..n |-> all[i]]
        OBVIOUS
      <3> HIDE DEF all, n
      <3>2. n \in Nat
        BY <2>2 DEF n
      <3> QED
        BY <3>1, <3>2, LenIs DEF n
    <2>4. ASSUME NEW k \in 1..(parts * rows)
          PROVE  /\ row(k) \in 0..(b.h - 1) /\ row(k) \in out.y0..(out.y1 - 1)
                 /\ part(k) \in 1..parts /\ k = (row(k) - out.y0) * parts + part(k)
                 /\ all[k] = EllipseRow(b, s, row(k))[part(k)]
      <3>1. k - 1 \in Nat /\ k - 1 < parts * rows /\ k \in Int
        BY <1>4, <2>2
      <3>2. /\ (k - 1) \div parts \in 0..(rows - 1) /\ (k - 1) % parts \in 0..(parts - 1)
            /\ k - 1 = ((k - 1) \div parts) * parts + ((k - 1) % parts)
        <4>1. CASE parts = 2
          BY <2>2, <3>1, <4>1
        <4>2. CASE parts = 4
          BY <2>2, <3>1, <4>2
        <4> QED
          BY <1>4, <4>1, <4>2
      <3>3. row(k) - out.y0 = (k - 1) \div parts
        BY <1>1, <3>2
      <3>4. k = (row(k) - out.y0) * parts + part(k)
        <4>1. ((k - 1) \div parts) * parts \in Int /\ (k - 1) % parts \in Int
          BY <1>4, <2>2, <3>2
        <4> QED
          BY <3>1, <3>2, <3>3, <4>1
      <3> HIDE DEF part
      <3>5. part(k) \in 1..parts
        BY <1>4, <3>2 DEF part
      <3> QED
        BY <1>1, <2>2, <3>2, <3>4, <3>5
    <2>5. \A i \in DOMAIN all : all[i].at \subseteq 0..(b.w * b.h - 1)
      <3> SUFFICES ASSUME NEW i \in 1..(parts * rows)
                   PROVE  all[i].at \subseteq 0..(b.w * b.h - 1)
        BY <2>3
      <3>1. row(i) \in 0..(b.h - 1) /\ part(i) \in 1..parts /\ all[i] = EllipseRow(b, s, row(i))[part(i)]
        BY <2>4
      <3> HIDE DEF row, part, all
      <3> QED
        BY <3>1, RowIs
    <2>6. ASSUME NEW k \in 1..(parts * rows)
          PROVE  /\ o \in all[k].at <=> row(k) = y /\ InPart(s, part(k), x, y)
                 /\ all[k].colour = IF part(k) \in {1, 2} THEN s.colour ELSE s.edge
      <3>1. row(k) \in 0..(b.h - 1) /\ part(k) \in 1..parts /\ all[k] = EllipseRow(b, s, row(k))[part(k)]
        BY <2>4
      <3> HIDE DEF row, part, all
      <3>2. y \in Int
        OBVIOUS
      <3>3. /\ o \in all[k].at <=> y = row(k) /\ InPart(s, part(k), x, row(k))
            /\ all[k].colour = IF part(k) \in {1, 2} THEN s.colour ELSE s.edge
        BY <3>1, <3>2, RowIs
      <3> QED
        BY <3>3
    <2>7. ASSUME NEW j \in 1..parts, InPart(s, j, x, y), y \in out.y0..(out.y1 - 1)
          PROVE  Coats(pixel, all, o)[Len(all)] = Over(pixel, IF j \in {1, 2} THEN s.colour ELSE s.edge)
      <3> DEFINE one == (y - out.y0) * parts + j
      <3>1. one \in 1..(parts * rows)
        <4>1. y - out.y0 \in 0..(rows - 1)
          BY <1>1, <2>7
        <4>2. CASE parts = 2
          BY <1>1, <4>1, <4>2
        <4>3. CASE parts = 4
          BY <1>1, <4>1, <4>3
        <4> QED
          BY <1>4, <4>2, <4>3
      <3>2. row(one) = y /\ part(one) = j
        <4> DEFINE u == j - 1
                   v == y - out.y0
        <4>1. one - 1 = v * parts + u
          <5>1. (y - out.y0) * parts \in Int /\ j \in Int
            BY <1>1, <1>4
          <5> QED
            BY <5>1
        <4>2. u \in 0..(parts - 1) /\ v \in Int /\ parts \in Nat \ {0}
          BY <1>1, <1>4
        <4>3. u + 1 = j /\ out.y0 + v = y
          BY <1>1, <1>4
        <4> HIDE DEF one, parts, u, v
        <4>4. (v * parts + u) % parts = u /\ (v * parts + u) \div parts = v
          BY <4>2, DivisionIs
        <4> QED
          BY <4>1, <4>3, <4>4
      <3>3. o \in all[one].at /\ all[one].colour = IF j \in {1, 2} THEN s.colour ELSE s.edge
        BY <2>6, <2>7, <3>1, <3>2
      <3>4. ASSUME NEW k \in 1..(parts * rows), o \in all[k].at
            PROVE  k = one
        <4>1. row(k) = y /\ InPart(s, part(k), x, y) /\ part(k) \in 1..parts
          BY <2>4, <2>6, <3>4
        <4>2. k = (row(k) - out.y0) * parts + part(k)
          BY <2>4
        <4>3. part(k) = j
          <5> HIDE DEF part
          <5>1. part(k) \in {1, 2, 3, 4} /\ j \in {1, 2, 3, 4}
            BY <1>4, <4>1
          <5> QED
            BY <2>7, <4>1, <5>1 DEF InPart
        <4> QED
          BY <4>1, <4>2, <4>3
      <3>5. /\ Len(all) \in Nat /\ one \in 1..Len(all)
            /\ \A k \in 1..Len(all) : k # one => o \notin all[k].at
        BY <2>2, <2>3, <3>1, <3>4
      <3> HIDE DEF all, one, o
      <3>6. Coats(pixel, all, o)[Len(all)] = Over(pixel, all[one].colour)
        BY <3>3, <3>5, PixelOnce
      <3> QED
        BY <3>3, <3>6
    <2>8. ASSUME \A j \in 1..parts : ~(InPart(s, j, x, y) /\ y \in out.y0..(out.y1 - 1))
          PROVE  Coats(pixel, all, o)[Len(all)] = pixel
      <3>1. ASSUME NEW k \in 1..Len(all) PROVE o \notin all[k].at
        <4>1. k \in 1..(parts * rows)
          BY <2>3
        <4>2. row(k) \in out.y0..(out.y1 - 1) /\ part(k) \in 1..parts
          BY <2>4, <4>1
        <4> HIDE DEF row, part, all
        <4> QED
          BY <2>6, <2>8, <4>1, <4>2
      <3>2. Len(all) \in Nat
        BY <2>2, <2>3
      <3> HIDE DEF all, o
      <3> QED
        BY <3>1, <3>2, PixelNone
    <2> HIDE DEF all
    <2> DEFINE middle == s.x + (s.w \div 2)
    <2>9. Coats(pixel, all, o)[Len(all)] = Blended(pixel, EllipseAt(s, x, y))
      <3>1. CASE ~(y \in out.y0..(out.y1 - 1))
        <4>1. y < s.y - s.t \/ y >= s.y + s.h + s.t
          BY <1>1, <1>2, <3>1
        <4>2. ~InEllipse(s, x, y, 0) /\ ~InEllipse(s, x, y, s.t)
          <5> DEFINE u == IF x >= middle THEN x - middle ELSE middle - 1 - x
                     v == y - s.y - h
          <5>1. u \in Nat /\ v \in Int
            BY <1>2 DEF IsEllipse
          <5>2. /\ v >= h + 0 \/ -v >= h + 0
                /\ v >= h + s.t \/ -v >= h + s.t
            BY <1>2, <4>1
          <5>3. /\ InEllipse(s, x, y, 0) <=> InOval(u, v, (s.w \div 2) + 0, h + 0)
                /\ InEllipse(s, x, y, s.t) <=> InOval(u, v, (s.w \div 2) + s.t, h + s.t)
            BY DEF InEllipse
          <5>4. /\ (s.w \div 2) + 0 \in Nat /\ (s.w \div 2) + s.t \in Nat
                /\ h + 0 \in Nat /\ h + s.t \in Nat
            BY <1>2
          <5> HIDE DEF u, v, h
          <5>5. ~InOval(u, v, (s.w \div 2) + 0, h + 0)
            BY <5>1, <5>2, <5>4, OvalEnds
          <5>6. ~InOval(u, v, (s.w \div 2) + s.t, h + s.t)
            BY <5>1, <5>2, <5>4, OvalEnds
          <5> QED
            BY <5>3, <5>5, <5>6
        <4>3. Coats(pixel, all, o)[Len(all)] = pixel
          BY <2>8, <3>1
        <4> QED
          BY <4>2, <4>3 DEF EllipseAt, Blended
      <3>2. CASE y \in out.y0..(out.y1 - 1) /\ InEllipse(s, x, y, 0)
        <4>1. PICK j \in {1, 2} : InPart(s, j, x, y)
          <5>1. CASE x < middle
            BY <3>2, <5>1 DEF InPart
          <5>2. CASE ~(x < middle)
            BY <3>2, <5>2 DEF InPart
          <5> QED
            BY <5>1, <5>2
        <4>2. j \in 1..parts
          BY <1>4, <4>1
        <4>3. Coats(pixel, all, o)[Len(all)] = Over(pixel, s.colour)
          BY <2>7, <3>2, <4>1, <4>2
        <4> QED
          BY <1>6, <3>2, <4>3 DEF EllipseAt, Blended
      <3>3. CASE /\ y \in out.y0..(out.y1 - 1) /\ ~InEllipse(s, x, y, 0)
                 /\ HasBorder(s) /\ InEllipse(s, x, y, s.t)
        <4>1. PICK j \in {3, 4} : InPart(s, j, x, y)
          <5>1. CASE x < middle
            BY <3>3, <5>1 DEF InPart
          <5>2. CASE ~(x < middle)
            BY <3>3, <5>2 DEF InPart
          <5> QED
            BY <5>1, <5>2
        <4>2. j \in 1..parts
          BY <3>3, <4>1 DEF RowParts
        <4>3. Coats(pixel, all, o)[Len(all)] = Over(pixel, s.edge)
          BY <2>7, <3>3, <4>1, <4>2
        <4> QED
          BY <1>6, <3>3, <4>3 DEF EllipseAt, Blended
      <3>4. CASE ~InEllipse(s, x, y, 0) /\ ~(HasBorder(s) /\ InEllipse(s, x, y, s.t))
        <4>1. \A j \in 1..parts : ~InPart(s, j, x, y)
          <5> SUFFICES ASSUME NEW j \in 1..parts PROVE ~InPart(s, j, x, y)
            OBVIOUS
          <5>1. CASE HasBorder(s)
            <6>1. j \in {1, 2, 3, 4}
              BY <1>4
            <6> QED
              BY <3>4, <5>1, <6>1 DEF InPart
          <5>2. CASE ~HasBorder(s)
            <6>1. j \in {1, 2}
              BY <5>2 DEF RowParts
            <6> QED
              BY <3>4, <6>1 DEF InPart
          <5> QED
            BY <5>1, <5>2
        <4>2. Coats(pixel, all, o)[Len(all)] = pixel
          BY <2>8, <4>1
        <4> QED
          BY <3>4, <4>2 DEF EllipseAt, Blended
      <3> QED
        BY <3>1, <3>2, <3>3, <3>4
    <2> QED
      BY <2>1, <2>5, <2>9 DEF AsEllipse
  <1> QED
    BY <1>1, <1>5, <1>6

\* After an ellipse the canvas is as it was asked for.
LEMMA RequestRounds == RequestInv => EllipseAsAsked
  <1> DEFINE s == last.shape
             a == s.w \div 2
             h == s.h \div 2
             middle == s.x + a
  <1> SUFFICES ASSUME RequestInv, last.op = "ellipse",
                      s.w >= 0, h > 0, s.t >= 0, middle \in 0..Bitmap.w
               PROVE  EllipseAsAsked
    BY DEF EllipseAsAsked
  <1>1. /\ s \in Ellipses /\ DOMAIN before = Offsets
        /\ EllipseStrokes(Bitmap, s) = {} \/ \E strokes \in EllipseStrokes(Bitmap, s) : Drawn(strokes)
    BY DEF RequestInv, Plain
  <1>2. IsEllipse(Bitmap, s)
    <2>1. s.x \in Int /\ s.y \in Int /\ s.w \in Int /\ s.h \in Int /\ s.t \in Int
      BY <1>1, ShapesAssumption
    <2> QED
      BY <2>1 DEF IsEllipse
  <1>3. Bitmap.w \in Nat \ {0} /\ Bitmap.h \in Nat \ {0}
    BY SizeOfBitmap
  <1>4. 0 \in 0..(Bitmap.w - 1) /\ 0 \in 0..(Bitmap.h - 1)
    BY <1>3
  <1>5. EllipseStrokes(Bitmap, s) # {}
    BY <1>2, <1>3, <1>4, EllipsePixel
  <1>6. PICK strokes \in EllipseStrokes(Bitmap, s) : Drawn(strokes)
    BY <1>1, <1>5
  <1> HIDE DEF s
  <1>7. ~Wild(before, strokes)
    <2>1. AsEllipse(Bitmap, s, strokes, <<>>, 0, 0)
      BY <1>2, <1>3, <1>4, <1>6, EllipsePixel
    <2> QED
      BY <1>1, <2>1 DEF Wild, Offsets, AsEllipse
  <1>8. outcome = "done" /\ px = Painted(before, strokes)
    BY <1>6, <1>7 DEF Drawn
  <1>9. ASSUME NEW p \in Points
        PROVE  Pixel(px, p) = Blended(Pixel(before, p), EllipseAt(s, p[1], p[2]))
    <2> DEFINE o == Offset(Bitmap, p)
    <2>1. /\ p[1] \in 0..(Bitmap.w - 1) /\ p[2] \in 0..(Bitmap.h - 1)
          /\ o \in DOMAIN before /\ o = p[2] * Bitmap.w + p[1]
      BY <1>1, SizeOfBitmap
    <2>2. px[o] = Coats(before[o], strokes, o)[Len(strokes)]
      BY <1>8, <2>1 DEF Painted
    <2>3. Coats(before[o], strokes, o)[Len(strokes)] = Blended(before[o], EllipseAt(s, p[1], p[2]))
      <3> DEFINE x == p[1]
                 y == p[2]
                 pixel == before[o]
      <3>1. x \in 0..(Bitmap.w - 1) /\ y \in 0..(Bitmap.h - 1) /\ o = y * Bitmap.w + x
        BY <2>1
      <3> HIDE DEF x, y, pixel, o, a, h, middle
      <3>2. AsEllipse(Bitmap, s, strokes, pixel, x, y)
        BY <1>2, <1>3, <1>6, <3>1, EllipsePixel
      <3>3. Coats(pixel, strokes, y * Bitmap.w + x)[Len(strokes)] = Blended(pixel, EllipseAt(s, x, y))
        BY <3>2 DEF AsEllipse
      <3> QED
        BY <3>1, <3>3 DEF x, y, pixel
    <2> QED
      BY <2>2, <2>3 DEF Pixel
  <1> DEFINE across(p) == IF p[1] >= middle THEN p[1] - middle ELSE middle - 1 - p[1]
             down(p) == p[2] - s.y - h
             square(n) == n * n
             within(p, r, t) == square(across(p) * t) + square(down(p) * r) < square(r * t)
  <1>10. ASSUME NEW p
         PROVE  EllipseAt(s, p[1], p[2])
                  = IF s.colour.alpha = 0 THEN <<>>
                    ELSE IF within(p, a, h) THEN <<s.colour>>
                    ELSE IF HasBorder(s) /\ within(p, a + s.t, h + s.t) THEN <<s.edge>> ELSE <<>>
    <2>1. a + 0 = a /\ h + 0 = h
      BY <1>2 DEF IsEllipse
    <2>2. /\ InEllipse(s, p[1], p[2], 0) <=> within(p, a, h)
          /\ InEllipse(s, p[1], p[2], s.t) <=> within(p, a + s.t, h + s.t)
      BY <2>1 DEF InEllipse, InOval
    <2> HIDE DEF within
    <2> QED
      BY <2>2 DEF EllipseAt
  <1> QED
    BY <1>8, <1>9, <1>10 DEF EllipseAsAsked, PaintedAsAsked, s

\* Ellipse::paint, for bitmaps and ellipses of any size, wherever the middle of one
\* is in the bitmap.
THEOREM AlwaysEllipseAsAsked == PaintingSpec => []EllipseAsAsked
  <1> QED
    BY RequestInit, RequestNext, RequestRounds, PTL DEF PaintingSpec

-----------------------------------------------------------------------------
(* Lines *)

\* n on the way from a to b.
Gone(a, b, n) == IF a < b THEN a + n ELSE a - n

\* One step more on the way is one sign of the difference more.
LEMMA GoneIs ==
    \A a, b \in Int : Gone(a, b, 0) = a /\ \A n \in Int : Gone(a, b, n + 1) = Gone(a, b, n) + Sign(a, b)
  BY DEF Gone, Sign

Long(p, q) == IF Abs(q[1] - p[1]) >= Abs(q[2] - p[2]) THEN Abs(q[1] - p[1]) ELSE Abs(q[2] - p[2])

\* How far from the line one is after i steps along it and j across, in pixels
\* times the length of the line.
Off(dx, dy, i, j) == j * dx - i * dy

\* One step of Bresenham's algorithm: along the longer side always, along the other
\* one when the line is half a pixel away.
NearAt(dx, dy, i, j, long) == 2 * Off(dx, dy, i, j) <= long /\ -long <= 2 * Off(dx, dy, i, j)

StepNear(dx, dy, i, j, long, e) ==
    LET u == IF 2 * e >= -dy THEN i + 1 ELSE i
        v == IF 2 * e <= dx THEN j + 1 ELSE j
    IN  /\ e + (IF 2 * e >= -dy THEN -dy ELSE 0) + (IF 2 * e <= dx THEN dx ELSE 0)
             = Off(dx, dy, u + 1, v + 1)
        /\ NearAt(dx, dy, u, v, long)
        /\ dx >= dy => u = i + 1
        /\ dx < dy => v = j + 1

\* One turn of the loop: the error term decides for the step that stays within half a pixel.
LEMMA StepStaysNear ==
    ASSUME NEW dx \in Nat, NEW dy \in Nat, NEW long \in Nat, long = IF dx >= dy THEN dx ELSE dy,
           NEW i \in Nat, NEW j \in Nat, NEW e \in Int, e = Off(dx, dy, i + 1, j + 1),
           NearAt(dx, dy, i, j, long)
    PROVE  StepNear(dx, dy, i, j, long, e)
  <1> USE DEF StepNear, NearAt
  <1> DEFINE f == Off(dx, dy, i, j)
  <1>1. /\ f \in Int /\ e = f + dx - dy
        /\ Off(dx, dy, i + 1, j) = f - dy /\ Off(dx, dy, i, j + 1) = f + dx
        /\ Off(dx, dy, i + 1, j + 1) = f + dx - dy
        /\ Off(dx, dy, (i + 1) + 1, j + 1) = e - dy /\ Off(dx, dy, i + 1, (j + 1) + 1) = e + dx
        /\ Off(dx, dy, (i + 1) + 1, (j + 1) + 1) = e - dy + dx
    <2>1. /\ j * dx \in Int /\ i * dy \in Int
          /\ (j + 1) * dx = j * dx + dx /\ (i + 1) * dy = i * dy + dy
          /\ ((j + 1) + 1) * dx = j * dx + dx + dx /\ ((i + 1) + 1) * dy = i * dy + dy + dy
      OBVIOUS
    <2> QED
      BY <2>1 DEF Off
  <1> HIDE DEF f
  <1>2. 2 * f <= long /\ -long <= 2 * f
    BY DEF f
  <1>3. CASE 2 * e >= -dy /\ 2 * e <= dx
    BY <1>1, <1>2, <1>3
  <1>4. CASE 2 * e >= -dy /\ ~(2 * e <= dx)
    BY <1>1, <1>2, <1>4
  <1>5. CASE ~(2 * e >= -dy) /\ 2 * e <= dx
    BY <1>1, <1>2, <1>5
  <1>6. CASE ~(2 * e >= -dy) /\ ~(2 * e <= dx)
    BY <1>1, <1>2, <1>6
  <1> QED
    BY <1>3, <1>4, <1>5, <1>6

\* Who is as far along the longer side as the line is at its end.
LEMMA NearTheEnd ==
    ASSUME NEW dx \in Nat, NEW dy \in Nat, NEW j \in Nat, dy <= dx, dx > 0,
           NEW i \in 0..dx, 2 * (j * dx - i * dy) <= dx, -dx <= 2 * (j * dx - i * dy)
    PROVE  j <= dy /\ (i = dx => j = dy)
  <1>1. ASSUME j >= dy + 1 PROVE FALSE
    <2> DEFINE d == j - dy - 1
               g == dx - i
    <2>1. d \in Nat /\ g \in Nat /\ j = d + dy + 1 /\ i = dx - g
      BY <1>1
    <2> HIDE DEF d, g
    <2>2. /\ j * dx = d * dx + dy * dx + dx /\ i * dy = dx * dy - g * dy
          /\ d * dx \in Nat /\ g * dy \in Nat /\ dy * dx = dx * dy /\ dx * dy \in Nat
      BY <2>1
    <2> QED
      BY <2>2
  <1>2. ASSUME i = dx, j < dy PROVE FALSE
    <2> DEFINE d == dy - j - 1
    <2>1. d \in Nat /\ j = dy - 1 - d
      BY <1>2
    <2> HIDE DEF d
    <2>2. /\ j * dx = dy * dx - dx - d * dx /\ i * dy = dy * dx
          /\ d * dx \in Nat /\ dy * dx \in Nat
      BY <1>2, <2>1
    <2> QED
      BY <2>2
  <1> QED
    BY <1>1, <1>2

\* The recursion in CourseSteps has a solution, and it is that one.
LEMMA CourseStepsAre ==
    ASSUME NEW p \in Int \X Int, NEW q \in Int \X Int
    PROVE  LET at == CourseSteps(p, q)
               dx == Abs(q[1] - p[1])
               dy == Abs(q[2] - p[2])
           IN  /\ DOMAIN at = 0..(dx + dy) /\ at[0] = [x |-> p[1], y |-> p[2], e |-> dx - dy]
               /\ \A k \in 1..(dx + dy) : at[k] = CourseStep(p, q, at[k-1])
  <1> DEFINE dx == Abs(q[1] - p[1])
             dy == -Abs(q[2] - p[2])
             n == dx - dy
             start == [x |-> p[1], y |-> p[2], e |-> dx + dy]
             Next1(f, k) == IF k = 0 THEN start ELSE CourseStep(p, q, f[k-1])
             P(f, m) == f = [k \in 0..m |-> Next1(f, k)]
             I == {m \in Nat : \E f : P(f, m)}
  <1>0. dx \in Int /\ dy \in Int /\ n \in Nat /\ n = Abs(q[1] - p[1]) + Abs(q[2] - p[2])
        /\ dx + dy = Abs(q[1] - p[1]) - Abs(q[2] - p[2])
    BY DEF Abs
  <1>1. 0 \in I
    <2>1. P([k \in 0..0 |-> start], 0)
      OBVIOUS
    <2> QED
      BY <2>1
  <1>2. ASSUME NEW m \in Nat, m \in I PROVE m + 1 \in I
    <2>1. PICK f : P(f, m)
      BY <1>2
    <2> DEFINE new == CourseStep(p, q, f[m])
               g == [k \in 0..(m+1) |-> IF k = m + 1 THEN new ELSE f[k]]
    <2> HIDE DEF new, start
    <2>2. ASSUME NEW k \in 0..(m+1) PROVE g[k] = Next1(g, k)
      <3>1. CASE k = m + 1
        <4>1. g[m] = f[m] /\ (m + 1) - 1 = m /\ m + 1 # 0 /\ g[m + 1] = new
          OBVIOUS
        <4> HIDE DEF g
        <4> QED
          BY <3>1, <4>1 DEF new
      <3>2. CASE k = 0
        BY <2>1, <3>2
      <3>3. CASE k \in 1..m
        <4>1. k - 1 \in 0..m /\ g[k] = f[k] /\ g[k-1] = f[k-1] /\ k # 0
          BY <3>3
        <4>2. f[k] = Next1(f, k)
          BY <2>1, <3>3
        <4> HIDE DEF g
        <4> QED
          BY <4>1, <4>2
      <3> QED
        BY <3>1, <3>2, <3>3
    <2>3. g = [k \in 0..(m+1) |-> g[k]]
      OBVIOUS
    <2>4. P(g, m + 1)
      <3> HIDE DEF g
      <3> QED
        BY <2>2, <2>3
    <2> HIDE DEF g, P
    <2> QED
      BY <2>4
  <1> HIDE DEF I
  <1>3. n \in I
    BY <1>0, <1>1, <1>2, SetInduction
  <1>4. PICK f : P(f, n)
    BY <1>3 DEF I
  <1>5. P(CourseSteps(p, q), n)
    <2>1. CourseSteps(p, q) = CHOOSE h : P(h, n)
      BY DEF CourseSteps
    <2> HIDE DEF P
    <2> QED
      BY <1>4, <2>1
  <1> DEFINE at == CourseSteps(p, q)
  <1> HIDE DEF n, start, at
  <1>6. DOMAIN at = 0..n /\ at[0] = start
    BY <1>0, <1>5 DEF at
  <1>7. ASSUME NEW k \in 1..n PROVE at[k] = CourseStep(p, q, at[k-1])
    <2>1. k \in 0..n /\ k # 0
      BY <1>0
    <2> QED
      BY <1>5, <2>1 DEF at
  <1> QED
    BY <1>0, <1>6, <1>7 DEF start, at

\* Where the algorithm is after k steps: i pixels from p in one direction and j in
\* the other, not further than half a pixel from the line.
OnCourse(p, q, k, s) ==
    LET dx == Abs(q[1] - p[1])
        dy == Abs(q[2] - p[2])
    IN  \E i, j \in Nat :
            /\ s = [x |-> Gone(p[1], q[1], i), y |-> Gone(p[2], q[2], j), e |-> Off(dx, dy, i + 1, j + 1)]
            /\ NearAt(dx, dy, i, j, Long(p, q))
            /\ dx >= dy => i = k
            /\ dx < dy => j = k

\* ... and so does each of the steps, as far as the end.
LEMMA CourseStaysNear ==
    ASSUME NEW p \in Int \X Int, NEW q \in Int \X Int
    PROVE  \A k \in 0..Long(p, q) : k \in DOMAIN CourseSteps(p, q) /\ OnCourse(p, q, k, CourseSteps(p, q)[k])
  <1> DEFINE at == CourseSteps(p, q)
             dx == Abs(q[1] - p[1])
             dy == Abs(q[2] - p[2])
             long == Long(p, q)
             I == {k \in Nat : k <= long => OnCourse(p, q, k, at[k])}
  <1>1. dx \in Nat /\ dy \in Nat /\ p[1] \in Int /\ q[1] \in Int /\ p[2] \in Int /\ q[2] \in Int
        /\ long = (IF dx >= dy THEN dx ELSE dy) /\ long \in Nat /\ long <= dx + dy
    BY DEF Abs, Long
  <1>2. /\ DOMAIN at = 0..(dx + dy) /\ at[0] = [x |-> p[1], y |-> p[2], e |-> dx - dy]
        /\ \A k \in 1..(dx + dy) : at[k] = CourseStep(p, q, at[k-1])
    BY CourseStepsAre
  <1> HIDE DEF at, dx, dy, long
  <1>3. 0 \in I
    <2>1. Gone(p[1], q[1], 0) = p[1] /\ Gone(p[2], q[2], 0) = p[2]
      BY <1>1, GoneIs
    <2>2. Off(dx, dy, 0 + 1, 0 + 1) = dx - dy /\ Off(dx, dy, 0, 0) = 0
      BY <1>1 DEF Off
    <2>3. /\ 0 \in Nat
          /\ at[0] = [x |-> Gone(p[1], q[1], 0), y |-> Gone(p[2], q[2], 0), e |-> Off(dx, dy, 0 + 1, 0 + 1)]
          /\ NearAt(dx, dy, 0, 0, long)
      BY <1>1, <1>2, <2>1, <2>2 DEF NearAt
    <2>4. OnCourse(p, q, 0, at[0])
      BY <2>3 DEF OnCourse, dx, dy, long
    <2> QED
      BY <2>4
  <1>4. ASSUME NEW k \in Nat, k \in I PROVE k + 1 \in I
    <2> SUFFICES ASSUME k + 1 <= long PROVE OnCourse(p, q, k + 1, at[k + 1])
      OBVIOUS
    <2>1. k <= long /\ k + 1 \in 1..(dx + dy) /\ (k + 1) - 1 = k
      BY <1>1
    <2>2. PICK i \in Nat, j \in Nat :
            /\ at[k] = [x |-> Gone(p[1], q[1], i), y |-> Gone(p[2], q[2], j), e |-> Off(dx, dy, i + 1, j + 1)]
            /\ NearAt(dx, dy, i, j, long)
            /\ dx >= dy => i = k
            /\ dx < dy => j = k
      BY <1>4, <2>1 DEF OnCourse, dx, dy, long
    <2> DEFINE e == Off(dx, dy, i + 1, j + 1)
               u == IF 2 * e >= -dy THEN i + 1 ELSE i
               v == IF 2 * e <= dx THEN j + 1 ELSE j
               new == e + (IF 2 * e >= -dy THEN -dy ELSE 0) + (IF 2 * e <= dx THEN dx ELSE 0)
    <2>3. e \in Int
      BY <1>1 DEF Off
    <2>4. /\ new = Off(dx, dy, u + 1, v + 1)
          /\ NearAt(dx, dy, u, v, long)
          /\ dx >= dy => u = i + 1
          /\ dx < dy => v = j + 1
      <3>1. e = Off(dx, dy, i + 1, j + 1)
        OBVIOUS
      <3>2. StepNear(dx, dy, i, j, long, e)
        <4> HIDE DEF e
        <4> QED
          BY <1>1, <2>2, <2>3, <3>1, StepStaysNear
      <3> QED
        BY <3>2 DEF StepNear
    <2>5. /\ at[k].x = Gone(p[1], q[1], i) /\ at[k].y = Gone(p[2], q[2], j) /\ at[k].e = e
      BY <2>2
    <2> HIDE DEF e
    <2>6. at[k + 1] = CourseStep(p, q, at[k])
      BY <1>2, <2>1
    <2>7. /\ CourseStep(p, q, at[k]).x = Gone(p[1], q[1], u)
          /\ CourseStep(p, q, at[k]).y = Gone(p[2], q[2], v)
          /\ CourseStep(p, q, at[k]).e = new
          /\ CourseStep(p, q, at[k]) = [x |-> CourseStep(p, q, at[k]).x, y |-> CourseStep(p, q, at[k]).y,
                                        e |-> CourseStep(p, q, at[k]).e]
      <3>1. /\ Gone(p[1], q[1], i + 1) = Gone(p[1], q[1], i) + Sign(p[1], q[1])
            /\ Gone(p[2], q[2], j + 1) = Gone(p[2], q[2], j) + Sign(p[2], q[2])
        <4>1. \A a, b, n \in Int : Gone(a, b, n + 1) = Gone(a, b, n) + Sign(a, b)
          BY GoneIs
        <4> QED
          BY <1>1, <4>1
      <3> QED
        BY <2>5, <3>1 DEF CourseStep, dx, dy
    <2> HIDE DEF u, v, new
    <2>8. at[k + 1] = [x |-> Gone(p[1], q[1], u), y |-> Gone(p[2], q[2], v), e |-> Off(dx, dy, u + 1, v + 1)]
      BY <2>4, <2>6, <2>7
    <2>9. u \in Nat /\ v \in Nat
      BY DEF u, v
    <2> QED
      BY <2>2, <2>4, <2>8, <2>9 DEF OnCourse, dx, dy, long
  <1>5. Nat \subseteq I
    <2> HIDE DEF I
    <2> QED
      BY <1>3, <1>4, SetInduction
  <1>6. ASSUME NEW k \in 0..long PROVE k \in DOMAIN at /\ OnCourse(p, q, k, at[k])
    <2>1. k \in I /\ k <= long /\ k \in 0..(dx + dy)
      BY <1>1, <1>5
    <2> QED
      BY <1>2, <2>1
  <1> QED
    BY <1>6 DEF at, long

\* How far a point is from the line from p to q, in pixels times its length.
FarFrom(p, q, r) == Abs((r[1] - p[1]) * (q[2] - p[2]) - (r[2] - p[2]) * (q[1] - p[1]))

\* In which point of the plane one is then.
LEMMA GoneFar ==
    ASSUME NEW p \in Int \X Int, NEW q \in Int \X Int, NEW i \in Nat, NEW j \in Nat, NEW long \in Nat,
           NearAt(Abs(q[1] - p[1]), Abs(q[2] - p[2]), i, j, long)
    PROVE  2 * FarFrom(p, q, <<Gone(p[1], q[1], i), Gone(p[2], q[2], j)>>) <= long
  <1> DEFINE dx == Abs(q[1] - p[1])
             dy == Abs(q[2] - p[2])
             f == Off(dx, dy, i, j)
  <1>1. p[1] \in Int /\ p[2] \in Int /\ q[1] \in Int /\ q[2] \in Int
    OBVIOUS
  <1>2. dx \in Int /\ dy \in Int /\ i * dy \in Int /\ j * dx \in Int /\ f = j * dx - i * dy
    BY <1>1 DEF Abs, Off
  <1>3. \/ Gone(p[1], q[1], i) - p[1] = i /\ q[1] - p[1] = dx
        \/ Gone(p[1], q[1], i) - p[1] = -i /\ q[1] - p[1] = -dx
    BY <1>1 DEF Gone, Abs
  <1>4. \/ Gone(p[2], q[2], j) - p[2] = j /\ q[2] - p[2] = dy
        \/ Gone(p[2], q[2], j) - p[2] = -j /\ q[2] - p[2] = -dy
    BY <1>1 DEF Gone, Abs
  <1> HIDE DEF dx, dy, f
  <1> DEFINE a == Gone(p[1], q[1], i) - p[1]
             b == Gone(p[2], q[2], j) - p[2]
             u == q[1] - p[1]
             v == q[2] - p[2]
  <1>5. a * v - b * u \in {f, -f}
    <2> HIDE DEF a, b, u, v
    <2>0. (a = i /\ u = dx) \/ (a = -i /\ u = -dx)
      BY <1>3 DEF a, u
    <2>00. (b = j /\ v = dy) \/ (b = -j /\ v = -dy)
      BY <1>4 DEF b, v
    <2>1. i * (-dy) = -(i * dy) /\ (-i) * dy = -(i * dy) /\ (-i) * (-dy) = i * dy
      BY <1>2
    <2>2. j * (-dx) = -(j * dx) /\ (-j) * dx = -(j * dx) /\ (-j) * (-dx) = j * dx
      BY <1>2
    <2>3. CASE a = i /\ u = dx /\ b = j /\ v = dy
      BY <1>2, <2>3
    <2>4. CASE a = i /\ u = dx /\ b = -j /\ v = -dy
      BY <1>2, <2>1, <2>2, <2>4
    <2>5. CASE a = -i /\ u = -dx /\ b = j /\ v = dy
      BY <1>2, <2>1, <2>2, <2>5
    <2>6. CASE a = -i /\ u = -dx /\ b = -j /\ v = -dy
      BY <1>2, <2>1, <2>2, <2>6
    <2> QED
      BY <2>0, <2>00, <2>3, <2>4, <2>5, <2>6
  <1>6. FarFrom(p, q, <<Gone(p[1], q[1], i), Gone(p[2], q[2], j)>>) = Abs(a * v - b * u)
    BY DEF FarFrom
  <1> HIDE DEF a, b, u, v
  <1>7. 2 * f <= long /\ -long <= 2 * f /\ f \in Int
    BY <1>2 DEF f, dx, dy, NearAt
  <1> QED
    BY <1>5, <1>6, <1>7 DEF Abs

\* A path of pixels from p to q that is as long as the longer side.
Path(path, p, q) ==
    /\ path = [k \in 1..(Long(p, q) + 1) |-> path[k]]
    /\ path[1] = p /\ path[Long(p, q) + 1] = q
    /\ \A k \in 1..(Long(p, q) + 1) :
        path[k] \in Points /\ 2 * FarFrom(p, q, path[k]) <= Long(p, q)
    /\ \A j, k \in 1..(Long(p, q) + 1) : path[j] = path[k] => j = k

\* The loop comes to the end after as many steps as the longer side has.
LEMMA CourseIsPath ==
    ASSUME NEW p \in Points, NEW q \in Points, p[1] # q[1], p[2] # q[2]
    PROVE  Path(Course(p, q), p, q)
  <1> DEFINE at == CourseSteps(p, q)
             dx == Abs(q[1] - p[1])
             dy == Abs(q[2] - p[2])
             long == Long(p, q)
             pt(k) == <<at[k].x, at[k].y>>
  <1>1. /\ p = <<p[1], p[2]>> /\ q = <<q[1], q[2]>> /\ p \in Int \X Int /\ q \in Int \X Int
        /\ p[1] \in Int /\ p[2] \in Int /\ q[1] \in Int /\ q[2] \in Int
        /\ \A u \in 0..(Bitmap.w - 1), v \in 0..(Bitmap.h - 1) : <<u, v>> \in Points
        /\ p[1] \in 0..(Bitmap.w - 1) /\ q[1] \in 0..(Bitmap.w - 1)
        /\ p[2] \in 0..(Bitmap.h - 1) /\ q[2] \in 0..(Bitmap.h - 1)
        /\ Bitmap.w - 1 \in Nat /\ Bitmap.h - 1 \in Nat
    BY SizeOfBitmap DEF Points
  <1>2. dx \in Nat \ {0} /\ dy \in Nat \ {0} /\ long = (IF dx >= dy THEN dx ELSE dy) /\ long \in Nat
    BY <1>1 DEF Abs, Long
  <1>3. /\ Gone(p[1], q[1], 0) = p[1] /\ Gone(p[1], q[1], dx) = q[1]
        /\ Gone(p[2], q[2], 0) = p[2] /\ Gone(p[2], q[2], dy) = q[2]
        /\ \A m, n \in Int : Gone(p[1], q[1], m) = Gone(p[1], q[1], n) => m = n
        /\ \A m, n \in Int : Gone(p[2], q[2], m) = Gone(p[2], q[2], n) => m = n
        /\ \A n \in 0..dx : Gone(p[1], q[1], n) \in 0..(Bitmap.w - 1)
        /\ \A n \in 0..dy : Gone(p[2], q[2], n) \in 0..(Bitmap.h - 1)
    <2>2. ASSUME NEW limit \in Nat, NEW a \in 0..limit, NEW b \in 0..limit, NEW n \in 0..Abs(b - a)
          PROVE  Gone(a, b, n) \in 0..limit
      BY DEF Gone, Abs
    <2>3. \A n \in 0..dx : Gone(p[1], q[1], n) \in 0..(Bitmap.w - 1)
      BY <1>1, <2>2
    <2>4. \A n \in 0..dy : Gone(p[2], q[2], n) \in 0..(Bitmap.h - 1)
      BY <1>1, <2>2
    <2>5. /\ Gone(p[1], q[1], 0) = p[1] /\ Gone(p[1], q[1], dx) = q[1]
          /\ \A m, n \in Int : Gone(p[1], q[1], m) = Gone(p[1], q[1], n) => m = n
      BY <1>1 DEF Gone, Abs
    <2>6. /\ Gone(p[2], q[2], 0) = p[2] /\ Gone(p[2], q[2], dy) = q[2]
          /\ \A m, n \in Int : Gone(p[2], q[2], m) = Gone(p[2], q[2], n) => m = n
      BY <1>1 DEF Gone, Abs
    <2> QED
      BY <2>3, <2>4, <2>5, <2>6
  <1>4. /\ \A k \in 0..long : k \in DOMAIN at /\ OnCourse(p, q, k, at[k])
        /\ at[0] = [x |-> p[1], y |-> p[2], e |-> dx - dy]
        /\ DOMAIN at = 0..(dx + dy)
    BY <1>1, CourseStaysNear, CourseStepsAre
  <1>5. Course(p, q) = LET arrived == {k \in DOMAIN at : pt(k) = q}
                           final == IF arrived = {} THEN dx + dy ELSE Min(arrived)
                       IN  [k \in 1..(final + 1) |-> pt(k - 1)]
    BY DEF Course
  <1> HIDE DEF at, dx, dy, long
  <1>6. ASSUME NEW k \in 0..long
        PROVE  /\ pt(k) \in Points /\ 2 * FarFrom(p, q, pt(k)) <= long
               /\ dx >= dy => pt(k)[1] = Gone(p[1], q[1], k)
               /\ dx < dy => pt(k)[2] = Gone(p[2], q[2], k)
               /\ k = long => pt(k) = q
    <2>1. PICK i \in Nat, j \in Nat :
            /\ at[k] = [x |-> Gone(p[1], q[1], i), y |-> Gone(p[2], q[2], j), e |-> Off(dx, dy, i + 1, j + 1)]
            /\ NearAt(dx, dy, i, j, long)
            /\ dx >= dy => i = k
            /\ dx < dy => j = k
      BY <1>4 DEF OnCourse, dx, dy, long
    <2>2. pt(k) = <<Gone(p[1], q[1], i), Gone(p[2], q[2], j)>>
      BY <2>1
    <2>3. 2 * (j * dx - i * dy) <= long /\ -long <= 2 * (j * dx - i * dy)
      BY <2>1 DEF NearAt, Off
    <2>4. i <= dx /\ j <= dy /\ (k = long => i = dx /\ j = dy)
      <3>1. CASE dx >= dy
        <4>1. i \in 0..dx /\ dy <= dx /\ dx > 0 /\ long = dx
          BY <1>2, <2>1, <3>1
        <4> QED
          BY <1>2, <2>1, <2>3, <3>1, <4>1, NearTheEnd
      <3>2. CASE dx < dy
        <4>1. j \in 0..dy /\ dx <= dy /\ dy > 0 /\ long = dy
          BY <1>2, <2>1, <3>2
        <4>2. i * dy \in Int /\ j * dx \in Int
          BY <1>2
        <4>3. 2 * (i * dy - j * dx) <= dy /\ -dy <= 2 * (i * dy - j * dx)
          BY <1>2, <2>3, <4>1, <4>2
        <4> QED
          BY <1>2, <2>1, <3>2, <4>1, <4>3, NearTheEnd
      <3> QED
        BY <1>2, <3>1, <3>2
    <2>5. pt(k) \in Points
      <3>1. Gone(p[1], q[1], i) \in 0..(Bitmap.w - 1) /\ Gone(p[2], q[2], j) \in 0..(Bitmap.h - 1)
        BY <1>2, <1>3, <2>4
      <3> QED
        BY <1>1, <2>2, <3>1
    <2>6. 2 * FarFrom(p, q, pt(k)) <= long
      BY <1>1, <1>2, <2>1, <2>2, GoneFar DEF dx, dy
    <2>7. k = long => pt(k) = q
      BY <1>1, <1>3, <2>2, <2>4
    <2>8. pt(k)[1] = Gone(p[1], q[1], i) /\ pt(k)[2] = Gone(p[2], q[2], j)
      BY <2>2
    <2> HIDE DEF pt
    <2> QED
      BY <2>1, <2>5, <2>6, <2>7, <2>8
  <1>7. pt(0) = p
    BY <1>1, <1>4
  <1> HIDE DEF pt
  <1>8. ASSUME NEW j \in 0..long, NEW k \in 0..long, pt(j) = pt(k) PROVE j = k
    <2>1. CASE dx >= dy
      BY <1>3, <1>6, <1>8, <2>1
    <2>2. CASE dx < dy
      BY <1>3, <1>6, <1>8, <2>2
    <2> QED
      BY <1>2, <2>1, <2>2
  <1>9. Course(p, q) = [k \in 1..(long + 1) |-> pt(k - 1)]
    <2> DEFINE arrived == {k \in DOMAIN at : pt(k) = q}
    <2>1. long \in arrived /\ \A k \in arrived : long <= k
      <3>1. long \in 0..long /\ pt(long) = q
        BY <1>2, <1>6
      <3>2. ASSUME NEW k \in arrived, k < long PROVE FALSE
        <4>1. k \in 0..long
          BY <1>2, <1>4, <3>2
        <4>2. pt(k) = pt(long)
          BY <3>1, <3>2
        <4> HIDE DEF arrived
        <4> QED
          BY <1>8, <3>1, <3>2, <4>1, <4>2
      <3>3. \A k \in arrived : k \in Int
        BY <1>2, <1>4
      <3>4. long \in arrived
        BY <1>4, <3>1
      <3> HIDE DEF arrived
      <3> QED
        BY <1>2, <3>2, <3>3, <3>4
    <2>2. arrived \subseteq Int
      BY <1>2, <1>4
    <2>3. Course(p, q) = LET end == IF arrived = {} THEN dx + dy ELSE Min(arrived)
                         IN  [k \in 1..(end + 1) |-> pt(k - 1)]
      BY <1>5
    <2> HIDE DEF arrived
    <2>4. \A x \in arrived : (\A y \in arrived : x <= y) => x = long
      BY <1>2, <2>1, <2>2
    <2>5. Min(arrived) = long
      BY <2>1, <2>4 DEF Min
    <2> QED
      BY <2>1, <2>3, <2>5
  <1> DEFINE c == Course(p, q)
  <1>10. /\ c = [k \in 1..(long + 1) |-> c[k]] /\ c[1] = p /\ c[long + 1] = q
         /\ \A k \in 1..(long + 1) : c[k] = pt(k - 1)
    <2>1. \A k \in 1..(long + 1) : c[k] = pt(k - 1)
      BY <1>9
    <2>2. 1 \in 1..(long + 1) /\ long + 1 \in 1..(long + 1) /\ 1 - 1 = 0 /\ (long + 1) - 1 = long
          /\ long \in 0..long
      BY <1>2
    <2>3. c[1] = pt(0) /\ c[long + 1] = pt(long)
      <3> HIDE DEF c
      <3> QED
        BY <2>1, <2>2
    <2>4. c = [k \in 1..(long + 1) |-> c[k]]
      BY <1>9
    <2> QED
      BY <1>6, <1>7, <2>1, <2>2, <2>3, <2>4
  <1> HIDE DEF c
  <1>11. \A k \in 1..(long + 1) : k - 1 \in 0..long
    BY <1>2
  <1>12. \A k \in 1..(long + 1) : c[k] \in Points /\ 2 * FarFrom(p, q, c[k]) <= long
    BY <1>6, <1>10, <1>11
  <1>13. ASSUME NEW j \in 1..(long + 1), NEW k \in 1..(long + 1), c[j] = c[k] PROVE j = k
    <2>1. j - 1 = k - 1
      BY <1>8, <1>10, <1>11, <1>13
    <2> QED
      BY <2>1, <1>2
  <1> QED
    BY <1>10, <1>12, <1>13 DEF Path, c, long

\* One that is straight is painted in one stroke.
Straight(p, q) == IF p[2] = q[2]
                  THEN [k \in 1..(Long(p, q) + 1) |-> <<Gone(p[1], q[1], k - 1), p[2]>>]
                  ELSE [k \in 1..(Long(p, q) + 1) |-> <<p[1], Gone(p[2], q[2], k - 1)>>]

\* A horizontal or vertical line is a way from end to end as well.
LEMMA StraightIsPath ==
    ASSUME NEW p \in Points, NEW q \in Points, p[1] = q[1] \/ p[2] = q[2]
    PROVE  Path(Straight(p, q), p, q)
  <1> DEFINE long == Long(p, q)
             path == Straight(p, q)
  <1>1. /\ p = <<p[1], p[2]>> /\ q = <<q[1], q[2]>>
        /\ \A u \in 0..(Bitmap.w - 1), v \in 0..(Bitmap.h - 1) : <<u, v>> \in Points
        /\ p[1] \in 0..(Bitmap.w - 1) /\ q[1] \in 0..(Bitmap.w - 1)
        /\ p[2] \in 0..(Bitmap.h - 1) /\ q[2] \in 0..(Bitmap.h - 1)
        /\ Bitmap.w - 1 \in Nat /\ Bitmap.h - 1 \in Nat
    BY SizeOfBitmap DEF Points
  <1>2. CASE p[2] = q[2]
    <2>1. long = Abs(q[1] - p[1]) /\ long \in Nat
      BY <1>1, <1>2 DEF Long, Abs
    <2>2. /\ Gone(p[1], q[1], 0) = p[1] /\ Gone(p[1], q[1], long) = q[1]
          /\ \A n \in 0..long : Gone(p[1], q[1], n) \in 0..(Bitmap.w - 1)
          /\ \A m, n \in 0..long : Gone(p[1], q[1], m) = Gone(p[1], q[1], n) => m = n
      <3>1. Gone(p[1], q[1], 0) = p[1] /\ Gone(p[1], q[1], long) = q[1]
        BY <1>1, <2>1 DEF Gone, Abs
      <3>2. \A n \in 0..long : Gone(p[1], q[1], n) \in 0..(Bitmap.w - 1)
        BY <1>1, <2>1 DEF Gone, Abs
      <3>3. \A m, n \in 0..long : Gone(p[1], q[1], m) = Gone(p[1], q[1], n) => m = n
        BY <1>1, <2>1 DEF Gone, Abs
      <3> QED
        BY <3>1, <3>2, <3>3
    <2> HIDE DEF long
    <2>3. path = [k \in 1..(long + 1) |-> <<Gone(p[1], q[1], k - 1), p[2]>>]
      BY <1>2 DEF Straight, long
    <2> HIDE DEF path
    <2>4. /\ \A k \in 1..(long + 1) : k - 1 \in 0..long /\ path[k] = <<Gone(p[1], q[1], k - 1), p[2]>>
          /\ path = [k \in 1..(long + 1) |-> path[k]]
      BY <2>1, <2>3
    <2>5. path[1] = p /\ path[long + 1] = q
      <3>1. 1 \in 1..(long + 1) /\ long + 1 \in 1..(long + 1) /\ 1 - 1 = 0 /\ (long + 1) - 1 = long
        BY <2>1
      <3>2. path[1] = <<Gone(p[1], q[1], 0), p[2]>> /\ path[long + 1] = <<Gone(p[1], q[1], long), p[2]>>
        BY <2>4, <3>1
      <3> QED
        BY <1>1, <1>2, <2>2, <3>2
    <2>6. ASSUME NEW k \in 1..(long + 1) PROVE path[k] \in Points /\ 2 * FarFrom(p, q, path[k]) <= long
      <3> DEFINE u == Gone(p[1], q[1], k - 1)
      <3>1. u \in 0..(Bitmap.w - 1) /\ path[k] = <<u, p[2]>>
        BY <2>2, <2>4
      <3> HIDE DEF u
      <3>2. path[k] \in Points
        BY <1>1, <3>1
      <3>3. path[k][1] = u /\ path[k][2] = p[2]
        BY <3>1
      <3>4. FarFrom(p, q, path[k]) = 0
        BY <1>1, <1>2, <3>1, <3>3 DEF FarFrom, Abs
      <3> QED
        BY <2>1, <3>2, <3>4
    <2>7. ASSUME NEW j \in 1..(long + 1), NEW k \in 1..(long + 1), path[j] = path[k] PROVE j = k
      <3>1. path[j][1] = Gone(p[1], q[1], j - 1) /\ path[k][1] = Gone(p[1], q[1], k - 1)
        BY <2>4
      <3>2. j - 1 = k - 1
        BY <2>2, <2>4, <2>7, <3>1
      <3> QED
        BY <2>1, <3>2
    <2> QED
      BY <2>4, <2>5, <2>6, <2>7 DEF Path, long, path
  <1>3. CASE p[2] # q[2] /\ p[1] = q[1]
    <2>1. long = Abs(q[2] - p[2]) /\ long \in Nat
      BY <1>1, <1>3 DEF Long, Abs
    <2>2. /\ Gone(p[2], q[2], 0) = p[2] /\ Gone(p[2], q[2], long) = q[2]
          /\ \A n \in 0..long : Gone(p[2], q[2], n) \in 0..(Bitmap.h - 1)
          /\ \A m, n \in 0..long : Gone(p[2], q[2], m) = Gone(p[2], q[2], n) => m = n
      <3>1. Gone(p[2], q[2], 0) = p[2] /\ Gone(p[2], q[2], long) = q[2]
        BY <1>1, <2>1 DEF Gone, Abs
      <3>2. \A n \in 0..long : Gone(p[2], q[2], n) \in 0..(Bitmap.h - 1)
        BY <1>1, <2>1 DEF Gone, Abs
      <3>3. \A m, n \in 0..long : Gone(p[2], q[2], m) = Gone(p[2], q[2], n) => m = n
        BY <1>1, <2>1 DEF Gone, Abs
      <3> QED
        BY <3>1, <3>2, <3>3
    <2> HIDE DEF long
    <2>3. path = [k \in 1..(long + 1) |-> <<p[1], Gone(p[2], q[2], k - 1)>>]
      BY <1>3 DEF Straight, long
    <2> HIDE DEF path
    <2>4. /\ \A k \in 1..(long + 1) : k - 1 \in 0..long /\ path[k] = <<p[1], Gone(p[2], q[2], k - 1)>>
          /\ path = [k \in 1..(long + 1) |-> path[k]]
      BY <2>1, <2>3
    <2>5. path[1] = p /\ path[long + 1] = q
      <3>1. 1 \in 1..(long + 1) /\ long + 1 \in 1..(long + 1) /\ 1 - 1 = 0 /\ (long + 1) - 1 = long
        BY <2>1
      <3>2. path[1] = <<p[1], Gone(p[2], q[2], 0)>> /\ path[long + 1] = <<p[1], Gone(p[2], q[2], long)>>
        BY <2>4, <3>1
      <3> QED
        BY <1>1, <1>3, <2>2, <3>2
    <2>6. ASSUME NEW k \in 1..(long + 1) PROVE path[k] \in Points /\ 2 * FarFrom(p, q, path[k]) <= long
      <3> DEFINE v == Gone(p[2], q[2], k - 1)
      <3>1. v \in 0..(Bitmap.h - 1) /\ path[k] = <<p[1], v>>
        BY <2>2, <2>4
      <3> HIDE DEF v
      <3>2. path[k] \in Points
        BY <1>1, <3>1
      <3>3. path[k][1] = p[1] /\ path[k][2] = v
        BY <3>1
      <3>4. FarFrom(p, q, path[k]) = 0
        BY <1>1, <1>3, <3>1, <3>3 DEF FarFrom, Abs
      <3> QED
        BY <2>1, <3>2, <3>4
    <2>7. ASSUME NEW j \in 1..(long + 1), NEW k \in 1..(long + 1), path[j] = path[k] PROVE j = k
      <3>1. path[j][2] = Gone(p[2], q[2], j - 1) /\ path[k][2] = Gone(p[2], q[2], k - 1)
        BY <2>4
      <3>2. j - 1 = k - 1
        BY <2>2, <2>4, <2>7, <3>1
      <3> QED
        BY <2>1, <3>2
    <2> QED
      BY <2>4, <2>5, <2>6, <2>7 DEF Path, long, path
  <1> QED
    BY <1>2, <1>3

\* Who is between two numbers is on the way from one to the other.
LEMMA GoneBetween ==
    \A a, b, r \in Int : (\E k \in 1..(Abs(b - a) + 1) : Gone(a, b, k - 1) = r)
                            <=> IF a <= b THEN r \in a..b ELSE r \in b..a
  <1> SUFFICES ASSUME NEW a \in Int, NEW b \in Int, NEW r \in Int
               PROVE  (\E k \in 1..(Abs(b - a) + 1) : Gone(a, b, k - 1) = r)
                            <=> IF a <= b THEN r \in a..b ELSE r \in b..a
    OBVIOUS
  <1>1. ASSUME IF a <= b THEN r \in a..b ELSE r \in b..a
        PROVE  \E k \in 1..(Abs(b - a) + 1) : Gone(a, b, k - 1) = r
    <2> DEFINE k == Abs(r - a) + 1
    <2>1. k \in 1..(Abs(b - a) + 1) /\ Gone(a, b, k - 1) = r
      BY <1>1 DEF Abs, Gone
    <2> QED
      BY <2>1
  <1>2. ASSUME NEW k \in 1..(Abs(b - a) + 1), Gone(a, b, k - 1) = r
        PROVE  IF a <= b THEN r \in a..b ELSE r \in b..a
    BY <1>2 DEF Abs, Gone
  <1> QED
    BY <1>1, <1>2

StraightAt(p, q) == StraightStrokes(Bitmap, p, q, 0)[1].at

\* The stroke of one marks just the pixels of that way.
LEMMA StraightMarks ==
    ASSUME NEW p \in Points, NEW q \in Points, p[1] = q[1] \/ p[2] = q[2]
    PROVE  /\ StraightAt(p, q) \subseteq Offsets
           /\ \A r \in Points : Offset(Bitmap, r) \in StraightAt(p, q)
                <=> \E k \in 1..(Long(p, q) + 1) : Straight(p, q)[k] = r
  <1> DEFINE W == Bitmap.w
             o == p[2] * W + p[1]
             u == q[2] * W + q[1]
             low == IF o <= u THEN o ELSE u
             high == IF o <= u THEN u ELSE o
  <1>1. /\ W \in Nat \ {0} /\ o \in Offsets /\ u \in Offsets /\ o = Offset(Bitmap, p) /\ u = Offset(Bitmap, q)
        /\ p[1] \in 0..(W - 1) /\ q[1] \in 0..(W - 1) /\ p[2] \in Nat /\ q[2] \in Nat
        /\ Bitmap.h \in Nat \ {0} /\ p[1] \in Int /\ q[1] \in Int
    BY SizeOfBitmap
  <1>2. o \in Int /\ u \in Int /\ W * Bitmap.h \in Int
    BY <1>1
  <1> HIDE DEF W, o, u
  <1>3. Min({o, u}) = low /\ Max({o, u}) = high
    BY <1>2, MinIs, MaxIs
  <1>4. StraightAt(p, q) = LET step == IF p[2] = q[2] THEN 1 ELSE W
                           IN  {x \in low..high : (x - low) % step = 0}
    BY <1>1, <1>3 DEF StraightAt, StraightStrokes, Stroke, W
  <1>5. StraightAt(p, q) \subseteq Offsets
    <2>1. low..high \subseteq Offsets
      BY <1>1, <1>2 DEF Offsets, W
    <2> QED
      BY <1>4, <2>1
  <1>6. ASSUME NEW r \in Points, p[2] = q[2]
        PROVE  Offset(Bitmap, r) \in StraightAt(p, q)
                <=> \E k \in 1..(Long(p, q) + 1) : Straight(p, q)[k] = r
    <2> DEFINE x == r[2] * W + r[1]
               row == p[2] * W
               a == p[1]
               b == q[1]
    <2>1. r[1] \in 0..(W - 1) /\ r[2] \in Nat /\ x = Offset(Bitmap, r) /\ r = <<r[1], r[2]>>
      BY SizeOfBitmap DEF W
    <2>2. x \in Int /\ row \in Int /\ o = row + a /\ u = row + b
      BY <1>1, <1>6, <2>1 DEF o, u
    <2>3. Long(p, q) = Abs(b - a)
      BY <1>1, <1>6 DEF Long, Abs
    <2> HIDE DEF x, row
    <2>4. x \in StraightAt(p, q) <=> x \in low..high
      BY <1>2, <1>4, <1>6, <2>2
    <2>5. x \in low..high <=> r[2] = p[2] /\ (IF a <= b THEN r[1] \in a..b ELSE r[1] \in b..a)
      <3>1. ASSUME x \in low..high PROVE r[2] = p[2] /\ x = row + r[1]
        <4> DEFINE d == x - row
        <4>1. d \in 0..(W - 1) /\ x = row + d
          BY <1>1, <2>2, <3>1
        <4> HIDE DEF d
        <4>2. r[2] * W + r[1] = p[2] * W + d
          BY <4>1 DEF x, row
        <4>3. r[1] = d /\ r[2] = p[2]
          <5>1. r[2] \in Int /\ p[2] \in Int
            BY <1>1, <2>1
          <5> QED
            BY <1>1, <2>1, <4>1, <4>2, <5>1, PlaceIs
        <4> QED
          BY <4>1, <4>3
      <3>2. r[2] = p[2] => x = row + r[1]
        BY DEF x, row
      <3> QED
        BY <1>1, <2>1, <2>2, <3>1, <3>2
    <2>6. (\E k \in 1..(Long(p, q) + 1) : Straight(p, q)[k] = r)
            <=> r[2] = p[2] /\ \E k \in 1..(Long(p, q) + 1) : Gone(a, b, k - 1) = r[1]
      <3>1. \A k \in 1..(Long(p, q) + 1) : Straight(p, q)[k] = <<Gone(a, b, k - 1), p[2]>>
        BY <1>6 DEF Straight
      <3>2. \A k : <<Gone(a, b, k - 1), p[2]>> = r <=> Gone(a, b, k - 1) = r[1] /\ p[2] = r[2]
        BY <2>1
      <3> QED
        BY <3>1, <3>2
    <2>7. (\E k \in 1..(Long(p, q) + 1) : Gone(a, b, k - 1) = r[1])
            <=> IF a <= b THEN r[1] \in a..b ELSE r[1] \in b..a
      BY <1>1, <2>1, <2>3, GoneBetween
    <2> QED
      BY <2>1, <2>4, <2>5, <2>6, <2>7
  <1>7. ASSUME NEW r \in Points, p[2] # q[2], p[1] = q[1]
        PROVE  Offset(Bitmap, r) \in StraightAt(p, q)
                <=> \E k \in 1..(Long(p, q) + 1) : Straight(p, q)[k] = r
    <2> DEFINE x == r[2] * W + r[1]
               a == p[2]
               b == q[2]
               m == IF a <= b THEN a ELSE b
               n == IF a <= b THEN b ELSE a
    <2>1. r[1] \in 0..(W - 1) /\ r[2] \in Nat /\ x = Offset(Bitmap, r) /\ r = <<r[1], r[2]>>
      BY SizeOfBitmap DEF W
    <2>2. \A c, d \in Nat : (c <= d <=> c * W <= d * W) /\ c * W \in Int
      <3>1. \A c, d, z \in Nat : d = c + z => d * W = c * W + z * W
        BY <1>1
      <3>2. ASSUME NEW c \in Nat, NEW d \in Nat, c <= d PROVE c * W <= d * W
        <4> DEFINE z == d - c
        <4>1. z \in Nat /\ d = c + z
          BY <3>2
        <4> HIDE DEF z
        <4>2. d * W = c * W + z * W /\ z * W \in Nat /\ c * W \in Int
          BY <1>1, <3>1, <4>1
        <4> QED
          BY <4>2, <1>1
      <3>3. ASSUME NEW c \in Nat, NEW d \in Nat, d < c PROVE d * W < c * W
        <4> DEFINE z == c - d
        <4>1. z \in Nat /\ c = d + z /\ z >= 1
          BY <3>3
        <4> HIDE DEF z
        <4>2. c * W = d * W + z * W /\ z * W \in Int /\ z * W >= W /\ d * W \in Int
          BY <1>1, <3>1, <4>1
        <4> QED
          BY <4>2, <1>1
      <3>4. \A c \in Nat : c * W \in Int
        BY <1>1
      <3> QED
        BY <3>2, <3>3, <3>4
    <2>3. Long(p, q) = Abs(b - a) /\ m \in Nat /\ n \in Nat /\ a \in Nat /\ b \in Nat
      BY <1>1, <1>7 DEF Long, Abs
    <2>4. low = m * W + p[1] /\ high = n * W + p[1]
      BY <1>1, <1>7, <2>2, <2>3 DEF o, u
    <2>5. x \in StraightAt(p, q) <=> x \in low..high /\ (x - low) % W = 0
      BY <1>4, <1>7
    <2>6. x \in Int /\ low \in Int /\ high \in Int
      BY <1>1, <1>2, <2>1
    <2> HIDE DEF m, n, low, high
    <2>7. ASSUME x \in low..high, (x - low) % W = 0 PROVE r[1] = p[1] /\ m <= r[2] /\ r[2] <= n
      <3> DEFINE t == x - low
                 c == t \div W
      <3>1. t \in Int /\ t % W = 0
        BY <2>6, <2>7
      <3>2. c \in Int /\ t = c * W
        <4>1. t = c * W + (t % W) /\ c \in Int
          <5> HIDE DEF t
          <5> QED
            BY <1>1, <3>1, EuclidIs
        <4> HIDE DEF t, c
        <4>2. c * W \in Int
          BY <1>1, <4>1
        <4>3. t = c * W + 0
          BY <3>1, <4>1
        <4> QED
          BY <4>1, <4>2, <4>3
      <3>3. x = low + t
        BY <2>6
      <3> HIDE DEF c, t
      <3>4. (m + c) * W = m * W + c * W /\ m + c \in Int /\ c * W \in Int /\ m * W \in Int
        BY <1>1, <2>3, <3>2
      <3>5. r[2] * W + r[1] = (m + c) * W + p[1]
        <4>1. x = r[2] * W + r[1]
          OBVIOUS
        <4> HIDE DEF x
        <4> QED
          BY <1>1, <2>4, <3>2, <3>3, <3>4, <4>1
      <3>6. r[1] = p[1]
        <4> DEFINE g == m + c
        <4>1. r[2] * W + r[1] = g * W + p[1] /\ g \in Int /\ r[2] \in Int
          BY <2>1, <3>4, <3>5
        <4> HIDE DEF g
        <4> QED
          BY <1>1, <2>1, <4>1, PlaceIs
      <3>7. m * W <= r[2] * W /\ r[2] * W <= n * W
        <4>1. r[2] * W \in Int /\ m * W \in Int /\ n * W \in Int
          BY <2>1, <2>2, <2>3
        <4> QED
          BY <1>1, <2>4, <2>6, <2>7, <3>6, <4>1
      <3> QED
        BY <2>1, <2>2, <2>3, <3>6, <3>7
    <2>8. ASSUME r[1] = p[1], m <= r[2], r[2] <= n PROVE x \in low..high /\ (x - low) % W = 0
      <3>1. m * W <= r[2] * W /\ r[2] * W <= n * W /\ r[2] * W \in Int /\ m * W \in Int /\ n * W \in Int
        BY <2>1, <2>2, <2>3, <2>8
      <3>2. x \in low..high
        BY <1>1, <2>4, <2>6, <2>8, <3>1
      <3> DEFINE c == r[2] - m
      <3>3. c \in Int /\ x - low = c * W + 0
        BY <1>1, <2>1, <2>3, <2>4, <2>8
      <3>4. (c * W + 0) % W = 0
        <4>1. 0 \in 0..(W - 1)
          BY <1>1
        <4> HIDE DEF c
        <4> QED
          BY <1>1, <3>3, <4>1, DivisionIs
      <3> QED
        BY <3>2, <3>3, <3>4
    <2>9. (\E k \in 1..(Long(p, q) + 1) : Straight(p, q)[k] = r)
            <=> r[1] = p[1] /\ \E k \in 1..(Long(p, q) + 1) : Gone(a, b, k - 1) = r[2]
      <3>1. \A k \in 1..(Long(p, q) + 1) : Straight(p, q)[k] = <<p[1], Gone(a, b, k - 1)>>
        BY <1>7 DEF Straight
      <3>2. \A k : <<p[1], Gone(a, b, k - 1)>> = r <=> Gone(a, b, k - 1) = r[2] /\ p[1] = r[1]
        BY <2>1
      <3> QED
        BY <3>1, <3>2
    <2>10. (\E k \in 1..(Long(p, q) + 1) : Gone(a, b, k - 1) = r[2])
            <=> m <= r[2] /\ r[2] <= n
      <3>1. (\E k \in 1..(Abs(b - a) + 1) : Gone(a, b, k - 1) = r[2])
              <=> IF a <= b THEN r[2] \in a..b ELSE r[2] \in b..a
        BY <2>1, <2>3, GoneBetween
      <3>2. (IF a <= b THEN r[2] \in a..b ELSE r[2] \in b..a) <=> m <= r[2] /\ r[2] <= n
        BY <2>1, <2>3 DEF m, n
      <3> QED
        BY <2>3, <3>1, <3>2
    <2> QED
      BY <2>1, <2>5, <2>7, <2>8, <2>9, <2>10
  <1> QED
    BY <1>5, <1>6, <1>7

\* Two points of a bitmap are two places in its map.
LEMMA OffsetOnce == \A p, r \in Points : Offset(Bitmap, p) = Offset(Bitmap, r) => p = r
  <1> SUFFICES ASSUME NEW p \in Points, NEW r \in Points, Offset(Bitmap, p) = Offset(Bitmap, r)
               PROVE  p = r
    OBVIOUS
  <1>1. /\ p = <<p[1], p[2]>> /\ r = <<r[1], r[2]>>
        /\ p[1] \in 0..(Bitmap.w - 1) /\ r[1] \in 0..(Bitmap.w - 1)
        /\ p[2] \in Int /\ r[2] \in Int /\ Bitmap.w \in Nat \ {0}
        /\ p[2] * Bitmap.w + p[1] = r[2] * Bitmap.w + r[1]
    BY SizeOfBitmap
  <1>2. p[1] = r[1] /\ p[2] = r[2]
    BY <1>1, PlaceIs
  <1> QED
    BY <1>1, <1>2

\* A path is as many points as it is long.
LEMMA PathLength ==
    ASSUME NEW p \in Points, NEW q \in Points, NEW path, Path(path, p, q)
    PROVE  LET on == {r \in Points : \E k \in 1..(Long(p, q) + 1) : path[k] = r}
           IN  Cardinality(on) = Long(p, q) + 1
  <1> DEFINE n == Long(p, q) + 1
             on == {r \in Points : \E k \in 1..n : path[k] = r}
  <1>1. n \in Nat \ {0}
    <2>1. p[1] \in Int /\ p[2] \in Int /\ q[1] \in Int /\ q[2] \in Int
      BY SizeOfBitmap
    <2> QED
      BY <2>1 DEF Long, Abs
  <1>2. path \in [1..n -> on] /\ \A j, k \in 1..n : path[j] = path[k] => j = k
    BY DEF Path
  <1> HIDE DEF n
  <1>3. path \in Surjection(1..n, on) /\ path \in Injection(1..n, on)
    BY <1>2 DEF Surjection, Injection, IsInjective
  <1>4. IsFiniteSet(1..n) /\ Cardinality(1..n) = n
    <2>1. Cardinality(1..n) = IF 1 > n THEN 0 ELSE n - 1 + 1
      BY <1>1, FS_Interval
    <2>2. IsFiniteSet(1..n)
      BY <1>1, FS_Interval
    <2> QED
      BY <1>1, <2>1, <2>2
  <1>5. Cardinality(on) = n
    <2> HIDE DEF on
    <2> QED
      BY <1>3, <1>4, FS_Surjection
  <1> QED
    BY <1>5 DEF n

\* What is said of a line, where its path is painted once and nothing else.
PaintedOn(path, long, colour) ==
    \A r \in Points : Pixel(px, r) = IF \E k \in 1..(long + 1) : path[k] = r
                                     THEN Over(Pixel(before, r), colour) ELSE Pixel(before, r)

\* A way from p to q painted once is a line as it was asked for.
LEMMA PathAsAsked ==
    ASSUME RequestInv, NEW p \in Points, NEW q \in Points, NEW path, Path(path, p, q), NEW colour,
           PaintedOn(path, Long(p, q), colour), \A r \in Points : Pixel(before, r) # <<colour>>
    PROVE  LET marked == {r \in Points : Pixel(px, r) # Pixel(before, r)}
           IN  /\ \A r \in Points : Pixel(px, r)
                    = Blended(Pixel(before, r), IF r \in marked THEN <<colour>> ELSE <<>>)
               /\ {p, q} \subseteq marked /\ Cardinality(marked) = Long(p, q) + 1
               /\ \A r \in marked : 2 * FarFrom(p, q, r) <= Long(p, q)
  <1> DEFINE on(r) == \E k \in 1..(Long(p, q) + 1) : path[k] = r
             marked == {r \in Points : Pixel(px, r) # Pixel(before, r)}
  <1>1. ASSUME NEW r \in Points PROVE Over(Pixel(before, r), colour) # Pixel(before, r)
    <2>1. Pixel(before, r) = <<>> \/ \E c : Pixel(before, r) = <<c>>
      BY SizeOfBitmap DEF RequestInv, Plain, Pixel
    <2>2. CASE Pixel(before, r) = <<>>
      BY <2>2 DEF Over
    <2>3. CASE \E c : Pixel(before, r) = <<c>>
      <3>1. PICK c : Pixel(before, r) = <<c>>
        BY <2>3
      <3>2. Append(<<c>>, colour) # <<c>>
        <4>1. Len(Append(<<c>>, colour)) = 2 /\ Len(<<c>>) = 1
          OBVIOUS
        <4> QED
          BY <4>1
      <3> QED
        BY <3>1, <3>2 DEF Over
    <2> QED
      BY <2>1, <2>2, <2>3
  <1>2. \A r \in Points : r \in marked <=> on(r)
    BY <1>1 DEF PaintedOn
  <1>3. marked = {r \in Points : on(r)}
    BY <1>2
  <1>4. Cardinality(marked) = Long(p, q) + 1
    <2>1. Cardinality({r \in Points : on(r)}) = Long(p, q) + 1
      BY PathLength
    <2> QED
      BY <1>3, <2>1
  <1>5. on(p) /\ on(q)
    <2>1. Long(p, q) \in Nat
      <3>1. p[1] \in Int /\ p[2] \in Int /\ q[1] \in Int /\ q[2] \in Int
        BY SizeOfBitmap
      <3> QED
        BY <3>1 DEF Long, Abs
    <2>2. 1 \in 1..(Long(p, q) + 1) /\ Long(p, q) + 1 \in 1..(Long(p, q) + 1)
      BY <2>1
    <2> QED
      BY <2>2 DEF Path
  <1>6. \A r \in marked : 2 * FarFrom(p, q, r) <= Long(p, q)
    BY <1>2 DEF Path
  <1>7. ASSUME NEW r \in Points
        PROVE  Pixel(px, r) = Blended(Pixel(before, r), IF r \in marked THEN <<colour>> ELSE <<>>)
    BY <1>2 DEF Blended, PaintedOn
  <1>8. {p, q} \subseteq marked
    BY <1>2, <1>5
  <1> HIDE DEF marked
  <1> QED
    BY <1>4, <1>6, <1>7, <1>8 DEF marked

\* A line with both ends in the bitmap is not moved.
LEMMA InsideIsKept ==
    ASSUME NEW p \in Points, NEW q \in Points
    PROVE  Beyond(Bitmap, p) = {} /\ ClippedEnds(Bitmap, p, q) = {<<p, q>>}
  <1>1. ASSUME NEW r \in Points
        PROVE  ~(r[1] < 0) /\ ~(r[1] >= Bitmap.w) /\ ~(r[2] < 0) /\ ~(r[2] >= Bitmap.h)
    BY SizeOfBitmap
  <1>2. ASSUME NEW r \in Points, NEW s PROVE Intersect(Bitmap, r, s) = {r}
    <2>1. MovedInY(Bitmap, r, s) = {r} /\ MovedInX(Bitmap, r, s) = {r}
      BY <1>1 DEF MovedInY, MovedInX
    <2> QED
      BY <2>1 DEF Intersect
  <1>3. Beyond(Bitmap, p) = {}
    BY <1>1 DEF Beyond
  <1>4. Intersect(Bitmap, p, q) = {p} /\ Intersect(Bitmap, q, p) = {q}
    BY <1>2
  <1>5. ClippedEnds(Bitmap, p, q) = {<<p, q>>}
    BY <1>4 DEF ClippedEnds
  <1> QED
    BY <1>3, <1>5

\* One colour is painted where there is a stroke and only one of them.
InOneColour(strokes, n, colour) ==
    n \in Nat /\ Len(strokes) = n /\ DOMAIN strokes = 1..n /\ \A k \in 1..n : strokes[k].colour = colour

AtMostOnce(strokes, n, o) == \A j, k \in 1..n : o \in strokes[j].at /\ o \in strokes[k].at => j = k

\* A pixel that at most one of the strokes is at gets one coat or none.
LEMMA PixelAtMostOnce ==
    ASSUME NEW pixel, NEW strokes, NEW o, NEW colour, NEW n,
           InOneColour(strokes, n, colour), AtMostOnce(strokes, n, o)
    PROVE  Coats(pixel, strokes, o)[n] = IF \E k \in 1..n : o \in strokes[k].at
                                         THEN Over(pixel, colour) ELSE pixel
  <1> USE DEF InOneColour, AtMostOnce
  <1>1. CASE \E k \in 1..n : o \in strokes[k].at
    <2>1. PICK one \in 1..n : o \in strokes[one].at
      BY <1>1
    <2>2. \A k \in 1..n : k # one => o \notin strokes[k].at
      BY <2>1
    <2>3. Coats(pixel, strokes, o)[n] = Over(pixel, strokes[one].colour)
      BY <2>1, <2>2, PixelOnce
    <2> QED
      BY <1>1, <2>3
  <1>2. CASE ~\E k \in 1..n : o \in strokes[k].at
    <2>1. Coats(pixel, strokes, o)[n] = pixel
      BY <1>2, PixelNone
    <2> QED
      BY <1>2, <2>1
  <1> QED
    BY <1>1, <1>2

\* Strokes of one colour that cover the points of a path, each once, paint it.
Trace(strokes, n, path, long) ==
    /\ \A k \in 1..n : strokes[k].at \subseteq Offsets
    /\ \A r \in Points : /\ AtMostOnce(strokes, n, Offset(Bitmap, r))
                         /\ (\E k \in 1..n : Offset(Bitmap, r) \in strokes[k].at)
                                <=> \E k \in 1..(long + 1) : path[k] = r

\* Strokes that trace a way paint it.
LEMMA StrokesPaint ==
    ASSUME RequestInv, NEW p, NEW q, NEW colour, NEW strokes, Drawn(strokes), NEW path, NEW long, NEW n,
           InOneColour(strokes, n, colour), Trace(strokes, n, path, long)
    PROVE  /\ outcome = "done"
           /\ PaintedOn(path, long, colour)
  <1>1. DOMAIN before = Offsets
    BY DEF RequestInv, Plain
  <1>2. ~Wild(before, strokes)
    BY <1>1 DEF Wild, InOneColour, Trace
  <1>3. outcome = "done" /\ px = Painted(before, strokes)
    BY <1>2 DEF Drawn
  <1>4. ASSUME NEW r \in Points
        PROVE  Pixel(px, r) = IF \E k \in 1..(long + 1) : path[k] = r
                              THEN Over(Pixel(before, r), colour) ELSE Pixel(before, r)
    <2> DEFINE o == Offset(Bitmap, r)
    <2>1. o \in Offsets
      BY SizeOfBitmap
    <2>2. px[o] = Coats(before[o], strokes, o)[n]
      BY <1>1, <1>3, <2>1 DEF Painted, InOneColour
    <2>3. AtMostOnce(strokes, n, o)
      BY DEF Trace
    <2>4. (\E k \in 1..n : o \in strokes[k].at) <=> \E k \in 1..(long + 1) : path[k] = r
      BY DEF Trace
    <2> DEFINE was == before[o]
    <2> HIDE DEF o, was
    <2>5. Coats(was, strokes, o)[n] = IF \E k \in 1..n : o \in strokes[k].at THEN Over(was, colour) ELSE was
      BY <2>3, PixelAtMostOnce
    <2> QED
      BY <2>2, <2>4, <2>5 DEF Pixel, o, was
  <1> QED
    BY <1>3, <1>4 DEF PaintedOn

PaintedPath(p, q, colour) ==
    outcome = "done" /\ \E path : Path(path, p, q) /\ PaintedOn(path, Long(p, q), colour)

\* The strokes of a line between two points of the bitmap paint a path.
LEMMA LinePaints ==
    ASSUME RequestInv, NEW p \in Points, NEW q \in Points, NEW colour, NEW strokes, Drawn(strokes),
           strokes = IF p[1] = q[1] \/ p[2] = q[2] THEN StraightStrokes(Bitmap, p, q, colour)
                     ELSE [k \in DOMAIN Course(p, q) |-> Stroke({Offset(Bitmap, Course(p, q)[k])}, colour)]
    PROVE  PaintedPath(p, q, colour)
  <1> DEFINE ss == strokes
             long == Long(p, q)
  <1>1. Drawn(ss)
    OBVIOUS
  <1>2. long \in Nat
    <2>1. p[1] \in Int /\ p[2] \in Int /\ q[1] \in Int /\ q[2] \in Int
      BY SizeOfBitmap
    <2> QED
      BY <2>1 DEF Long, Abs
  <1>4. CASE p[1] = q[1] \/ p[2] = q[2]
    <2> DEFINE path == Straight(p, q)
    <2>1. ss = <<Stroke(StraightAt(p, q), colour)>>
      BY <1>4 DEF StraightStrokes, StraightAt, Stroke
    <2> HIDE DEF ss
    <2>2. Len(ss) = 1 /\ ss[1].at = StraightAt(p, q) /\ ss[1].colour = colour /\ DOMAIN ss = 1..1
      BY <2>1 DEF Stroke
    <2>3. /\ StraightAt(p, q) \subseteq Offsets
          /\ \A r \in Points : Offset(Bitmap, r) \in StraightAt(p, q)
                <=> \E k \in 1..(long + 1) : path[k] = r
      BY <1>4, StraightMarks
    <2>4. Path(path, p, q)
      BY <1>4, StraightIsPath
    <2> HIDE DEF path, long
    <2>5. outcome = "done" /\ PaintedOn(path, long, colour)
      <3>1. \A k \in 1..1 : k = 1
        OBVIOUS
      <3>2. \A k \in 1..1 : ss[k].colour = colour /\ ss[k].at \subseteq Offsets
        BY <2>2, <2>3, <3>1
      <3>3. \A r \in Points : (\E k \in 1..1 : Offset(Bitmap, r) \in ss[k].at)
                                <=> \E k \in 1..(long + 1) : path[k] = r
        BY <2>2, <2>3, <3>1
      <3>4. \A r \in Points, j, k \in 1..1 :
                Offset(Bitmap, r) \in ss[j].at /\ Offset(Bitmap, r) \in ss[k].at => j = k
        BY <3>1
      <3> DEFINE n == 1
      <3>5. InOneColour(ss, n, colour)
        BY <2>2, <3>2 DEF InOneColour
      <3>6. Trace(ss, n, path, long)
        BY <3>2, <3>3, <3>4 DEF Trace, AtMostOnce
      <3> HIDE DEF n
      <3> QED
        BY <1>1, <3>5, <3>6, StrokesPaint
    <2> QED
      BY <2>4, <2>5 DEF PaintedPath, long
  <1>5. CASE ~(p[1] = q[1] \/ p[2] = q[2])
    <2> DEFINE path == Course(p, q)
               n == long + 1
    <2>1. Path(path, p, q)
      BY <1>5, CourseIsPath
    <2>2. ss = [k \in DOMAIN path |-> Stroke({Offset(Bitmap, path[k])}, colour)]
      BY <1>5
    <2> HIDE DEF path, ss
    <2>3. n \in Nat /\ DOMAIN path = 1..n /\ \A k \in 1..n : path[k] \in Points
      BY <1>2, <2>1 DEF Path
    <2>4. \A j, k \in 1..n : path[j] = path[k] => j = k
      BY <2>1 DEF Path
    <2>5. \A r \in Points : (\E k \in 1..n : path[k] = r) <=> \E k \in 1..(long + 1) : path[k] = r
      OBVIOUS
    <2> HIDE DEF n, long
    <2>6. /\ ss = [k \in 1..n |-> ss[k]]
          /\ \A k \in 1..n : ss[k].at = {Offset(Bitmap, path[k])} /\ ss[k].colour = colour
      <3>1. ss = [k \in 1..n |-> Stroke({Offset(Bitmap, path[k])}, colour)]
        BY <2>2, <2>3
      <3>2. \A k \in 1..n : ss[k] = Stroke({Offset(Bitmap, path[k])}, colour)
        BY <3>1
      <3>3. ss = [k \in 1..n |-> ss[k]]
        BY <3>1
      <3> QED
        BY <3>2, <3>3 DEF Stroke
    <2>7. Len(ss) = n /\ DOMAIN ss = 1..n
      BY <2>3, <2>6, LenIs
    <2>8. \A k \in 1..n : ss[k].colour = colour /\ ss[k].at \subseteq Offsets
      <3> SUFFICES ASSUME NEW k \in 1..n PROVE ss[k].colour = colour /\ ss[k].at \subseteq Offsets
        OBVIOUS
      <3>1. path[k] \in Points /\ ss[k].at = {Offset(Bitmap, path[k])} /\ ss[k].colour = colour
        BY <2>3, <2>6
      <3>2. Offset(Bitmap, path[k]) \in Offsets
        BY <3>1, SizeOfBitmap
      <3> QED
        BY <3>1, <3>2
    <2>9. \A r \in Points, k \in 1..n : Offset(Bitmap, r) \in ss[k].at <=> path[k] = r
      BY <2>3, <2>6, OffsetOnce
    <2>10. outcome = "done" /\ PaintedOn(path, long, colour)
      <3>1. \A r \in Points : (\E k \in 1..n : Offset(Bitmap, r) \in ss[k].at)
                                <=> \E k \in 1..(long + 1) : path[k] = r
        BY <2>5, <2>9
      <3>2. \A r \in Points, j, k \in 1..n :
                Offset(Bitmap, r) \in ss[j].at /\ Offset(Bitmap, r) \in ss[k].at => j = k
        BY <2>4, <2>9
      <3>3. InOneColour(ss, n, colour)
        BY <2>3, <2>7, <2>8 DEF InOneColour
      <3>4. Trace(ss, n, path, long)
        BY <2>8, <3>1, <3>2 DEF Trace, AtMostOnce
      <3> QED
        BY <1>1, <3>3, <3>4, StrokesPaint
    <2> QED
      BY <2>1, <2>10 DEF PaintedPath, long
  <1> QED
    BY <1>4, <1>5

\* After a line the canvas is as it was asked for.
LEMMA RequestLine == RequestInv => LineAsAsked
  <1> SUFFICES ASSUME RequestInv, last.op = "line" PROVE LineAsAsked
    BY DEF LineAsAsked
  <1> DEFINE s == last.shape
             p == <<s.x, s.y>>
             q == <<s.x1, s.y1>>
             dx == s.x1 - s.x
             dy == s.y1 - s.y
             marked == {r \in Points : Pixel(px, r) # Pixel(before, r)}
             told == s.colour.alpha # 0 /\ \A r \in Points : Pixel(before, r) # <<s.colour>>
  <1>1. s.x \in Int /\ s.y \in Int /\ s.x1 \in Int /\ s.y1 \in Int /\ s.colour.alpha \in Nat
    BY ShapesAssumption DEF RequestInv
  <1>2. LineStrokes(Bitmap, s) = {} \/ \E strokes \in LineStrokes(Bitmap, s) : Drawn(strokes)
    BY DEF RequestInv
  <1>3. /\ p[1] = s.x /\ p[2] = s.y /\ q[1] = s.x1 /\ q[2] = s.y1
        /\ Max({Abs(dx), Abs(dy)}) = Long(p, q)
        /\ \A r : Abs((r[1] - s.x) * dy - (r[2] - s.y) * dx) = FarFrom(p, q, r)
    <2>1. Abs(dx) \in Int /\ Abs(dy) \in Int
      BY <1>1 DEF Abs
    <2> QED
      BY <2>1, MaxIs DEF Long, FarFrom
  <1>4. ASSUME p \in Points, q \in Points, told
        PROVE  /\ outcome = "done"
               /\ \A r \in Points : Pixel(px, r)
                    = Blended(Pixel(before, r), IF r \in marked THEN <<s.colour>> ELSE <<>>)
               /\ {p, q} \subseteq marked /\ Cardinality(marked) = Long(p, q) + 1
               /\ \A r \in marked : 2 * FarFrom(p, q, r) <= Long(p, q)
    <2> DEFINE strokesOf(r) == IF r[1][1] = r[2][1] \/ r[1][2] = r[2][2]
                               THEN StraightStrokes(Bitmap, r[1], r[2], s.colour)
                               ELSE LET course == Course(r[1], r[2])
                                    IN  [k \in DOMAIN course |-> Stroke({Offset(Bitmap, course[k])}, s.colour)]
    <2>1. Beyond(Bitmap, p) = {} /\ ClippedEnds(Bitmap, p, q) = {<<p, q>>}
      BY <1>4, InsideIsKept
    <2>2. LineStrokes(Bitmap, s) = {strokesOf(r) : r \in ClippedEnds(Bitmap, p, q)}
      BY <1>4, <2>1 DEF LineStrokes
    <2>3. LineStrokes(Bitmap, s) = {strokesOf(<<p, q>>)}
      <3> HIDE DEF strokesOf, p, q
      <3> QED
        BY <2>1, <2>2
    <2> HIDE DEF p, q
    <2> DEFINE strokes == strokesOf(<<p, q>>)
    <2>4. strokes = IF p[1] = q[1] \/ p[2] = q[2] THEN StraightStrokes(Bitmap, p, q, s.colour)
                    ELSE [k \in DOMAIN Course(p, q) |-> Stroke({Offset(Bitmap, Course(p, q)[k])}, s.colour)]
      OBVIOUS
    <2>5. Drawn(strokes)
      <3> HIDE DEF strokesOf
      <3> QED
        BY <1>2, <2>3
    <2> HIDE DEF strokes
    <2>6. PaintedPath(p, q, s.colour)
      BY <1>4, <2>4, <2>5, LinePaints
    <2>7. PICK path : Path(path, p, q) /\ PaintedOn(path, Long(p, q), s.colour)
      BY <2>6 DEF PaintedPath
    <2>8. \A r \in Points : Pixel(before, r) # <<s.colour>>
      BY <1>4
    <2>9. outcome = "done"
      BY <2>6 DEF PaintedPath
    <2> DEFINE colour == s.colour
    <2> HIDE DEF s
    <2> QED
      BY <1>4, <2>7, <2>8, <2>9, PathAsAsked
  <1>5. ASSUME Beyond(Bitmap, p) \cap Beyond(Bitmap, q) # {}
        PROVE  /\ outcome = "done"
               /\ \A r \in Points : Pixel(px, r) = Blended(Pixel(before, r), <<>>)
    <2>1. LineStrokes(Bitmap, s) = {<<>>}
      BY <1>5 DEF LineStrokes
    <2>2. Drawn(<<>>)
      BY <1>2, <2>1
    <2>3. ~Wild(before, <<>>)
      BY DEF Wild
    <2>4. outcome = "done" /\ px = Painted(before, <<>>) /\ DOMAIN before = Offsets
      BY <2>2, <2>3 DEF Drawn, RequestInv, Plain
    <2>5. ASSUME NEW r \in Points PROVE Pixel(px, r) = Pixel(before, r)
      <3>1. Offset(Bitmap, r) \in DOMAIN before
        BY <2>4, SizeOfBitmap
      <3>2. Pixel(px, r) = Coats(Pixel(before, r), <<>>, Offset(Bitmap, r))[Len(<<>>)]
        BY <2>4, <3>1 DEF Painted, Pixel
      <3>3. Coats(Pixel(before, r), <<>>, Offset(Bitmap, r))[Len(<<>>)] = Pixel(before, r)
        <4> DEFINE none == <<>>
        <4>1. Len(none) \in Nat /\ \A k \in 1..Len(none) : Offset(Bitmap, r) \notin none[k].at
          OBVIOUS
        <4> HIDE DEF none
        <4>2. Coats(Pixel(before, r), none, Offset(Bitmap, r))[Len(none)] = Pixel(before, r)
          BY <4>1, PixelNone
        <4> QED
          BY <4>2 DEF none
      <3> QED
        BY <3>2, <3>3
    <2> QED
      BY <2>4, <2>5 DEF Blended
  <1> HIDE DEF p, q, marked
  <1>6. ASSUME p \in Points, q \in Points, told
        PROVE  PaintedAsAsked(LAMBDA r : IF r \in marked THEN <<s.colour>> ELSE <<>>)
    BY <1>4, <1>6 DEF PaintedAsAsked
  <1>7. ASSUME Beyond(Bitmap, p) \cap Beyond(Bitmap, q) # {}
        PROVE  PaintedAsAsked(LAMBDA r : <<>>)
    BY <1>5, <1>7 DEF PaintedAsAsked
  <1> QED
    BY <1>3, <1>4, <1>6, <1>7 DEF LineAsAsked, p, q, marked

\* Line::paint, for bitmaps of any size and lines between any points.
THEOREM AlwaysLineAsAsked == PaintingSpec => []LineAsAsked
  <1> QED
    BY RequestInit, RequestNext, RequestLine, PTL DEF PaintingSpec

-----------------------------------------------------------------------------
(* The grid *)

\* The recursion in Sums has a solution, and it is that one.
LEMMA SumsAre ==
    ASSUME NEW props, NEW len \in Nat, Len(props) = len
    PROVE  LET sum == Sums(props)
           IN  sum[0] = 0 /\ \A n \in 1..len : sum[n] = sum[n - 1] + props[n]
  <1> DEFINE Sum(f, k) == IF k = 0 THEN 0 ELSE f[k - 1] + props[k]
             P(f, m) == f = [k \in 0..m |-> Sum(f, k)]
             I == {m \in Nat : \E f : P(f, m)}
  <1>1. 0 \in I
    <2>1. P([k \in 0..0 |-> 0], 0)
      OBVIOUS
    <2> QED
      BY <2>1
  <1>2. ASSUME NEW m \in Nat, m \in I PROVE m + 1 \in I
    <2>1. PICK f : P(f, m)
      BY <1>2
    <2> DEFINE new == f[m] + props[m + 1]
               g == [k \in 0..(m+1) |-> IF k = m + 1 THEN new ELSE f[k]]
    <2> HIDE DEF new
    <2>2. ASSUME NEW k \in 0..(m+1) PROVE g[k] = Sum(g, k)
      <3>1. CASE k = m + 1
        <4>1. g[m] = f[m] /\ (m + 1) - 1 = m /\ m + 1 # 0 /\ g[m + 1] = new
          OBVIOUS
        <4> HIDE DEF g
        <4> QED
          BY <3>1, <4>1 DEF new
      <3>2. CASE k = 0
        BY <2>1, <3>2
      <3>3. CASE k \in 1..m
        <4>1. k - 1 \in 0..m /\ g[k] = f[k] /\ g[k-1] = f[k-1] /\ k # 0
          BY <3>3
        <4>2. f[k] = Sum(f, k)
          BY <2>1, <3>3
        <4> HIDE DEF g
        <4> QED
          BY <4>1, <4>2
      <3> QED
        BY <3>1, <3>2, <3>3
    <2>3. g = [k \in 0..(m+1) |-> g[k]]
      OBVIOUS
    <2>4. P(g, m + 1)
      <3> HIDE DEF g
      <3> QED
        BY <2>2, <2>3
    <2> HIDE DEF g, P
    <2> QED
      BY <2>4
  <1> HIDE DEF I
  <1>3. len \in I
    BY <1>1, <1>2, SetInduction
  <1>4. PICK f : P(f, len)
    BY <1>3 DEF I
  <1>5. P(Sums(props), len)
    <2>1. Sums(props) = CHOOSE h : P(h, len)
      BY DEF Sums
    <2> HIDE DEF P
    <2> QED
      BY <1>4, <2>1
  <1>6. Sums(props)[0] = 0
    BY <1>5
  <1>7. ASSUME NEW k \in 1..len PROVE Sums(props)[k] = Sums(props)[k - 1] + props[k]
    <2>1. k \in 0..len /\ k # 0
      OBVIOUS
    <2> QED
      BY <1>5, <2>1
  <1> QED
    BY <1>6, <1>7

\* Lines of a grid: columns or rows.
IsLines(props) == /\ Len(props) \in Nat \ {0} /\ DOMAIN props = 1..Len(props)
                  /\ \A i \in 1..Len(props) : props[i] \in Nat

\* Sums of numbers are numbers, and they grow.
LEMMA SumsGrow ==
    ASSUME NEW props, IsLines(props)
    PROVE  /\ Sums(props)[0] = 0
           /\ \A n \in 1..Len(props) : Sums(props)[n] = Sums(props)[n - 1] + props[n]
           /\ \A n \in 0..Len(props) : Sums(props)[n] \in Nat
           /\ \A m, n \in 0..Len(props) : m <= n => Sums(props)[m] <= Sums(props)[n]
  <1> DEFINE len == Len(props)
             sum == Sums(props)
  <1>1. /\ sum[0] = 0 /\ \A n \in 1..len : sum[n] = sum[n - 1] + props[n]
        /\ len \in Nat \ {0} /\ \A i \in 1..len : props[i] \in Nat
    BY SumsAre DEF IsLines
  <1> HIDE DEF sum, len
  <1> DEFINE I == {n \in Nat : n <= len => /\ sum[n] \in Nat
                                           /\ \A m \in 0..n : sum[m] \in Nat /\ sum[m] <= sum[n]}
  <1>2. 0 \in I
    BY <1>1
  <1>3. ASSUME NEW n \in Nat, n \in I PROVE n + 1 \in I
    <2> SUFFICES ASSUME n + 1 <= len
                 PROVE  /\ sum[n + 1] \in Nat
                        /\ \A m \in 0..(n + 1) : sum[m] \in Nat /\ sum[m] <= sum[n + 1]
      OBVIOUS
    <2>1. n + 1 \in 1..len /\ (n + 1) - 1 = n
      OBVIOUS
    <2>2. sum[n] \in Nat /\ props[n + 1] \in Nat /\ sum[n + 1] = sum[n] + props[n + 1]
      BY <1>1, <1>3, <2>1
    <2>3. \A m \in 0..n : sum[m] \in Nat /\ sum[m] <= sum[n]
      <3>1. n <= len
        BY <1>1
      <3> QED
        BY <1>3, <3>1
    <2>4. \A m \in 0..(n + 1) : m \in 0..n \/ m = n + 1
      OBVIOUS
    <2> QED
      BY <2>2, <2>3, <2>4
  <1>4. Nat \subseteq I
    <2> HIDE DEF I
    <2> QED
      BY <1>2, <1>3, SetInduction
  <1>5. ASSUME NEW n \in 0..len
        PROVE  sum[n] \in Nat /\ \A m \in 0..len : m <= n => sum[m] <= sum[n]
    <2>1. n \in I /\ n <= len
      BY <1>1, <1>4
    <2> QED
      BY <2>1
  <1> QED
    BY <1>1, <1>5 DEF sum, len

\* What each line gets of an extent, and where it begins.
Parts(props, extent, sum) == [i \in 1..Len(props) |-> (extent * props[i]) \div sum]
Begins(props, extent, sum) == Sums(Parts(props, extent, sum))

\* Each part is the quotient, rounded down.
LEMMA PartsAre ==
    ASSUME NEW props, IsLines(props), NEW extent \in Nat, NEW sum \in Nat \ {0}
    PROVE  /\ IsLines(Parts(props, extent, sum)) /\ Len(Parts(props, extent, sum)) = Len(props)
           /\ \A i \in 1..Len(props) :
                /\ Parts(props, extent, sum)[i] = (extent * props[i]) \div sum
                /\ Parts(props, extent, sum)[i] \in Nat
                /\ Parts(props, extent, sum)[i] * sum <= extent * props[i]
  <1> DEFINE parts == Parts(props, extent, sum)
             len == Len(props)
  <1>1. len \in Nat \ {0} /\ \A i \in 1..len : props[i] \in Nat
    BY DEF IsLines
  <1>2. parts = [i \in 1..len |-> parts[i]] /\ \A i \in 1..len : parts[i] = (extent * props[i]) \div sum
    BY DEF Parts
  <1>3. ASSUME NEW a \in Nat PROVE a \div sum \in Nat /\ (a \div sum) * sum <= a
    <2> DEFINE q == a \div sum
               r == a % sum
    <2>1. q \in Int /\ r \in 0..(sum - 1) /\ a = q * sum + r
      BY EuclidIs
    <2> HIDE DEF q, r
    <2>2. q * sum \in Int
      BY <2>1
    <2>3. q >= 0
      <3> SUFFICES ASSUME q <= -1 PROVE FALSE
        BY <2>1
      <3> DEFINE d == -1 - q
      <3>1. d \in Nat /\ q = -1 - d
        BY <2>1
      <3> HIDE DEF d
      <3>2. q * sum = -sum - d * sum /\ d * sum \in Nat
        BY <3>1
      <3> QED
        BY <2>1, <2>2, <3>2
    <2> QED
      BY <2>1, <2>2, <2>3 DEF q
  <1> HIDE DEF parts
  <1>4. ASSUME NEW i \in 1..len
        PROVE  parts[i] \in Nat /\ parts[i] * sum <= extent * props[i]
    <2> DEFINE a == extent * props[i]
    <2>1. a \in Nat /\ parts[i] = a \div sum
      BY <1>1, <1>2
    <2> HIDE DEF a
    <2>2. a \div sum \in Nat /\ (a \div sum) * sum <= a
      BY <1>3, <2>1
    <2> QED
      BY <2>1, <2>2 DEF a
  <1>5. Len(parts) = len /\ DOMAIN parts = 1..len
    BY <1>1, <1>2, LenIs
  <1>6. IsLines(parts)
    BY <1>1, <1>4, <1>5 DEF IsLines
  <1> QED
    BY <1>2, <1>4, <1>5, <1>6 DEF parts, len

\* The lines are not more than there is, when the sum is that of the proportions.
LEMMA PartsFit ==
    ASSUME NEW props, IsLines(props), NEW extent \in Nat, NEW sum \in Nat \ {0}, Total(props) = sum
    PROVE  \A n \in 0..Len(props) : Begins(props, extent, sum)[n] <= extent
  <1> DEFINE parts == Parts(props, extent, sum)
             begin == Begins(props, extent, sum)
             so == Sums(props)
             len == Len(props)
  <1>1. /\ IsLines(parts) /\ Len(parts) = len /\ len \in Nat
        /\ \A i \in 1..len : /\ props[i] \in Nat /\ parts[i] \in Nat
                             /\ parts[i] * sum <= extent * props[i]
    BY PartsAre DEF IsLines
  <1>2. /\ so[0] = 0 /\ \A n \in 1..len : so[n] = so[n - 1] + props[n]
        /\ \A n \in 0..len : so[n] \in Nat
    BY SumsGrow
  <1>3. so[len] = sum
    BY DEF Total
  <1> HIDE DEF so, len, parts
  <1>4. /\ begin[0] = 0 /\ \A n \in 1..len : begin[n] = begin[n - 1] + parts[n]
        /\ \A n \in 0..len : begin[n] \in Nat
        /\ \A m, n \in 0..len : m <= n => begin[m] <= begin[n]
    BY <1>1, SumsGrow DEF Begins, parts, len
  <1> HIDE DEF begin
  <1> DEFINE I == {n \in Nat : n <= len => begin[n] * sum <= extent * so[n]}
  <1>5. 0 \in I
    BY <1>2, <1>4
  <1>6. ASSUME NEW n \in Nat, n \in I PROVE n + 1 \in I
    <2> SUFFICES ASSUME n + 1 <= len PROVE begin[n + 1] * sum <= extent * so[n + 1]
      OBVIOUS
    <2> DEFINE a == begin[n]
               b == parts[n + 1]
               c == so[n]
               d == props[n + 1]
    <2>1. n + 1 \in 1..len /\ (n + 1) - 1 = n /\ n \in 0..len
      BY <1>1
    <2>2. /\ a \in Nat /\ b \in Nat /\ c \in Nat /\ d \in Nat
          /\ begin[n + 1] = a + b /\ so[n + 1] = c + d
          /\ a * sum <= extent * c /\ b * sum <= extent * d
      BY <1>1, <1>2, <1>4, <1>6, <2>1
    <2> HIDE DEF a, b, c, d
    <2>3. (a + b) * sum = a * sum + b * sum /\ extent * (c + d) = extent * c + extent * d
      BY <2>2
    <2>4. a * sum \in Int /\ b * sum \in Int /\ extent * c \in Int /\ extent * d \in Int
      BY <2>2
    <2> QED
      BY <2>2, <2>3, <2>4
  <1>7. begin[len] * sum <= extent * sum
    <2>1. Nat \subseteq I
      <3> HIDE DEF I
      <3> QED
        BY <1>5, <1>6, SetInduction
    <2>2. len \in I
      BY <1>1, <2>1
    <2> QED
      BY <1>1, <1>3, <2>2
  <1>8. begin[len] <= extent
    <2> SUFFICES ASSUME begin[len] >= extent + 1 PROVE FALSE
      BY <1>1, <1>4
    <2> DEFINE d == begin[len] - extent - 1
    <2>0. begin[len] \in Nat
      BY <1>1, <1>4
    <2>1. d \in Nat /\ begin[len] = d + extent + 1
      BY <2>0
    <2> HIDE DEF d
    <2>2. (d + extent + 1) * sum = d * sum + extent * sum + sum /\ d * sum \in Nat /\ extent * sum \in Nat
      BY <2>1
    <2> QED
      BY <1>7, <2>1, <2>2
  <1> QED
    BY <1>1, <1>4, <1>8 DEF begin, len

\* Equal proportions.
LEMMA OnesAre ==
    ASSUME NEW n \in Nat \ {0}
    PROVE  /\ IsLines(Ones(n)) /\ Len(Ones(n)) = n /\ Total(Ones(n)) = n
           /\ \A i \in 1..n : Ones(n)[i] = 1
  <1> DEFINE ones == Ones(n)
             so == Sums(ones)
  <1>1. /\ Len(ones) = n /\ DOMAIN ones = 1..n /\ \A i \in 1..n : ones[i] = 1
    <2>1. ones = [i \in 1..n |-> ones[i]] /\ \A i \in 1..n : ones[i] = 1
      BY DEF Ones
    <2> HIDE DEF ones
    <2> QED
      BY <2>1, LenIs
  <1> HIDE DEF ones
  <1>2. IsLines(ones)
    BY <1>1 DEF IsLines
  <1>3. so[0] = 0 /\ \A k \in 1..n : so[k] = so[k - 1] + 1
    BY <1>1, <1>2, SumsGrow
  <1> HIDE DEF so
  <1> DEFINE I == {k \in Nat : k <= n => so[k] = k}
  <1>4. 0 \in I
    BY <1>3
  <1>5. ASSUME NEW k \in Nat, k \in I PROVE k + 1 \in I
    <2> SUFFICES ASSUME k + 1 <= n PROVE so[k + 1] = k + 1
      OBVIOUS
    <2>1. k + 1 \in 1..n /\ (k + 1) - 1 = k /\ k <= n
      OBVIOUS
    <2>2. so[k] = k
      BY <1>5, <2>1
    <2> QED
      BY <1>3, <2>1, <2>2
  <1>6. n \in I
    <2> HIDE DEF I
    <2> QED
      BY <1>4, <1>5, SetInduction
  <1>7. Total(ones) = n
    BY <1>1, <1>6 DEF Total, so
  <1> QED
    BY <1>1, <1>2, <1>7 DEF ones

\* What GridLayout is made with, and what it keeps.
GridInv ==
    /\ IsLines(xProps) /\ IsLines(yProps)
    /\ SumProps(xProps) \in Nat \ {0} /\ SumProps(yProps) \in Nat \ {0}
    /\ pw \in Nat /\ ph \in Nat /\ padding \in Nat
    /\ regular => /\ \A i \in 1..Cols : xProps[i] = 1
                  /\ \A i \in 1..Rows : yProps[i] = 1
                  /\ SumProps(xProps) = Cols /\ SumProps(yProps) = Rows
    /\ Len(children) \in Nat /\ DOMAIN children = 1..Len(children)
    /\ TypeOK

\* A grid made from numbers of columns and rows: its sum is their number.
LEMMA RegularSums ==
    ASSUME NEW n \in Nat \ {0}, regular PROVE SumProps(Ones(n)) = n
  BY OnesAre DEF SumProps

\* Proportions of any kind, of which the sum is not 0.
LEMMA GridStart ==
    ASSUME Init PROVE GridInv
  <1>1. /\ IsLines(xProps) /\ IsLines(yProps)
        /\ regular => /\ \A i \in 1..Cols : xProps[i] = 1
                      /\ \A i \in 1..Rows : yProps[i] = 1
                      /\ SumProps(xProps) = Cols /\ SumProps(yProps) = Rows
    <2>1. CASE regular = TRUE /\ \E c, r \in 1..MaxLines : xProps = Ones(c) /\ yProps = Ones(r)
      <3>1. PICK c \in 1..MaxLines, r \in 1..MaxLines : xProps = Ones(c) /\ yProps = Ones(r)
        BY <2>1
      <3>2. c \in Nat \ {0} /\ r \in Nat \ {0} /\ regular
        BY <2>1, GridAssumption
      <3>3. /\ IsLines(xProps) /\ Cols = c /\ \A i \in 1..c : xProps[i] = 1
            /\ IsLines(yProps) /\ Rows = r /\ \A i \in 1..r : yProps[i] = 1
        BY <3>1, <3>2, OnesAre DEF Cols, Rows
      <3>4. SumProps(xProps) = c /\ SumProps(yProps) = r
        BY <3>1, <3>2, RegularSums
      <3> QED
        BY <3>3, <3>4
    <2>2. CASE regular = FALSE /\ xProps \in PropSeqs /\ yProps \in PropSeqs
      <3>1. ASSUME NEW props \in PropSeqs PROVE IsLines(props)
        <4>1. PICK n \in 1..MaxLines : props \in [1..n -> Prop]
          BY DEF PropSeqs
        <4>2. n \in Nat \ {0} /\ \A i \in 1..n : props[i] \in Nat
          <5>1. Prop \subseteq Nat /\ MaxLines \in Nat
            BY GridAssumption
          <5>2. \A i \in 1..n : props[i] \in Prop
            BY <4>1
          <5>3. n \in Nat /\ n # 0
            BY <5>1
          <5> QED
            BY <5>1, <5>2, <5>3
        <4>3. Len(props) = n /\ DOMAIN props = 1..n
          BY <4>1, <4>2, LenIs
        <4> QED
          BY <4>2, <4>3 DEF IsLines
      <3> QED
        BY <2>2, <3>1
    <2> QED
      BY <2>1, <2>2 DEF Init
  <1>2. ASSUME NEW props, IsLines(props), SumProps(props) # 0 PROVE SumProps(props) \in Nat \ {0}
    <2>1. Total(props) \in Nat
      <3>1. Len(props) \in 0..Len(props)
        BY <1>2 DEF IsLines
      <3> QED
        BY <1>2, <3>1, SumsGrow DEF Total
    <2>2. Total(props) % 256 \in Nat
      BY <2>1
    <2> QED
      BY <1>2, <2>1, <2>2 DEF SumProps
  <1>3. /\ SumProps(xProps) \in Nat \ {0} /\ SumProps(yProps) \in Nat \ {0}
        /\ pw \in Nat /\ ph \in Nat /\ padding \in Nat
    BY <1>1, <1>2, GridAssumption DEF Init
  <1>4. Len(children) = 0 /\ DOMAIN children = 1..0
    BY DEF Init
  <1>5. TypeOK
    <2>1. Cols \in Nat \ {0} /\ Rows \in Nat \ {0}
      BY <1>1 DEF IsLines, Cols, Rows
    <2> QED
      <3>1. nextCol = 0 /\ nextRow = 0 /\ nextX = 0 /\ nextY = 0 /\ thrown = FALSE
        BY DEF Init
      <3>2. \A i \in DOMAIN children :
                children[i] \in [x : Int, y : Int, w : Nat, h : Nat, border : Nat]
        BY <1>4
      <3>3. /\ nextCol \in 0..(Cols - 1) /\ nextRow \in 0..(Rows - 1)
            /\ nextX \in Nat /\ nextY \in Nat
        BY <2>1, <3>1
      <3>4. thrown \in BOOLEAN
        BY <3>1
      <3> QED
        BY <3>2, <3>3, <3>4 DEF TypeOK
  <1> QED
    BY <1>1, <1>3, <1>4, <1>5 DEF GridInv

\* A child is never given more than its cell.
LEMMA FitIs ==
    ASSUME NEW padded \in Int, NEW preferred \in Nat \cup {-1}, NEW extra \in Nat
    PROVE  Fit(padded, preferred, extra) \in Int /\ Fit(padded, preferred, extra) <= padded
  BY MinIs DEF Fit

\* The cell the next child is put into.
LEMMA CellIs ==
    ASSUME GridInv
    PROVE  /\ nextCol + 1 \in 1..Cols /\ nextRow + 1 \in 1..Rows
           /\ CellW = Parts(xProps, pw, SumProps(xProps))[nextCol + 1] /\ CellW \in Nat
           /\ CellH = Parts(yProps, ph, SumProps(yProps))[nextRow + 1] /\ CellH \in Nat
  <1>1. /\ IsLines(xProps) /\ IsLines(yProps)
        /\ SumProps(xProps) \in Nat \ {0} /\ SumProps(yProps) \in Nat \ {0} /\ pw \in Nat /\ ph \in Nat
    BY DEF GridInv
  <1>2. nextCol + 1 \in 1..Cols /\ nextRow + 1 \in 1..Rows /\ Cols \in Nat /\ Rows \in Nat
    BY DEF GridInv, TypeOK, IsLines, Cols, Rows
  <1>3. \A i \in 1..Cols : Parts(xProps, pw, SumProps(xProps))[i] = (pw * xProps[i]) \div SumProps(xProps)
                           /\ Parts(xProps, pw, SumProps(xProps))[i] \in Nat
    BY <1>1, PartsAre DEF Cols
  <1>4. \A i \in 1..Rows : Parts(yProps, ph, SumProps(yProps))[i] = (ph * yProps[i]) \div SumProps(yProps)
                           /\ Parts(yProps, ph, SumProps(yProps))[i] \in Nat
    BY <1>1, PartsAre DEF Rows
  <1> QED
    BY <1>2, <1>3, <1>4 DEF CellW, CellH

\* What place() does with a child that fits.
Placed(c) ==
    /\ children' = Append(children, c)
    /\ c \in [x : Int, y : Int, w : Nat, h : Nat, border : Nat]
    /\ c.x - c.border >= ParentX + nextX /\ c.x + c.w + c.border <= ParentX + nextX + CellW
    /\ c.y - c.border >= ParentY + nextY /\ c.y + c.h + c.border <= ParentY + nextY + CellH
    /\ c.w <= CellW

\* place() puts the child inside of its cell, or throws.
LEMMA PlaceIsIn ==
    ASSUME GridInv, NEW edge \in Edge, NEW prefW \in Preferred, NEW prefH \in Preferred,
           Place(edge, prefW, prefH)
    PROVE  /\ UNCHANGED grid
           /\ \/ UNCHANGED <<next, children>> /\ thrown' = TRUE
              \/ (\E c : Placed(c)) /\ NextCell /\ UNCHANGED thrown
  <1> DEFINE extra == edge.border + edge.margin
             w == Fit(PaddedW, prefW, extra)
             h == Fit(PaddedH, prefH, extra)
             padX == IF nextCol = 0 THEN padding ELSE 0
             padY == IF nextRow = 0 THEN padding ELSE 0
             x == ParentX + nextX + (PaddedW - w) \div 2 + padX + extra
             y == ParentY + nextY + (PaddedH - h) \div 2 + padY + extra
             c == [x |-> x, y |-> y, w |-> w - 2 * extra, h |-> h - 2 * extra, border |-> edge.border]
  <1>1. /\ edge.border \in Nat /\ edge.margin \in Nat /\ prefW \in Nat \cup {-1} /\ prefH \in Nat \cup {-1}
        /\ ParentX \in Nat /\ ParentY \in Nat /\ nextX \in Nat /\ nextY \in Nat /\ padding \in Nat
        /\ CellW \in Nat /\ CellH \in Nat
    <2>1. CellW \in Nat /\ CellH \in Nat
      BY CellIs
    <2> QED
      BY <2>1, GridAssumption DEF GridInv, TypeOK
  <1>2. extra \in Nat
    BY <1>1
  <1>3. /\ PaddedW \in Int /\ PaddedH \in Int /\ padX \in Nat /\ padY \in Nat
        /\ PaddedW + padX <= CellW /\ PaddedH + padY <= CellH
    BY <1>1 DEF PaddedW, PaddedH
  <1> HIDE DEF extra, padX, padY
  <1>4. w \in Int /\ w <= PaddedW /\ h \in Int /\ h <= PaddedH
    <2> DEFINE a == PaddedW
               b == PaddedH
    <2>1. a \in Int /\ b \in Int
      BY <1>3
    <2> HIDE DEF a, b
    <2>2. Fit(a, prefW, extra) \in Int /\ Fit(a, prefW, extra) <= a
      BY <1>1, <1>2, <2>1, FitIs
    <2>3. Fit(b, prefH, extra) \in Int /\ Fit(b, prefH, extra) <= b
      BY <1>1, <1>2, <2>1, FitIs
    <2> QED
      BY <2>2, <2>3 DEF a, b
  <1>5. Place(edge, prefW, prefH) <=>
            /\ ~thrown /\ Len(children) < MaxChildren
            /\ IF TooSmall(w, h, extra)
               THEN thrown' = TRUE /\ UNCHANGED <<next, children>>
               ELSE children' = Append(children, c) /\ NextCell /\ UNCHANGED thrown
            /\ UNCHANGED grid
    BY DEF Place, extra, padX, padY
  <1> HIDE DEF w, h
  <1>6. ASSUME ~TooSmall(w, h, extra), children' = Append(children, c) PROVE Placed(c)
    <2>1. w >= 2 * extra /\ h >= 2 * extra
      BY <1>2, <1>4, <1>6 DEF TooSmall
    <2> DEFINE dx == (PaddedW - w) \div 2
               dy == (PaddedH - h) \div 2
    <2>2. dx \in Nat /\ dx + w <= PaddedW /\ dy \in Nat /\ dy + h <= PaddedH
      BY <1>3, <1>4
    <2> HIDE DEF dx, dy
    <2>3. /\ x = ParentX + nextX + dx + padX + extra /\ y = ParentY + nextY + dy + padY + extra
          /\ x \in Int /\ y \in Int
      BY <1>1, <1>2, <1>3, <2>2 DEF dx, dy
    <2> HIDE DEF x, y
    <2>4. /\ c.x = x /\ c.y = y /\ c.w = w - 2 * extra /\ c.h = h - 2 * extra /\ c.border = edge.border
          /\ w - 2 * extra \in Nat /\ h - 2 * extra \in Nat
      BY <1>2, <1>4, <2>1
    <2>5. c \in [x : Int, y : Int, w : Nat, h : Nat, border : Nat]
      BY <1>1, <2>3, <2>4
    <2>6. extra = edge.border + edge.margin
      BY DEF extra
    <2>7. /\ c.x - c.border >= ParentX + nextX /\ c.x + c.w + c.border <= ParentX + nextX + CellW
          /\ c.w <= CellW
      <3> HIDE DEF c
      <3> QED
        BY <1>1, <1>2, <1>3, <1>4, <2>1, <2>2, <2>3, <2>4, <2>6
    <2>8. c.y - c.border >= ParentY + nextY /\ c.y + c.h + c.border <= ParentY + nextY + CellH
      <3> HIDE DEF c
      <3> QED
        BY <1>1, <1>2, <1>3, <1>4, <2>1, <2>2, <2>3, <2>4, <2>6
    <2> QED
      BY <1>6, <2>5, <2>7, <2>8 DEF Placed
  <1> HIDE DEF c
  <1> QED
    BY <1>5, <1>6

\* Where a row of cells begins.
LEMMA NextStaysIn ==
    ASSUME GridInv, NextCell, UNCHANGED grid
    PROVE  /\ nextCol' \in 0..(Cols - 1) /\ nextRow' \in 0..(Rows - 1)
           /\ nextX' \in Nat /\ nextY' \in Nat
  <1>1. /\ Cols \in Nat \ {0} /\ Rows \in Nat \ {0}
        /\ nextCol \in 0..(Cols - 1) /\ nextRow \in 0..(Rows - 1) /\ nextX \in Nat /\ nextY \in Nat
    BY DEF GridInv, TypeOK, IsLines, Cols, Rows
  <1>2. CellW \in Nat /\ CellH \in Nat
    BY CellIs
  <1>3. \A a \in Int, n \in Nat \ {0} : a % n \in 0..(n - 1)
    OBVIOUS
  <1>4. nextCol + 1 \in Int
    BY <1>1
  <1>5. nextCol' \in 0..(Cols - 1)
    BY <1>1, <1>3, <1>4 DEF NextCell
  <1>6. (nextCol' + 1) % Rows \in 0..(Rows - 1)
    <2>1. nextCol' + 1 \in Int
      BY <1>1, <1>5
    <2> QED
      BY <1>1, <1>3, <2>1
  <1>7. nextRow' \in 0..(Rows - 1)
    BY <1>1, <1>6 DEF NextCell
  <1>8. nextX' \in Nat /\ nextY' \in Nat
    BY <1>1, <1>2 DEF NextCell
  <1> QED
    BY <1>5, <1>7, <1>8

\* The children with one more.
LEMMA Appended ==
    ASSUME Len(children) \in Nat, DOMAIN children = 1..Len(children), NEW c, children' = Append(children, c)
    PROVE  /\ Len(children') = Len(children) + 1 /\ DOMAIN children' = 1..(Len(children) + 1)
           /\ \A i \in 1..Len(children) : children'[i] = children[i]
           /\ children'[Len(children) + 1] = c
  BY DEF Append

\* place() keeps what is said of the grid.
LEMMA GridStep ==
    ASSUME GridInv, NEW edge \in Edge, NEW prefW \in Preferred, NEW prefH \in Preferred,
           Place(edge, prefW, prefH)
    PROVE  GridInv'
  <1>1. UNCHANGED grid
    BY PlaceIsIn
  <1>2. xProps' = xProps /\ yProps' = yProps /\ pw' = pw /\ ph' = ph /\ padding' = padding
        /\ regular' = regular
    BY <1>1 DEF grid
  <1>3. /\ Cols' = Cols /\ Rows' = Rows
        /\ SumProps(xProps)' = SumProps(xProps) /\ SumProps(yProps)' = SumProps(yProps)
        /\ IsLines(xProps)' = IsLines(xProps) /\ IsLines(yProps)' = IsLines(yProps)
    BY <1>2 DEF SumProps, Total, Sums, IsLines, Cols, Rows
  <1>4. CASE UNCHANGED <<next, children>> /\ thrown' = TRUE
    <2>1. nextCol' = nextCol /\ nextRow' = nextRow /\ nextX' = nextX /\ nextY' = nextY
          /\ children' = children
      BY <1>4 DEF next
    <2>2. thrown' \in BOOLEAN
      BY <1>4
    <2>3. TypeOK'
      BY <1>2, <1>3, <2>1, <2>2 DEF GridInv, TypeOK
    <2> QED
      BY <1>2, <1>3, <2>1, <2>3 DEF GridInv
  <1>5. CASE (\E c : Placed(c)) /\ NextCell /\ UNCHANGED thrown
    <2>1. PICK c : Placed(c)
      BY <1>5
    <2>2. /\ Len(children') = Len(children) + 1 /\ DOMAIN children' = 1..(Len(children) + 1)
          /\ \A i \in 1..Len(children) : children'[i] = children[i]
          /\ children'[Len(children) + 1] = c
          /\ c \in [x : Int, y : Int, w : Nat, h : Nat, border : Nat]
      BY <2>1, Appended DEF GridInv, Placed
    <2>3. Len(children)' \in Nat /\ DOMAIN children' = 1..(Len(children)')
      BY <2>2 DEF GridInv
    <2>4. /\ nextCol' \in 0..(Cols - 1) /\ nextRow' \in 0..(Rows - 1)
          /\ nextX' \in Nat /\ nextY' \in Nat
      BY <1>1, <1>5, NextStaysIn
    <2>5. ASSUME NEW i \in DOMAIN children'
          PROVE  children'[i] \in [x : Int, y : Int, w : Nat, h : Nat, border : Nat]
      <3>1. i \in 1..Len(children) \/ i = Len(children) + 1
        BY <2>2 DEF GridInv
      <3> QED
        BY <2>2, <3>1 DEF GridInv, TypeOK
    <2>6. thrown' \in BOOLEAN
      BY <1>5 DEF GridInv, TypeOK
    <2>7. TypeOK'
      BY <1>3, <2>4, <2>5, <2>6 DEF TypeOK
    <2> QED
      BY <1>2, <1>3, <2>3, <2>7 DEF GridInv
  <1> QED
    BY <1>4, <1>5, PlaceIsIn

\* The first row is filled from the left to the right, each child in its part.  When
\* there is nothing left of the width, what is still to come has no width.
PartsOfRow == Parts(xProps, pw, SumProps(xProps))
BeginsOfRow == Begins(xProps, pw, SumProps(xProps))

InFirstRow(child, j) ==
    \/ /\ ParentX + BeginsOfRow[j - 1] <= child.x
       /\ child.x + child.w <= ParentX + BeginsOfRow[j]
    \/ child.w = 0 /\ ParentX <= child.x /\ child.x <= ParentX + pw

FirstRowInv ==
    Total(xProps) = SumProps(xProps) =>
        /\ Len(children) < Cols =>
            /\ nextCol = Len(children)
            /\ \/ nextX = BeginsOfRow[Len(children)]
               \/ nextX = 0 /\ \A i \in (Len(children) + 1)..Cols : PartsOfRow[i] = 0
        /\ \A j \in 1..Len(children) : j <= Cols => InFirstRow(children[j], j)

\* The columns follow each other, and all of them are in the container.
LEMMA RowIsFilled ==
    ASSUME GridInv, Total(xProps) = SumProps(xProps)
    PROVE  /\ Cols \in Nat \ {0} /\ BeginsOfRow[0] = 0
           /\ \A n \in 1..Cols : /\ BeginsOfRow[n] = BeginsOfRow[n - 1] + PartsOfRow[n]
                                 /\ PartsOfRow[n] \in Nat
           /\ \A n \in 0..Cols : BeginsOfRow[n] \in 0..pw
           /\ \A m, n \in 0..Cols : m <= n => BeginsOfRow[m] <= BeginsOfRow[n]
  <1> DEFINE sum == SumProps(xProps)
  <1>1. IsLines(xProps) /\ pw \in Nat /\ sum \in Nat \ {0} /\ Total(xProps) = sum
    BY DEF GridInv
  <1> HIDE DEF sum
  <1>2. /\ IsLines(Parts(xProps, pw, sum)) /\ Len(Parts(xProps, pw, sum)) = Cols
        /\ \A i \in 1..Cols : Parts(xProps, pw, sum)[i] \in Nat
    BY <1>1, PartsAre DEF Cols
  <1>3. \A n \in 0..Cols : Begins(xProps, pw, sum)[n] <= pw
    BY <1>1, PartsFit DEF Cols
  <1>4. Cols \in Nat \ {0}
    BY <1>1 DEF IsLines, Cols
  <1> DEFINE parts == Parts(xProps, pw, sum)
             so == Sums(parts)
  <1>5. so = BeginsOfRow /\ parts = PartsOfRow /\ so = Begins(xProps, pw, sum)
    BY DEF BeginsOfRow, PartsOfRow, Begins, sum
  <1>6. /\ so[0] = 0
        /\ \A n \in 1..Cols : so[n] = so[n - 1] + parts[n]
        /\ \A n \in 0..Cols : so[n] \in Nat
        /\ \A m, n \in 0..Cols : m <= n => so[m] <= so[n]
    <2> HIDE DEF parts
    <2>1. IsLines(parts) /\ Len(parts) = Cols
      BY <1>2 DEF parts
    <2> QED
      BY <2>1, SumsGrow
  <1> HIDE DEF parts, so
  <1>7. \A n \in 1..Cols : parts[n] \in Nat
    BY <1>2 DEF parts
  <1>8. \A n \in 0..Cols : so[n] \in 0..pw
    BY <1>1, <1>3, <1>5, <1>6
  <1> QED
    BY <1>4, <1>5, <1>6, <1>7, <1>8

\* place() keeps what is said of the first row.
LEMMA FirstRowStep ==
    ASSUME GridInv, FirstRowInv, NEW edge \in Edge, NEW prefW \in Preferred, NEW prefH \in Preferred,
           Place(edge, prefW, prefH)
    PROVE  FirstRowInv'
  <1>1. UNCHANGED grid
    BY PlaceIsIn
  <1>2. /\ xProps' = xProps /\ pw' = pw /\ Cols' = Cols /\ Total(xProps)' = Total(xProps)
        /\ SumProps(xProps)' = SumProps(xProps) /\ BeginsOfRow' = BeginsOfRow /\ PartsOfRow' = PartsOfRow
    BY <1>1 DEF grid, SumProps, Total, Sums, Cols, BeginsOfRow, PartsOfRow, Begins, Parts
  <1>3. ASSUME NEW child, NEW j PROVE InFirstRow(child, j)' <=> InFirstRow(child, j)
    BY <1>2 DEF InFirstRow
  <1>4. CASE UNCHANGED <<next, children>>
    BY <1>2, <1>3, <1>4 DEF FirstRowInv, next, InFirstRow
  <1>5. CASE (\E c : Placed(c)) /\ NextCell
    <2> SUFFICES ASSUME Total(xProps) = SumProps(xProps)
                 PROVE  /\ Len(children)' < Cols =>
                            /\ nextCol' = Len(children)'
                            /\ \/ nextX' = BeginsOfRow[Len(children)']
                               \/ nextX' = 0 /\ \A i \in (Len(children)' + 1)..Cols : PartsOfRow[i] = 0
                        /\ \A j \in 1..(Len(children)') : j <= Cols => InFirstRow(children'[j], j)
      BY <1>2, <1>3 DEF FirstRowInv, InFirstRow
    <2>1. PICK c : Placed(c)
      BY <1>5
    <2> DEFINE n == Len(children)
    <2>2. /\ n \in Nat /\ Len(children)' = n + 1
          /\ \A i \in 1..n : children'[i] = children[i]
          /\ children'[n + 1] = c
      <3>1. n \in Nat /\ DOMAIN children = 1..n /\ children' = Append(children, c)
        BY <2>1 DEF GridInv, Placed
      <3> QED
        BY <3>1, Appended
    <2>3. /\ Cols \in Nat \ {0} /\ BeginsOfRow[0] = 0
          /\ \A i \in 1..Cols : /\ BeginsOfRow[i] = BeginsOfRow[i - 1] + PartsOfRow[i]
                                /\ PartsOfRow[i] \in Nat
          /\ \A i \in 0..Cols : BeginsOfRow[i] \in 0..pw
          /\ \A l, i \in 0..Cols : l <= i => BeginsOfRow[l] <= BeginsOfRow[i]
      BY RowIsFilled
    <2>4. /\ nextX \in Nat /\ pw \in Nat /\ ParentX \in Nat
          /\ CellW = PartsOfRow[nextCol + 1] /\ CellW \in Nat
      <3>1. CellW = PartsOfRow[nextCol + 1] /\ CellW \in Nat
        BY CellIs DEF PartsOfRow
      <3> QED
        BY <3>1, GridAssumption DEF GridInv, TypeOK
    <2>5. /\ c.x \in Int /\ c.w \in Nat /\ c.border \in Nat /\ c.w <= CellW
          /\ c.x - c.border >= ParentX + nextX /\ c.x + c.w + c.border <= ParentX + nextX + CellW
      BY <2>1 DEF Placed
    <2>6. /\ n < Cols => /\ nextCol = n
                         /\ \/ nextX = BeginsOfRow[n]
                            \/ nextX = 0 /\ \A i \in (n + 1)..Cols : PartsOfRow[i] = 0
          /\ \A j \in 1..n : j <= Cols => InFirstRow(children[j], j)
      BY DEF FirstRowInv
    <2> HIDE DEF n
    <2>7. ASSUME n < Cols PROVE InFirstRow(c, n + 1)
      <3>1. n + 1 \in 1..Cols /\ n \in 0..Cols /\ n + 1 \in 0..Cols /\ (n + 1) - 1 = n /\ nextCol = n
        BY <2>2, <2>3, <2>6, <2>7
      <3>2. CASE nextX = BeginsOfRow[n]
        <4>1. BeginsOfRow[n + 1] = BeginsOfRow[n] + CellW /\ BeginsOfRow[n] \in Nat
          BY <2>3, <2>4, <3>1
        <4> QED
          BY <2>4, <2>5, <3>1, <3>2, <4>1 DEF InFirstRow
      <3>3. CASE nextX = 0 /\ \A i \in (n + 1)..Cols : PartsOfRow[i] = 0
        <4>1. CellW = 0
          BY <2>3, <2>4, <3>1, <3>3
        <4> QED
          BY <2>4, <2>5, <3>3, <4>1 DEF InFirstRow
      <3> QED
        BY <2>6, <2>7, <3>2, <3>3
    <2>8. ASSUME n + 1 < Cols
          PROVE  /\ nextCol' = n + 1
                 /\ \/ nextX' = BeginsOfRow[n + 1]
                    \/ nextX' = 0 /\ \A i \in (n + 2)..Cols : PartsOfRow[i] = 0
      <3>1. n + 1 \in 1..Cols /\ n \in 0..Cols /\ n + 1 \in 0..Cols /\ (n + 1) - 1 = n /\ nextCol = n
            /\ n < Cols
        BY <2>2, <2>3, <2>6, <2>8
      <3>2. nextCol' = n + 1
        <4>1. (n + 1) % Cols = n + 1
          <5> DEFINE k == n + 1
          <5>1. k \in 0..(Cols - 1) /\ 0 * Cols + k = k
            BY <2>2, <2>3, <2>8
          <5> HIDE DEF k
          <5>2. (0 * Cols + k) % Cols = k
            BY <2>3, <5>1, DivisionIs
          <5> QED
            BY <5>1, <5>2 DEF k
        <4> QED
          BY <1>5, <3>1, <4>1 DEF NextCell
      <3>3. nextX' = IF nextX + CellW >= pw THEN 0 ELSE nextX + CellW
        BY <1>5 DEF NextCell
      <3>4. CASE nextX = BeginsOfRow[n]
        <4>1. BeginsOfRow[n + 1] = nextX + CellW /\ BeginsOfRow[n + 1] \in 0..pw
          BY <2>3, <2>4, <3>1, <3>4
        <4>2. CASE nextX + CellW >= pw
          <5>1. BeginsOfRow[n + 1] = pw
            BY <2>4, <4>1, <4>2
          <5>2. ASSUME NEW i \in (n + 2)..Cols PROVE PartsOfRow[i] = 0
            <6>1. i \in 1..Cols /\ i - 1 \in 0..Cols /\ i \in 0..Cols /\ n + 1 <= i - 1 /\ n + 1 <= i
              BY <2>2, <2>3
            <6>2. BeginsOfRow[i] = BeginsOfRow[i - 1] + PartsOfRow[i] /\ PartsOfRow[i] \in Nat
                  /\ BeginsOfRow[i] \in 0..pw /\ BeginsOfRow[i - 1] \in 0..pw
              BY <2>3, <6>1
            <6> DEFINE l == i - 1
            <6>3. BeginsOfRow[n + 1] <= BeginsOfRow[i - 1]
              <7>1. l \in 0..Cols /\ n + 1 <= l
                BY <6>1
              <7> HIDE DEF l
              <7>2. BeginsOfRow[n + 1] <= BeginsOfRow[l]
                BY <2>3, <3>1, <7>1
              <7> QED
                BY <7>2 DEF l
            <6> QED
              BY <2>4, <5>1, <6>2, <6>3
          <5> QED
            BY <3>2, <3>3, <4>2, <5>2
        <4>3. CASE ~(nextX + CellW >= pw)
          BY <3>2, <3>3, <4>1, <4>3
        <4> QED
          BY <4>2, <4>3
      <3>5. CASE nextX = 0 /\ \A i \in (n + 1)..Cols : PartsOfRow[i] = 0
        <4>1. CellW = 0
          BY <2>3, <2>4, <3>1, <3>5
        <4>2. nextX' = 0
          BY <2>4, <3>3, <3>5, <4>1
        <4>3. \A i \in (n + 2)..Cols : i \in (n + 1)..Cols
          BY <2>2, <2>3
        <4> QED
          BY <3>2, <3>5, <4>2, <4>3
      <3> QED
        BY <2>6, <3>1, <3>4, <3>5
    <2>9. ASSUME NEW j \in 1..(n + 1), j <= Cols PROVE InFirstRow(children'[j], j)
      <3>1. CASE j = n + 1
        <4>1. n < Cols
          BY <2>2, <2>3, <2>9, <3>1
        <4> QED
          BY <2>2, <2>7, <3>1, <4>1
      <3>2. CASE j \in 1..n
        BY <2>2, <2>6, <2>9, <3>2
      <3> QED
        BY <2>2, <3>1, <3>2
    <2>10. n + 1 + 1 = n + 2
      BY <2>2
    <2> QED
      BY <2>2, <2>8, <2>9, <2>10
  <1> QED
    BY <1>4, <1>5, PlaceIsIn

\* Who comes later is to the right of who comes earlier.
LEMMA FirstRowOrder ==
    ASSUME GridInv, FirstRowInv PROVE FirstRowApart
  <1> SUFFICES ASSUME Total(xProps) = SumProps(xProps), NEW j \in DOMAIN children, j <= Cols
               PROVE  /\ ParentX <= children[j].x /\ children[j].x + children[j].w <= ParentX + pw
                      /\ \A i \in DOMAIN children : i < j =>
                            \/ children[i].w = 0 \/ children[j].w = 0
                            \/ children[i].x + children[i].w <= children[j].x
    BY DEF FirstRowApart
  <1>1. /\ Cols \in Nat \ {0} /\ \A n \in 0..Cols : BeginsOfRow[n] \in 0..pw
        /\ \A m, n \in 0..Cols : m <= n => BeginsOfRow[m] <= BeginsOfRow[n]
    BY RowIsFilled
  <1>2. /\ pw \in Nat /\ ParentX \in Nat /\ DOMAIN children = 1..Len(children) /\ Len(children) \in Nat
        /\ \A i \in DOMAIN children : children[i].x \in Int /\ children[i].w \in Nat
    BY GridAssumption DEF GridInv, TypeOK
  <1>3. \A i \in DOMAIN children : i <= Cols => InFirstRow(children[i], i)
    BY <1>2 DEF FirstRowInv
  <1>4. ASSUME NEW i \in DOMAIN children, i <= Cols
        PROVE  i \in Int /\ i - 1 \in 0..Cols /\ i \in 0..Cols
               /\ BeginsOfRow[i - 1] \in 0..pw /\ BeginsOfRow[i] \in 0..pw
    <2>1. i - 1 \in 0..Cols /\ i \in 0..Cols
      BY <1>1, <1>2, <1>4
    <2> QED
      BY <1>1, <2>1
  <1>5. ParentX <= children[j].x /\ children[j].x + children[j].w <= ParentX + pw
    <2> DEFINE l == j - 1
    <2>1. BeginsOfRow[l] \in 0..pw /\ BeginsOfRow[j] \in 0..pw
      BY <1>4
    <2>2. InFirstRow(children[j], j)
      BY <1>3
    <2>3. \/ /\ ParentX + BeginsOfRow[l] <= children[j].x
             /\ children[j].x + children[j].w <= ParentX + BeginsOfRow[j]
          \/ children[j].w = 0 /\ ParentX <= children[j].x /\ children[j].x <= ParentX + pw
      BY <2>2 DEF InFirstRow
    <2> HIDE DEF l
    <2> DEFINE x == children[j].x
               w == children[j].w
               a == BeginsOfRow[l]
               b == BeginsOfRow[j]
    <2>4. x \in Int /\ w \in Nat /\ a \in 0..pw /\ b \in 0..pw
      BY <1>2, <2>1
    <2> HIDE DEF x, w, a, b
    <2>5. \/ ParentX + a <= x /\ x + w <= ParentX + b
          \/ w = 0 /\ ParentX <= x /\ x <= ParentX + pw
      BY <2>3 DEF x, w, a, b
    <2>6. ParentX <= x /\ x + w <= ParentX + pw
      BY <1>2, <2>4, <2>5
    <2> QED
      BY <2>6 DEF x, w
  <1>6. ASSUME NEW i \in DOMAIN children, i < j, children[i].w # 0, children[j].w # 0
        PROVE  children[i].x + children[i].w <= children[j].x
    <2>1. i <= Cols
      BY <1>1, <1>2, <1>6
    <2>2. children[i].x + children[i].w <= ParentX + BeginsOfRow[i]
      BY <1>3, <1>6, <2>1 DEF InFirstRow
    <2>3. ParentX + BeginsOfRow[j - 1] <= children[j].x
      BY <1>3, <1>6 DEF InFirstRow
    <2> DEFINE l == j - 1
    <2>4. i \in 0..Cols /\ l \in 0..Cols /\ i <= l
      BY <1>2, <1>4, <1>6, <2>1
    <2> HIDE DEF l
    <2>5. BeginsOfRow[i] <= BeginsOfRow[l] /\ BeginsOfRow[i] \in Int /\ BeginsOfRow[l] \in Int
      BY <1>1, <2>4
    <2>6. /\ children[i].x \in Int /\ children[i].w \in Nat /\ children[j].x \in Int
          /\ ParentX + BeginsOfRow[l] <= children[j].x
      BY <1>2, <2>3 DEF l
    <2> QED
      BY <1>2, <2>2, <2>5, <2>6
  <1> QED
    BY <1>5, <1>6

\* Equal cells that fill the container: the child with index r * Cols + c is in the
\* cell of that column and row, its border and its margin with it.
ColumnW == pw \div Cols
RowH == ph \div Rows

InCell(child, i) ==
    \E c \in 0..(Cols - 1), r \in 0..(Rows - 1) :
        /\ i = r * Cols + c + 1
        /\ ParentX + c * ColumnW <= child.x - child.border
        /\ child.x + child.w + child.border <= ParentX + c * ColumnW + ColumnW
        /\ ParentY + r * RowH <= child.y - child.border
        /\ child.y + child.h + child.border <= ParentY + r * RowH + RowH

EvenInv ==
    EvenGrid =>
        /\ Len(children) < Cols * Rows =>
            \E r \in Nat : /\ Len(children) = r * Cols + nextCol
                           /\ nextX = nextCol * ColumnW /\ nextY = r * RowH
        /\ \A i \in 1..Len(children) : i <= Cols * Rows => InCell(children[i], i)

\* Multiplication keeps the order.
LEMMA TimesGrows ==
    ASSUME NEW a \in Int, NEW b \in Int, NEW n \in Nat
    PROVE  /\ a * n \in Int /\ b * n \in Int
           /\ a <= b => a * n <= b * n
           /\ a < b /\ n > 0 => a * n < b * n
  <1>1. a * n \in Int /\ b * n \in Int
    OBVIOUS
  <1>2. ASSUME a <= b PROVE a * n <= b * n
    <2> DEFINE d == b - a
    <2>1. d \in Nat /\ b = a + d
      BY <1>2
    <2> HIDE DEF d
    <2>2. b * n = a * n + d * n /\ d * n \in Nat
      BY <2>1
    <2> QED
      BY <1>1, <2>2
  <1>3. ASSUME a < b, n > 0 PROVE a * n < b * n
    <2> DEFINE d == b - a - 1
    <2>1. d \in Nat /\ b = a + d + 1
      BY <1>3
    <2> HIDE DEF d
    <2>2. b * n = a * n + d * n + n /\ d * n \in Nat
      BY <2>1
    <2> QED
      BY <1>1, <1>3, <2>2
  <1> QED
    BY <1>1, <1>2, <1>3

\* In an even grid all cells are alike.
LEMMA EvenIs ==
    ASSUME GridInv, EvenGrid
    PROVE  /\ Cols \in Nat \ {0} /\ Rows \in Nat \ {0} /\ pw \in Nat /\ ph \in Nat
           /\ ColumnW \in Nat /\ pw = Cols * ColumnW /\ CellW = ColumnW
           /\ RowH \in Nat /\ ph = Rows * RowH /\ CellH = RowH
           /\ nextCol \in 0..(Cols - 1) /\ nextX \in Nat /\ nextY \in Nat
  <1>1. /\ Cols \in Nat \ {0} /\ Rows \in Nat \ {0} /\ pw \in Nat /\ ph \in Nat
        /\ pw % Cols = 0 /\ ph % Rows = 0
        /\ nextCol \in 0..(Cols - 1) /\ nextX \in Nat /\ nextY \in Nat
    BY DEF GridInv, EvenGrid, IsLines, Cols, Rows, TypeOK
  <1>2. /\ nextCol + 1 \in 1..Cols /\ nextRow + 1 \in 1..Rows /\ CellW \in Nat /\ CellH \in Nat
    BY CellIs
  <1>3. /\ xProps[nextCol + 1] = 1 /\ SumProps(xProps) = Cols
        /\ yProps[nextRow + 1] = 1 /\ SumProps(yProps) = Rows
    BY <1>2 DEF GridInv, EvenGrid
  <1>4. pw * 1 = pw /\ ph * 1 = ph
    BY <1>1
  <1>5. CellW = ColumnW /\ CellH = RowH
    BY <1>3, <1>4 DEF CellW, CellH, ColumnW, RowH
  <1>6. pw \in Int /\ ph \in Int
    BY <1>1
  <1>7. pw = ColumnW * Cols + (pw % Cols)
    BY <1>1, <1>6, EuclidIs DEF ColumnW
  <1>8. ph = RowH * Rows + (ph % Rows)
    BY <1>1, <1>6, EuclidIs DEF RowH
  <1> HIDE DEF ColumnW, RowH
  <1>9. pw = Cols * ColumnW /\ ph = Rows * RowH
    <2>1. ColumnW * Cols \in Int /\ RowH * Rows \in Int
      BY <1>1, <1>2, <1>5
    <2> QED
      BY <1>1, <1>2, <1>5, <1>7, <1>8, <2>1
  <1> QED
    BY <1>1, <1>2, <1>5, <1>9

\* place() puts the next child in the next cell of an even grid.
LEMMA EvenStep ==
    ASSUME GridInv, EvenInv, NEW edge \in Edge, NEW prefW \in Preferred, NEW prefH \in Preferred,
           Place(edge, prefW, prefH)
    PROVE  EvenInv'
  <1>1. UNCHANGED grid
    BY PlaceIsIn
  <1>2. /\ Cols' = Cols /\ Rows' = Rows /\ ColumnW' = ColumnW /\ RowH' = RowH /\ EvenGrid' = EvenGrid
    BY <1>1 DEF grid, Cols, Rows, ColumnW, RowH, EvenGrid
  <1>3. ASSUME NEW child, NEW i PROVE InCell(child, i)' <=> InCell(child, i)
    BY <1>2 DEF InCell
  <1>4. CASE UNCHANGED <<next, children>>
    BY <1>2, <1>3, <1>4 DEF EvenInv, next, InCell
  <1>5. CASE (\E c : Placed(c)) /\ NextCell
    <2> SUFFICES ASSUME EvenGrid
                 PROVE  /\ Len(children)' < Cols * Rows =>
                            \E r \in Nat : /\ Len(children)' = r * Cols + nextCol'
                                           /\ nextX' = nextCol' * ColumnW /\ nextY' = r * RowH
                        /\ \A i \in 1..(Len(children)') : i <= Cols * Rows => InCell(children'[i], i)
      BY <1>2, <1>3 DEF EvenInv, InCell
    <2>1. PICK child : Placed(child)
      BY <1>5
    <2> DEFINE n == Len(children)
    <2>2. /\ n \in Nat /\ Len(children)' = n + 1
          /\ \A i \in 1..n : children'[i] = children[i]
          /\ children'[n + 1] = child
      <3>1. n \in Nat /\ DOMAIN children = 1..n /\ children' = Append(children, child)
        BY <2>1 DEF GridInv, Placed
      <3> QED
        BY <3>1, Appended
    <2>3. /\ Cols \in Nat \ {0} /\ Rows \in Nat \ {0} /\ pw \in Nat /\ ph \in Nat
          /\ ColumnW \in Nat /\ pw = Cols * ColumnW /\ CellW = ColumnW
          /\ RowH \in Nat /\ ph = Rows * RowH /\ CellH = RowH
          /\ nextCol \in 0..(Cols - 1) /\ nextX \in Nat /\ nextY \in Nat
      BY EvenIs
    <2>4. /\ ParentX + nextX <= child.x - child.border
          /\ child.x + child.w + child.border <= ParentX + nextX + ColumnW
          /\ ParentY + nextY <= child.y - child.border
          /\ child.y + child.h + child.border <= ParentY + nextY + RowH
      <3>1. /\ child.x \in Int /\ child.w \in Int /\ child.border \in Int /\ child.y \in Int /\ child.h \in Int
            /\ ParentX \in Nat /\ ParentY \in Nat
        BY <2>1, GridAssumption DEF Placed
      <3> QED
        BY <2>1, <2>3, <3>1 DEF Placed
    <2>5. /\ n < Cols * Rows =>
                \E r \in Nat : n = r * Cols + nextCol /\ nextX = nextCol * ColumnW /\ nextY = r * RowH
          /\ \A i \in 1..n : i <= Cols * Rows => InCell(children[i], i)
      BY DEF EvenInv
    <2> DEFINE all == Cols * Rows
    <2>6. all \in Nat
      BY <2>3
    <2> HIDE DEF n, all
    <2>7. ASSUME n < all
          PROVE  /\ InCell(child, n + 1)
                 /\ n + 1 < all =>
                        \E r \in Nat : /\ n + 1 = r * Cols + nextCol'
                                       /\ nextX' = nextCol' * ColumnW /\ nextY' = r * RowH
      <3>1. PICK r \in Nat : n = r * Cols + nextCol /\ nextX = nextCol * ColumnW /\ nextY = r * RowH
        BY <2>5, <2>7 DEF all
      <3>2. r < Rows
        <4> SUFFICES ASSUME Rows <= r PROVE FALSE
          BY <2>3
        <4>1. Rows * Cols <= r * Cols /\ r * Cols \in Int /\ Rows * Cols \in Int
          BY <2>3, TimesGrows
        <4>2. all = Rows * Cols
          BY <2>3 DEF all
        <4> QED
          BY <2>2, <2>3, <2>7, <3>1, <4>1, <4>2
      <3>3. InCell(child, n + 1)
        <4>1. nextCol \in 0..(Cols - 1) /\ r \in 0..(Rows - 1)
          BY <2>3, <3>2
        <4>2. n + 1 = r * Cols + nextCol + 1
          BY <3>1
        <4> QED
          BY <2>4, <3>1, <4>1, <4>2 DEF InCell
      <3>4. /\ nextCol' = (nextCol + 1) % Cols
            /\ nextX' = (IF nextX + ColumnW >= pw THEN 0 ELSE nextX + ColumnW)
            /\ nextCol' = 0 => nextY' = IF nextY + RowH >= ph THEN 0 ELSE nextY + RowH
            /\ nextCol' # 0 => nextY' = nextY
        BY <1>5, <2>3 DEF NextCell
      <3>5. r * Cols \in Int /\ r * RowH \in Int
        BY <2>3
      <3>6. nextX + ColumnW = (nextCol + 1) * ColumnW /\ nextY + RowH = (r + 1) * RowH
        BY <2>3, <3>1
      <3>7. CASE nextCol + 1 < Cols
        <4>1. nextCol' = nextCol + 1
          <5> DEFINE k == nextCol + 1
          <5>1. k \in 0..(Cols - 1) /\ 0 * Cols + k = k
            BY <2>3, <3>7
          <5> HIDE DEF k
          <5>2. (0 * Cols + k) % Cols = k
            BY <2>3, <5>1, DivisionIs
          <5> QED
            BY <3>4, <5>1, <5>2 DEF k
        <4>2. nextY' = nextY
          BY <2>3, <3>4, <4>1
        <4>3. nextX' = (nextCol + 1) * ColumnW
          <5>1. CASE ColumnW = 0
            <6>1. (nextCol + 1) * ColumnW = 0 /\ pw = 0
              BY <2>3, <5>1
            <6> QED
              BY <3>4, <3>6, <6>1
          <5>2. CASE ColumnW > 0
            <6> DEFINE k == nextCol + 1
            <6>1. k \in Int /\ k < Cols /\ Cols \in Int
              BY <2>3, <3>7
            <6> HIDE DEF k
            <6>2. k * ColumnW < Cols * ColumnW /\ k * ColumnW \in Int /\ Cols * ColumnW \in Int
              BY <2>3, <5>2, <6>1, TimesGrows
            <6>3. ~(nextX + ColumnW >= pw)
              BY <2>3, <3>6, <6>2 DEF k
            <6> QED
              BY <3>4, <3>6, <6>3
          <5> QED
            BY <2>3, <5>1, <5>2
        <4>4. n + 1 = r * Cols + nextCol'
          BY <2>2, <2>3, <3>1, <3>5, <4>1
        <4> QED
          BY <3>1, <3>3, <4>1, <4>2, <4>3, <4>4
      <3>8. CASE nextCol + 1 = Cols
        <4>1. nextCol' = 0
          <5>1. (1 * Cols + 0) % Cols = 0
            <6>1. 0 \in 0..(Cols - 1)
              BY <2>3
            <6> QED
              BY <2>3, <6>1, DivisionIs
          <5>2. 1 * Cols + 0 = Cols
            BY <2>3
          <5> QED
            BY <3>4, <3>8, <5>1, <5>2
        <4>2. nextX' = 0
          BY <2>3, <3>4, <3>6, <3>8
        <4>3. n + 1 = (r + 1) * Cols + 0
          <5>1. (r + 1) * Cols = r * Cols + Cols
            BY <2>3
          <5> QED
            BY <2>2, <2>3, <3>1, <3>5, <3>8, <5>1
        <4>4. ASSUME n + 1 < all PROVE nextY' = (r + 1) * RowH
          <5>1. r + 1 < Rows
            <6> SUFFICES ASSUME Rows <= r + 1 PROVE FALSE
              BY <2>3
            <6> DEFINE k == r + 1
            <6>1. k \in Int /\ Rows <= k /\ n + 1 = k * Cols + 0
              BY <2>3, <4>3
            <6> HIDE DEF k
            <6>2. Rows * Cols <= k * Cols /\ k * Cols \in Int /\ Rows * Cols \in Int
              BY <2>3, <6>1, TimesGrows
            <6>3. all = Rows * Cols
              BY <2>3 DEF all
            <6> QED
              BY <2>2, <4>4, <6>1, <6>2, <6>3
          <5>2. CASE RowH = 0
            <6>1. (r + 1) * RowH = 0 /\ ph = 0
              BY <2>3, <5>2
            <6> QED
              BY <3>4, <3>6, <4>1, <6>1
          <5>3. CASE RowH > 0
            <6> DEFINE k == r + 1
            <6>1. k \in Int /\ k < Rows /\ Rows \in Int
              BY <2>3, <5>1
            <6> HIDE DEF k
            <6>2. k * RowH < Rows * RowH /\ k * RowH \in Int /\ Rows * RowH \in Int
              BY <2>3, <5>3, <6>1, TimesGrows
            <6>3. ~(nextY + RowH >= ph)
              BY <2>3, <3>6, <6>2 DEF k
            <6> QED
              BY <3>4, <3>6, <4>1, <6>3
          <5> QED
            BY <2>3, <5>2, <5>3
        <4>5. 0 * ColumnW = 0 /\ r + 1 \in Nat
          BY <2>3
        <4> QED
          BY <3>3, <4>1, <4>2, <4>3, <4>4, <4>5
      <3> QED
        BY <2>3, <3>7, <3>8
    <2>8. ASSUME NEW i \in 1..(n + 1), i <= all PROVE InCell(children'[i], i)
      <3>1. CASE i = n + 1
        <4>1. n < all
          BY <2>2, <2>6, <2>8, <3>1
        <4> QED
          BY <2>2, <2>7, <3>1, <4>1
      <3>2. CASE i \in 1..n
        BY <2>2, <2>5, <2>8, <3>2 DEF all
      <3> QED
        BY <2>2, <3>1, <3>2
    <2>9. ASSUME n + 1 < all PROVE n < all
      BY <2>2, <2>6, <2>9
    <2> QED
      BY <2>2, <2>7, <2>8, <2>9 DEF all
  <1> QED
    BY <1>4, <1>5, PlaceIsIn

\* All of it: what holds of the children of a container while it is laid out.
LayoutInv == GridInv /\ FirstRowInv /\ EvenInv

\* A container that has not been laid out, or another widget.
LEMMA LayoutInit == PaintingInit => LayoutInv
  <1> SUFFICES ASSUME PaintingInit PROVE LayoutInv
    OBVIOUS
  <1>1. GridInv
    <2>1. CASE Init
      BY <2>1, GridStart
    <2>2. CASE /\ pw = 0 /\ ph = 0 /\ padding = 0 /\ regular = TRUE
               /\ xProps = Ones(1) /\ yProps = Ones(1)
               /\ nextCol = 0 /\ nextRow = 0 /\ nextX = 0 /\ nextY = 0
               /\ children = <<>> /\ thrown = FALSE
      <3>1. IsLines(Ones(1)) /\ Len(Ones(1)) = 1 /\ Ones(1)[1] = 1
        BY OnesAre
      <3>2. SumProps(Ones(1)) = 1
        BY <2>2, RegularSums
      <3>3. thrown \in BOOLEAN
        BY <2>2
      <3>4. Cols = 1 /\ Rows = 1
        BY <2>2, <3>1 DEF Cols, Rows
      <3>5. \A i \in 1..1 : i = 1
        OBVIOUS
      <3>6. TypeOK
        BY <2>2, <3>3, <3>4 DEF TypeOK
      <3>7. Len(children) = 0 /\ DOMAIN children = 1..0
        BY <2>2
      <3> QED
        BY <2>2, <3>1, <3>2, <3>4, <3>5, <3>6, <3>7 DEF GridInv
    <2> QED
      BY <2>1, <2>2 DEF PaintingInit
  <1>2. Len(children) = 0 /\ nextCol = 0 /\ nextX = 0 /\ nextY = 0
    BY DEF PaintingInit, Init
  <1>3. FirstRowInv
    <2> SUFFICES ASSUME Total(xProps) = SumProps(xProps) PROVE FirstRowInv
      BY DEF FirstRowInv
    <2>1. BeginsOfRow[0] = 0
      BY <1>1, RowIsFilled
    <2> QED
      BY <1>2, <2>1 DEF FirstRowInv
  <1>4. EvenInv
    <2> SUFFICES ASSUME EvenGrid PROVE EvenInv
      BY DEF EvenInv
    <2>1. Cols \in Nat \ {0} /\ ColumnW \in Nat /\ RowH \in Nat
      BY <1>1, EvenIs
    <2>2. 0 \in Nat /\ 0 = 0 * Cols + 0 /\ 0 * ColumnW = 0 /\ 0 * RowH = 0
      BY <2>1
    <2> QED
      BY <1>2, <2>2 DEF EvenInv
  <1> QED
    BY <1>1, <1>3, <1>4 DEF LayoutInv

\* Only place() changes a container.
LEMMA LayoutNext ==
    ASSUME LayoutInv, [PaintingNext]_painting
    PROVE  LayoutInv'
  <1>1. CASE Next
    <2>1. PICK edge \in Edge, prefW \in Preferred, prefH \in Preferred : Place(edge, prefW, prefH)
      BY <1>1 DEF Next
    <2> QED
      BY <2>1, GridStep, FirstRowStep, EvenStep DEF LayoutInv
  <1>2. CASE UNCHANGED vars
    <2>1. /\ pw' = pw /\ ph' = ph /\ padding' = padding /\ xProps' = xProps /\ yProps' = yProps
          /\ regular' = regular /\ nextCol' = nextCol /\ nextRow' = nextRow
          /\ nextX' = nextX /\ nextY' = nextY /\ children' = children /\ thrown' = thrown
      BY <1>2 DEF vars, grid, next
    <2>2. /\ SumProps(xProps)' = SumProps(xProps) /\ SumProps(yProps)' = SumProps(yProps)
          /\ Total(xProps)' = Total(xProps) /\ Cols' = Cols /\ Rows' = Rows
          /\ BeginsOfRow' = BeginsOfRow /\ PartsOfRow' = PartsOfRow
      BY <2>1 DEF SumProps, Total, Sums, Cols, Rows, BeginsOfRow, PartsOfRow, Begins, Parts
    <2>3. /\ ColumnW' = ColumnW /\ RowH' = RowH /\ EvenGrid' = EvenGrid
      BY <2>1, <2>2 DEF ColumnW, RowH, EvenGrid
    <2>4. TypeOK'
      BY <2>1, <2>2 DEF LayoutInv, GridInv, TypeOK
    <2>5. GridInv'
      BY <2>1, <2>2, <2>4 DEF LayoutInv, GridInv, IsLines
    <2>6. FirstRowInv'
      BY <2>1, <2>2 DEF LayoutInv, FirstRowInv, InFirstRow
    <2>7. EvenInv'
      BY <2>1, <2>2, <2>3 DEF LayoutInv, EvenInv, InCell
    <2> QED
      BY <2>5, <2>6, <2>7 DEF LayoutInv
  <1>3. CASE Layout
    BY <1>1, <1>3 DEF Layout
  <1>4. CASE CanvasNext \/ PictureNext \/ LabelNext
    BY <1>2, <1>4 DEF CanvasNext, PictureNext, LabelNext, Fill, Draw, Show, SetText
  <1>5. CASE UNCHANGED painting
    BY <1>2, <1>5 DEF painting
  <1> QED
    BY <1>3, <1>4, <1>5 DEF PaintingNext

\* GridLayout::place, for containers of any size, proportions of any kind and
\* children of any preference: the first row of cells.
THEOREM AlwaysFirstRowApart == PaintingSpec => []FirstRowApart
  <1>1. LayoutInv => FirstRowApart
    BY FirstRowOrder DEF LayoutInv
  <1> QED
    BY <1>1, LayoutInit, LayoutNext, PTL DEF PaintingSpec

-----------------------------------------------------------------------------
(* What is to be seen of a window *)

\* A container has a size, and no more children than have colours.
ContainerInv == Len(children) <= MaxChildren /\ (kind = "container" => pw \in Size /\ ph \in Size)

LEMMA ContainerInit == PaintingInit => ContainerInv
  BY GridAssumption DEF PaintingInit, Init, ContainerInv

\* Nothing else changes the size of the container.
LEMMA ContainerNext ==
    ASSUME LayoutInv, ContainerInv, [PaintingNext]_painting
    PROVE  ContainerInv'
  <1>1. ASSUME Next, UNCHANGED kind PROVE ContainerInv'
    <2>1. PICK edge \in Edge, prefW \in Preferred, prefH \in Preferred : Place(edge, prefW, prefH)
      BY <1>1 DEF Next
    <2>2. pw' = pw /\ ph' = ph
      BY <2>1 DEF Place, grid
    <2>3. Len(children) < MaxChildren
      BY <2>1 DEF Place
    <2>4. Len(children)' <= MaxChildren
      <3>1. Len(children) \in Nat /\ DOMAIN children = 1..Len(children) /\ MaxChildren \in Nat
        BY GridAssumption DEF LayoutInv, GridInv
      <3>2. children' = children \/ \E c : children' = Append(children, c)
        BY <2>1, PlaceIsIn DEF LayoutInv, Placed
      <3>3. CASE children' = children
        BY <2>3, <3>1, <3>3
      <3>4. CASE \E c : children' = Append(children, c)
        <4>1. Len(children)' = Len(children) + 1
          BY <3>1, <3>4, Appended
        <4> QED
          BY <2>3, <3>1, <4>1
      <3> QED
        BY <3>2, <3>3, <3>4
    <2> QED
      BY <1>1, <2>2, <2>4 DEF ContainerInv
  <1>2. CASE UNCHANGED <<vars, kind>>
    BY <1>2 DEF vars, grid, ContainerInv
  <1>3. CASE Layout
    BY <1>1, <1>3 DEF Layout
  <1>4. CASE CanvasNext \/ PictureNext \/ LabelNext
    BY <1>2, <1>4 DEF CanvasNext, PictureNext, LabelNext, Fill, Draw, Show, SetText
  <1>5. CASE UNCHANGED painting
    BY <1>2, <1>5 DEF painting
  <1> QED
    BY <1>3, <1>4, <1>5 DEF PaintingNext

\* The recursion in WindowPainted has a solution, and it is that one.
LEMMA WindowPaintedIs ==
    ASSUME NEW len \in Nat, Len(Boxes) = len
    PROVE  /\ WindowPainted[0] = [o \in 0..(Window.w * Window.h - 1) |-> <<Junk>>]
           /\ \A k \in 1..len :
                WindowPainted[k] = Painted(WindowPainted[k - 1], RectangleStrokes(Window, Boxes[k]))
  <1> DEFINE start == [o \in 0..(Window.w * Window.h - 1) |-> <<Junk>>]
             Step(f, k) == IF k = 0 THEN start
                           ELSE Painted(f[k - 1], RectangleStrokes(Window, Boxes[k]))
             P(f, m) == f = [k \in 0..m |-> Step(f, k)]
             I == {m \in Nat : \E f : P(f, m)}
  <1> HIDE DEF start
  <1>1. 0 \in I
    <2>1. P([k \in 0..0 |-> start], 0)
      OBVIOUS
    <2> QED
      BY <2>1
  <1>2. ASSUME NEW m \in Nat, m \in I PROVE m + 1 \in I
    <2>1. PICK f : P(f, m)
      BY <1>2
    <2> DEFINE new == Painted(f[m], RectangleStrokes(Window, Boxes[m + 1]))
               g == [k \in 0..(m+1) |-> IF k = m + 1 THEN new ELSE f[k]]
    <2> HIDE DEF new
    <2>2. ASSUME NEW k \in 0..(m+1) PROVE g[k] = Step(g, k)
      <3>1. CASE k = m + 1
        <4>1. g[m] = f[m] /\ (m + 1) - 1 = m /\ m + 1 # 0 /\ g[m + 1] = new
          OBVIOUS
        <4> HIDE DEF g
        <4> QED
          BY <3>1, <4>1 DEF new
      <3>2. CASE k = 0
        BY <2>1, <3>2
      <3>3. CASE k \in 1..m
        <4>1. k - 1 \in 0..m /\ g[k] = f[k] /\ g[k-1] = f[k-1] /\ k # 0
          BY <3>3
        <4>2. f[k] = Step(f, k)
          BY <2>1, <3>3
        <4> HIDE DEF g
        <4> QED
          BY <4>1, <4>2
      <3> QED
        BY <3>1, <3>2, <3>3
    <2>3. g = [k \in 0..(m+1) |-> g[k]]
      OBVIOUS
    <2>4. P(g, m + 1)
      <3> HIDE DEF g
      <3> QED
        BY <2>2, <2>3
    <2> HIDE DEF g, P
    <2> QED
      BY <2>4
  <1> HIDE DEF I
  <1>3. len \in I
    BY <1>1, <1>2, SetInduction
  <1>4. PICK f : P(f, len)
    BY <1>3 DEF I
  <1>5. P(WindowPainted, len)
    <2>1. WindowPainted = CHOOSE h : P(h, len)
      BY DEF WindowPainted, start
    <2> HIDE DEF P
    <2> QED
      BY <1>4, <2>1
  <1>6. WindowPainted[0] = start
    BY <1>5
  <1>7. ASSUME NEW k \in 1..len
        PROVE  WindowPainted[k] = Painted(WindowPainted[k - 1], RectangleStrokes(Window, Boxes[k]))
    <2>1. k \in 0..len /\ k # 0
      OBVIOUS
    <2> QED
      BY <1>5, <2>1
  <1> QED
    BY <1>6, <1>7 DEF start

\* A window, its boxes, and what is to be seen of a box at a place.
IsBox(s) == IsRectangle(s) /\ s.colour.alpha \in Nat \ {0} /\ s.edge = Panels.edge /\ s.t \in Nat

\* A box paints its colour inside, the border's on its border, and nothing else.
LEMMA BoxAt ==
    ASSUME NEW s, IsBox(s), Panels.edge.alpha \in Nat \ {0}, NEW x \in Int, NEW y \in Int
    PROVE  /\ Within(s, x, y, 0) => Within(s, x, y, s.t)
           /\ RectangleAt(s, x, y) = IF Within(s, x, y, 0) THEN <<s.colour>>
                                     ELSE IF Within(s, x, y, s.t) THEN <<Panels.edge>> ELSE <<>>
  <1>1. /\ s.x \in Int /\ s.y \in Int /\ s.w \in Nat /\ s.h \in Nat /\ s.t \in Nat
        /\ s.colour.alpha # 0 /\ s.edge.alpha > 0
    BY DEF IsBox, IsRectangle
  <1>2. Within(s, x, y, 0) => Within(s, x, y, s.t)
    BY <1>1 DEF Within
  <1>3. HasBorder(s) <=> s.t > 0
    BY <1>1 DEF HasBorder
  <1>4. s.t = 0 => (Within(s, x, y, s.t) <=> Within(s, x, y, 0))
    OBVIOUS
  <1> QED
    BY <1>1, <1>2, <1>3, <1>4 DEF RectangleAt, IsBox

\* What is last painted at a place is seen there.
LEMMA LastIsSeen ==
    ASSUME NEW len \in Nat, Len(Boxes) = len, Window.w \in Nat \ {0}, Window.h \in Nat \ {0},
           \A k \in 1..len : IsBox(Boxes[k]),
           NEW x \in 0..(Window.w - 1), NEW y \in 0..(Window.h - 1),
           NEW top \in 1..len, NEW colour, RectangleAt(Boxes[top], x, y) = <<colour>>,
           \A k \in 1..len : k > top => RectangleAt(Boxes[k], x, y) = <<>>
    PROVE  Last(WindowPainted[len][y * Window.w + x]) = colour
  <1> DEFINE o == y * Window.w + x
             map == WindowPainted
             places == 0..(Window.w * Window.h - 1)
             at(k) == RectangleAt(Boxes[k], x, y)
  <1>1. o \in places
    BY PlaceInMap
  <1>2. /\ map[0] = [p \in places |-> <<Junk>>]
        /\ \A k \in 1..len : map[k] = Painted(map[k - 1], RectangleStrokes(Window, Boxes[k]))
    BY WindowPaintedIs
  <1>3. \A k \in 1..len : IsRectangle(Boxes[k])
    BY DEF IsBox
  <1>4. ASSUME NEW k \in 1..len, o \in DOMAIN map[k - 1]
        PROVE  o \in DOMAIN map[k] /\ map[k][o] = Blended(map[k - 1][o], at(k))
    <2> DEFINE strokes == RectangleStrokes(Window, Boxes[k])
               was == map[k - 1]
               b == Window
               s == Boxes[k]
    <2>1. map[k] = Painted(was, strokes)
      BY <1>2
    <2>2. IsRectangle(s) /\ b.w \in Nat \ {0} /\ b.h \in Nat \ {0} /\ o = y * b.w + x
          /\ x \in 0..(b.w - 1) /\ y \in 0..(b.h - 1)
      BY <1>3
    <2>3. Coats(was[o], strokes, o)[Len(strokes)] = Blended(was[o], at(k))
      <3> DEFINE pixel == was[o]
      <3> HIDE DEF pixel, b, s
      <3>1. Coats(pixel, RectangleStrokes(b, s), y * b.w + x)[Len(RectangleStrokes(b, s))]
                = Blended(pixel, RectangleAt(s, x, y))
        BY <2>2, RectanglePixel
      <3> QED
        BY <3>1 DEF pixel, b, s
    <2> HIDE DEF strokes, was, o
    <2>4. o \in DOMAIN was
      BY <1>4 DEF was
    <2>5. o \in DOMAIN Painted(was, strokes)
          /\ Painted(was, strokes)[o] = Coats(was[o], strokes, o)[Len(strokes)]
      BY <2>4 DEF Painted
    <2> QED
      BY <2>1, <2>3, <2>5 DEF was
  <1>5. ASSUME NEW k \in 1..len PROVE at(k) = <<>> \/ at(k) = <<at(k)[1]>>
    BY DEF RectangleAt
  <1> HIDE DEF o, map, places, at
  <1> DEFINE J == {k \in Nat : k <= len =>
                        /\ o \in DOMAIN map[k] /\ Len(map[k][o]) \in Nat
                        /\ DOMAIN map[k][o] = 1..Len(map[k][o])
                        /\ k >= top => Last(map[k][o]) = colour}
  <1>6. 0 \in J
    <2>1. o \in DOMAIN map[0] /\ map[0][o] = <<Junk>>
      BY <1>1, <1>2
    <2>2. Len(<<Junk>>) = 1 /\ DOMAIN <<Junk>> = 1..1
      OBVIOUS
    <2> QED
      BY <2>1, <2>2
  <1>7. ASSUME NEW k \in Nat, k \in J PROVE k + 1 \in J
    <2> SUFFICES ASSUME k + 1 <= len
                 PROVE  /\ o \in DOMAIN map[k + 1] /\ Len(map[k + 1][o]) \in Nat
                        /\ DOMAIN map[k + 1][o] = 1..Len(map[k + 1][o])
                        /\ k + 1 >= top => Last(map[k + 1][o]) = colour
      OBVIOUS
    <2> DEFINE n == k + 1
               was == map[k][o]
               is == map[n][o]
    <2>1. n \in 1..len /\ n - 1 = k /\ k <= len
      OBVIOUS
    <2>2. /\ o \in DOMAIN map[k] /\ Len(was) \in Nat /\ DOMAIN was = 1..Len(was)
          /\ k >= top => Last(was) = colour
      BY <1>7, <2>1
    <2>3. o \in DOMAIN map[n] /\ is = Blended(was, at(n))
      <3> HIDE DEF n
      <3> QED
        BY <1>4, <2>1, <2>2
    <2>4. n > top => at(n) = <<>>
      BY <2>1 DEF at
    <2>5. n = top => at(n) = <<colour>>
      BY DEF at
    <2>6. at(n) = <<>> \/ at(n) = <<at(n)[1]>>
      BY <1>5, <2>1
    <2>7. k >= top <=> n > top
      BY <2>1
    <2> HIDE DEF was, is, n
    <2>8. CASE at(n) = <<>>
      <3>1. is = was
        BY <2>3, <2>8 DEF Blended
      <3>2. n # top
        BY <2>5, <2>8
      <3> QED
        BY <2>1, <2>2, <2>3, <2>7, <3>1, <3>2 DEF was, is, n
    <2>9. CASE at(n) # <<>>
      <3> DEFINE c == at(n)[1]
      <3>1. at(n) = <<c>> /\ is = Over(was, c)
        BY <2>3, <2>6, <2>9 DEF Blended
      <3> HIDE DEF c
      <3>2. Len(is) \in Nat /\ DOMAIN is = 1..Len(is) /\ Last(is) = c
        <4>1. CASE c.alpha = 255
          <5>1. is = <<c>>
            BY <3>1, <4>1 DEF Over
          <5> QED
            BY <5>1 DEF Last
        <4>2. CASE c.alpha # 255
          <5>1. is = Append(was, c)
            BY <3>1, <4>2 DEF Over
          <5>2. Len(is) = Len(was) + 1 /\ DOMAIN is = 1..(Len(was) + 1) /\ is[Len(was) + 1] = c
            BY <2>2, <5>1 DEF Append
          <5> QED
            BY <2>2, <5>2 DEF Last
        <4> QED
          BY <4>1, <4>2
      <3>3. n >= top => c = colour
        BY <2>1, <2>4, <2>5, <2>9, <3>1
      <3> QED
        BY <2>3, <3>2, <3>3 DEF is, n
    <2> QED
      BY <2>8, <2>9
  <1>8. len \in J
    <2> HIDE DEF J
    <2> QED
      BY <1>6, <1>7, SetInduction
  <1> QED
    BY <1>8 DEF o, map

\* The parts of a window, and its children.
ChildBox(i) == Box(children[i], children[i].border, Panels.child[i])
InnerBox == Box([x |-> WindowBorder, y |-> WindowBorder,
                 w |-> Window.w - 2 * WindowBorder, h |-> Window.h - 2 * WindowBorder],
                WindowBorder, Panels.window)

\* The boxes of a window: itself, its title bar, its frame, and the children.
LEMMA BoxesAre ==
    ASSUME NEW n \in Nat, DOMAIN children = 1..n
    PROVE  /\ Len(Boxes) = n + 3
           /\ Boxes[1] = InnerBox /\ Boxes[2] = Box(TitleBar(Window), 0, Panels.title)
           /\ Boxes[3] = Box(Frame(Window), 0, Panels.frame)
           /\ \A i \in 1..n : Boxes[i + 3] = ChildBox(i)
  <1> DEFINE three == <<InnerBox, Box(TitleBar(Window), 0, Panels.title), Box(Frame(Window), 0, Panels.frame)>>
             more == [i \in 1..n |-> ChildBox(i)]
  <1>1. Boxes = three \o more
    BY DEF Boxes, InnerBox, ChildBox
  <1>2. Len(more) = n /\ \A i \in 1..n : more[i] = ChildBox(i)
    <2>1. more = [i \in 1..n |-> more[i]] /\ \A i \in 1..n : more[i] = ChildBox(i)
      OBVIOUS
    <2> HIDE DEF more
    <2> QED
      BY <2>1, LenIs
  <1> DEFINE S == {InnerBox, Box(TitleBar(Window), 0, Panels.title), Box(Frame(Window), 0, Panels.frame)}
                    \cup {ChildBox(i) : i \in 1..n}
  <1>3. more \in Seq(S)
    <2>1. more \in [1..n -> S]
      OBVIOUS
    <2> HIDE DEF more, S
    <2> QED
      BY <2>1
  <1>4. three \in Seq(S) /\ Len(three) = 3 /\ three[1] = InnerBox
        /\ three[2] = Box(TitleBar(Window), 0, Panels.title) /\ three[3] = Box(Frame(Window), 0, Panels.frame)
    OBVIOUS
  <1> HIDE DEF three, more, S
  <1>5. Len(three \o more) = n + 3
    <2>1. Len(three \o more) = Len(three) + Len(more)
      BY <1>3, <1>4, ConcatProperties
    <2> QED
      BY <1>2, <1>4, <2>1
  <1>6. ASSUME NEW k \in 1..(n + 3)
        PROVE  (three \o more)[k] = IF k <= 3 THEN three[k] ELSE more[k - 3]
    <2>1. k \in 1..(Len(three) + Len(more))
      BY <1>2, <1>4
    <2>2. (three \o more)[k] = IF k <= Len(three) THEN three[k] ELSE more[k - Len(three)]
      BY <1>3, <1>4, <2>1, ConcatProperties
    <2> QED
      BY <1>4, <2>2
  <1>7. 1 \in 1..(n + 3) /\ 2 \in 1..(n + 3) /\ 3 \in 1..(n + 3)
    OBVIOUS
  <1>8. ASSUME NEW i \in 1..n PROVE (three \o more)[i + 3] = more[i]
    <2>1. i + 3 \in 1..(n + 3) /\ ~(i + 3 <= 3) /\ (i + 3) - 3 = i
      OBVIOUS
    <2> QED
      BY <1>6, <2>1
  <1> QED
    BY <1>1, <1>2, <1>4, <1>5, <1>6, <1>7, <1>8

\* Where the parts of a window are.
LEMMA WindowIs ==
    ASSUME pw \in Size, ph \in Size, pw \in Nat, ph \in Nat
    PROVE  /\ WindowPadding \in Nat /\ WindowBorder \in Nat /\ TitleH \in Nat
           /\ Extra = WindowPadding + WindowBorder /\ Extra \in Nat
           /\ Window.w = pw + 2 * Extra /\ Window.h = ph + TitleH + 2 * Extra
           /\ Window.w \in Nat /\ Window.h \in Nat
           /\ TitleBar(Window) = [x |-> Extra, y |-> Extra, w |-> pw, h |-> TitleH]
           /\ Frame(Window) = [x |-> Extra, y |-> TitleH + Extra, w |-> pw, h |-> ph]
           /\ ParentX = Extra /\ ParentY = TitleH + Extra
  <1>1. WindowPadding \in Nat /\ WindowBorder \in Nat /\ TitleH \in Nat
        /\ Extra = WindowPadding + WindowBorder /\ Extra \in Nat
    BY WindowAssumption DEF Extra
  <1>2. Window.w = pw + 2 * Extra /\ Window.h = ph + TitleH + 2 * Extra
    BY DEF Window, WindowOf
  <1> DEFINE x == Extra
  <1> HIDE DEF x
  <1>3. /\ TitleBar(Window) = [x |-> Extra, y |-> Extra, w |-> Window.w - 2 * Extra, h |-> TitleH]
        /\ Frame(Window) = [x |-> Extra, y |-> TitleH + Extra, w |-> Window.w - 2 * Extra,
                            h |-> Window.h - TitleH - 2 * Extra]
    BY DEF TitleBar, Frame
  <1>4. Window.w - 2 * Extra = pw /\ Window.h - TitleH - 2 * Extra = ph
    BY <1>1, <1>2
  <1>5. Frame(Window) = [x |-> ParentX, y |-> ParentY, w |-> pw, h |-> ph]
    BY PaintingAssumption DEF Window
  <1>6. ParentX = Extra /\ ParentY = TitleH + Extra
    <2>1. Frame(Window).x = ParentX /\ Frame(Window).y = ParentY
      BY <1>5
    <2>2. Frame(Window).x = Extra /\ Frame(Window).y = TitleH + Extra
      BY <1>3
    <2> QED
      BY <2>1, <2>2
  <1> QED
    BY <1>1, <1>2, <1>3, <1>4, <1>6

\* A position in a row of equal cells is in the cell that is found for it.
LEMMA CellFound ==
    ASSUME NEW cells \in Nat \ {0}, NEW size \in Nat, NEW extent \in Nat, extent = cells * size,
           NEW at \in 0..(extent - 1)
    PROVE  LET c == (at * cells) \div extent
           IN  c \in 0..(cells - 1) /\ c * size <= at /\ at < c * size + size
  <1> DEFINE c == (at * cells) \div extent
             r == (at * cells) % extent
             t == at * cells
  <1>1. extent \in Nat \ {0} /\ at \in Nat /\ at < extent
    OBVIOUS
  <1>2. t \in Int
    OBVIOUS
  <1>3. c \in Int /\ t = c * extent + r /\ r \in 0..(extent - 1)
    <2> HIDE DEF t
    <2>1. t \div extent \in Int /\ t = (t \div extent) * extent + (t % extent)
      BY <1>1, <1>2, EuclidIs
    <2>2. t % extent \in 0..(extent - 1)
      BY <1>1, <1>2
    <2> QED
      BY <2>1, <2>2 DEF t
  <1> HIDE DEF c, r
  <1>4. c * extent = (c * size) * cells /\ c * size \in Int
    <2>1. c * (cells * size) = (c * size) * cells
      BY <1>3
    <2> QED
      BY <1>3, <2>1
  <1>5. size > 0
    BY <1>1
  <1>6. c * size <= at
    <2> SUFFICES ASSUME at + 1 <= c * size PROVE FALSE
      BY <1>1, <1>4
    <2> DEFINE a == at + 1
               b == c * size
    <2>1. a \in Int /\ b \in Int /\ a <= b
      BY <1>4
    <2>2. a * cells = t + cells
      OBVIOUS
    <2> HIDE DEF a, b, t
    <2>3. a * cells <= b * cells /\ b * cells \in Int /\ a * cells \in Int
      BY <2>1, TimesGrows
    <2>4. c * extent = b * cells
      BY <1>4 DEF b
    <2> QED
      BY <1>2, <1>3, <2>2, <2>3, <2>4
  <1>7. at < c * size + size
    <2> SUFFICES ASSUME c * size + size <= at PROVE FALSE
      BY <1>1, <1>4
    <2> DEFINE b == c * size + size
    <2>1. b \in Int /\ b <= at /\ at \in Int
      BY <1>4
    <2>2. b * cells = c * extent + extent
      <3> DEFINE d == c * size
      <3>1. d \in Int /\ d * cells = c * extent
        BY <1>4
      <3> HIDE DEF d
      <3>2. (d + size) * cells = d * cells + size * cells /\ size * cells = extent
        BY <3>1
      <3> QED
        BY <3>1, <3>2 DEF d
    <2> HIDE DEF b
    <2>3. b * cells <= at * cells /\ b * cells \in Int /\ at * cells \in Int
      BY <2>1, TimesGrows
    <2>4. c * extent \in Int
      BY <1>3
    <2> QED
      BY <1>2, <1>3, <2>2, <2>3, <2>4
  <1>8. c >= 0
    <2> SUFFICES ASSUME c <= -1 PROVE FALSE
      BY <1>3
    <2>1. c * size <= (-1) * size /\ c * size \in Int
      BY <1>3, TimesGrows
    <2> QED
      BY <1>1, <1>7, <2>1
  <1>9. c < cells
    <2> SUFFICES ASSUME cells <= c PROVE FALSE
      BY <1>3
    <2>1. cells * size <= c * size /\ cells * size \in Int /\ c * size \in Int
      BY <1>3, TimesGrows
    <2> QED
      BY <1>1, <1>6, <2>1
  <1> QED
    BY <1>3, <1>6, <1>7, <1>8, <1>9 DEF c

\* A position in a cell is in that one only.
LEMMA CellOnce ==
    ASSUME NEW size \in Nat, NEW c \in Int, NEW d \in Int, NEW at \in Int,
           c * size <= at, at < c * size + size, d * size <= at, at < d * size + size
    PROVE  c = d
  <1>1. ASSUME NEW a \in Int, NEW b \in Int, a < b, at < a * size + size, b * size <= at PROVE FALSE
    <2> DEFINE e == a + 1
    <2>1. e \in Int /\ e <= b /\ e * size = a * size + size
      BY <1>1
    <2> HIDE DEF e
    <2>2. e * size <= b * size /\ b * size \in Int /\ e * size \in Int
      BY <2>1, TimesGrows
    <2>3. a * size \in Int
      OBVIOUS
    <2> QED
      BY <1>1, <2>1, <2>2, <2>3
  <1>2. ~(c < d) /\ ~(d < c)
    BY <1>1
  <1> QED
    BY <1>2

\* A widget with its border is at a place.
On(s, x, y) == Within(s, x, y, s.t)

\* None of them is clear.
LEMMA BoxesAreVisible ==
    ASSUME GridInv, Len(children) <= MaxChildren, pw \in Size, ph \in Size
    PROVE  /\ Panels.edge.alpha \in Nat \ {0}
           /\ \A k \in 1..(Len(children) + 3) : IsBox(Boxes[k])
  <1> DEFINE n == Len(children)
  <1>1. n \in Nat /\ DOMAIN children = 1..n /\ pw \in Nat /\ ph \in Nat /\ MaxChildren \in Nat
    BY GridAssumption DEF GridInv
  <1>2. /\ WindowPadding \in Nat /\ WindowBorder \in Nat /\ TitleH \in Nat
        /\ Extra = WindowPadding + WindowBorder /\ Extra \in Nat
        /\ Window.w = pw + 2 * Extra /\ Window.h = ph + TitleH + 2 * Extra
        /\ TitleBar(Window) = [x |-> Extra, y |-> Extra, w |-> pw, h |-> TitleH]
        /\ Frame(Window) = [x |-> Extra, y |-> TitleH + Extra, w |-> pw, h |-> ph]
    BY <1>1, WindowIs
  <1>3. /\ Boxes[1] = InnerBox /\ Boxes[2] = Box(TitleBar(Window), 0, Panels.title)
        /\ Boxes[3] = Box(Frame(Window), 0, Panels.frame)
        /\ \A i \in 1..n : Boxes[i + 3] = ChildBox(i)
    BY <1>1, BoxesAre
  <1>4. /\ Panels.window.alpha \in Nat \ {0} /\ Panels.title.alpha \in Nat \ {0}
        /\ Panels.frame.alpha \in Nat \ {0} /\ Panels.edge.alpha \in Nat \ {0}
        /\ \A i \in 1..MaxChildren : Panels.child[i].alpha \in Nat \ {0}
    BY PanelsAssumption
  <1>5. ASSUME NEW at, at.x \in Int, at.y \in Int, at.w \in Nat, at.h \in Nat,
               NEW t \in Nat, NEW colour, colour.alpha \in Nat \ {0}
        PROVE  IsBox(Box(at, t, colour))
    BY <1>5 DEF IsBox, IsRectangle, Box
  <1>6. IsBox(Boxes[1])
    <2> DEFINE at == [x |-> WindowBorder, y |-> WindowBorder,
                      w |-> Window.w - 2 * WindowBorder, h |-> Window.h - 2 * WindowBorder]
    <2>1. at.x \in Int /\ at.y \in Int /\ at.w \in Nat /\ at.h \in Nat
      BY <1>1, <1>2
    <2>2. Boxes[1] = Box(at, WindowBorder, Panels.window)
      BY <1>3 DEF InnerBox
    <2> HIDE DEF at
    <2>3. IsBox(Box(at, WindowBorder, Panels.window))
      BY <1>2, <1>4, <1>5, <2>1
    <2> QED
      BY <2>2, <2>3
  <1>7. IsBox(Boxes[2])
    <2> DEFINE at == TitleBar(Window)
    <2>1. at.x \in Int /\ at.y \in Int /\ at.w \in Nat /\ at.h \in Nat
      BY <1>1, <1>2
    <2> HIDE DEF at
    <2>2. IsBox(Box(at, 0, Panels.title))
      BY <1>4, <1>5, <2>1
    <2> QED
      BY <1>3, <2>2 DEF at
  <1>8. IsBox(Boxes[3])
    <2> DEFINE at == Frame(Window)
    <2>1. at.x \in Int /\ at.y \in Int /\ at.w \in Nat /\ at.h \in Nat
      BY <1>1, <1>2
    <2> HIDE DEF at
    <2>2. IsBox(Box(at, 0, Panels.frame))
      BY <1>4, <1>5, <2>1
    <2> QED
      BY <1>3, <2>2 DEF at
  <1>9. ASSUME NEW i \in 1..n PROVE IsBox(Boxes[i + 3])
    <2> DEFINE at == children[i]
    <2>1. at \in [x : Int, y : Int, w : Nat, h : Nat, border : Nat]
      BY <1>1 DEF GridInv, TypeOK
    <2>2. i \in 1..MaxChildren
      BY <1>1
    <2>3. Panels.child[i].alpha \in Nat \ {0}
      BY <1>4, <2>2
    <2> HIDE DEF at
    <2>4. IsBox(Box(at, at.border, Panels.child[i]))
      BY <1>5, <2>1, <2>3
    <2> QED
      BY <1>3, <2>4 DEF at, ChildBox
  <1>10. ASSUME NEW k \in 1..(n + 3) PROVE IsBox(Boxes[k])
    <2>1. k = 1 \/ k = 2 \/ k = 3 \/ k \in 4..(n + 3)
      BY <1>1
    <2>2. CASE k \in 4..(n + 3)
      <3> DEFINE i == k - 3
      <3>1. i \in 1..n /\ k = i + 3
        BY <1>1, <2>2
      <3> HIDE DEF i
      <3> QED
        BY <1>9, <3>1
    <2> QED
      BY <1>6, <1>7, <1>8, <2>1, <2>2
  <1> QED
    BY <1>4, <1>10

\* A child is inside of the frame, and it is the one that is found there.
LEMMA ChildIsFound ==
    ASSUME GridInv, EvenInv, EvenGrid, pw \in Size, ph \in Size,
           NEW j \in 1..Len(children), j <= Cols * Rows,
           NEW x \in Int, NEW y \in Int, On(ChildBox(j), x, y)
    PROVE  Covers(Frame(Window), x, y) /\ IndexFromPosition(x, y) + 1 = j
  <1> DEFINE child == children[j]
             border == children[j].border
             atX == x - ParentX
             atY == y - ParentY
  <1>1. /\ Cols \in Nat \ {0} /\ Rows \in Nat \ {0} /\ pw \in Nat /\ ph \in Nat
        /\ ColumnW \in Nat /\ pw = Cols * ColumnW /\ RowH \in Nat /\ ph = Rows * RowH
    BY EvenIs
  <1>2. /\ child.x \in Int /\ child.y \in Int /\ child.w \in Nat /\ child.h \in Nat /\ border \in Nat
        /\ ParentX \in Nat /\ ParentY \in Nat
    <2>1. children[j] \in [x : Int, y : Int, w : Nat, h : Nat, border : Nat]
      BY DEF GridInv, TypeOK
    <2> QED
      BY <2>1, GridAssumption
  <1>3. PICK c \in 0..(Cols - 1), r \in 0..(Rows - 1) :
            /\ j = r * Cols + c + 1
            /\ ParentX + c * ColumnW <= child.x - border
            /\ child.x + child.w + border <= ParentX + c * ColumnW + ColumnW
            /\ ParentY + r * RowH <= child.y - border
            /\ child.y + child.h + border <= ParentY + r * RowH + RowH
    <2>1. InCell(children[j], j)
      BY DEF EvenInv
    <2> QED
      BY <2>1 DEF InCell
  <1>4. /\ x \in (child.x - border)..(child.x + child.w + border - 1)
        /\ y \in (child.y - border)..(child.y + child.h + border - 1)
    BY DEF On, Within, ChildBox, Box
  <1>5. c * ColumnW \in Int /\ r * RowH \in Int
    BY <1>1
  <1> HIDE DEF border
  <1>6. /\ c * ColumnW <= atX /\ atX < c * ColumnW + ColumnW
        /\ r * RowH <= atY /\ atY < r * RowH + RowH
    <2> DEFINE cw == c * ColumnW
               rh == r * RowH
               cx == child.x
               cy == child.y
               wide == child.w
               high == child.h
    <2>2. /\ cw \in Int /\ cx \in Int /\ wide \in Nat /\ border \in Nat /\ ColumnW \in Nat
          /\ cx - border <= x /\ x <= cx + wide + border - 1
          /\ ParentX + cw <= cx - border /\ cx + wide + border <= ParentX + cw + ColumnW
      BY <1>1, <1>2, <1>3, <1>4, <1>5
    <2>3. /\ rh \in Int /\ cy \in Int /\ high \in Nat /\ border \in Nat /\ RowH \in Nat
          /\ cy - border <= y /\ y <= cy + high + border - 1
          /\ ParentY + rh <= cy - border /\ cy + high + border <= ParentY + rh + RowH
      BY <1>1, <1>2, <1>3, <1>4, <1>5
    <2>4. ParentX \in Int /\ ParentY \in Int
      BY <1>2
    <2> HIDE DEF cw, rh, cx, cy, wide, high, border
    <2>5. cw <= x - ParentX /\ x - ParentX < cw + ColumnW
      BY <2>2, <2>4
    <2>6. rh <= y - ParentY /\ y - ParentY < rh + RowH
      BY <2>3, <2>4
    <2> QED
      BY <2>5, <2>6 DEF cw, rh
  <1> HIDE DEF child
  <1>7. ASSUME NEW cells \in Nat \ {0}, NEW size \in Nat, NEW extent \in Nat, extent = cells * size,
               NEW k \in 0..(cells - 1), NEW at \in Int, k * size <= at, at < k * size + size
        PROVE  at \in 0..(extent - 1) /\ (at * cells) \div extent = k
    <2> DEFINE m == k + 1
    <2>1. m \in Int /\ m <= cells /\ m * size = k * size + size /\ 0 <= k /\ k * size \in Int
      OBVIOUS
    <2> HIDE DEF m
    <2>2. m * size <= cells * size /\ m * size \in Int /\ cells * size \in Int
      BY <2>1, TimesGrows
    <2>3. 0 * size <= k * size
      BY <2>1, TimesGrows
    <2>4. at \in 0..(extent - 1)
      BY <1>7, <2>1, <2>2, <2>3
    <2> DEFINE d == (at * cells) \div extent
    <2>5. d \in 0..(cells - 1) /\ d * size <= at /\ at < d * size + size
      BY <1>7, <2>4, CellFound
    <2> HIDE DEF d
    <2>6. d = k
      BY <1>7, <2>5, CellOnce
    <2> QED
      BY <2>4, <2>6 DEF d
  <1>8. atX \in Int /\ atY \in Int /\ c \in Int /\ r \in Int
    BY <1>2
  <1> HIDE DEF atX, atY
  <1>9. atX \in 0..(pw - 1) /\ (atX * Cols) \div pw = c
    BY <1>1, <1>6, <1>7, <1>8
  <1>10. atY \in 0..(ph - 1) /\ (atY * Rows) \div ph = r
    BY <1>1, <1>6, <1>7, <1>8
  <1>11. Covers(Frame(Window), x, y)
    <2>1. Frame(Window) = [x |-> ParentX, y |-> ParentY, w |-> pw, h |-> ph]
      BY PaintingAssumption DEF Window
    <2>2. x = ParentX + atX /\ y = ParentY + atY
      BY <1>2 DEF atX, atY
    <2>3. /\ x \in ParentX..(ParentX + pw - 1)
          /\ y \in ParentY..(ParentY + ph - 1)
      BY <1>1, <1>2, <1>9, <1>10, <2>2
    <2> QED
      BY <2>1, <2>3 DEF Covers
  <1>12. IndexFromPosition(x, y) = r * Cols + c
    <2>1. regular /\ padding = 0
      BY DEF EvenGrid
    <2>2. x - (ParentX + padding) = atX /\ y - (ParentY + padding) = atY
          /\ pw - 2 * padding = pw /\ ph - 2 * padding = ph
      BY <1>1, <1>2, <2>1 DEF atX, atY
    <2>3. ~(atX < 0 \/ atY < 0 \/ atX >= pw \/ atY >= ph)
      BY <1>1, <1>9, <1>10
    <2>4. IndexFromPosition(x, y) = ((atY * Rows) \div ph) * Cols + ((atX * Cols) \div pw)
      BY <2>1, <2>2, <2>3 DEF IndexFromPosition
    <2> QED
      BY <1>9, <1>10, <2>4
  <1> QED
    BY <1>1, <1>3, <1>8, <1>11, <1>12

\* What is found in the title bar, in the frame and elsewhere in a window.
LEMMA FoundIs ==
    ASSUME pw \in Size, ph \in Size, pw \in Nat, ph \in Nat, NEW x \in Int, NEW y \in Int
    PROVE  LET i == IndexFromPosition(x, y) + 1
               title == Covers(TitleBar(Window), x, y)
               frame == Covers(Frame(Window), x, y)
           IN  /\ frame => Found(x, y) = IF i \in DOMAIN children /\ Covers(children[i], x, y)
                                         THEN Panels.child[i] ELSE Panels.frame
               /\ title /\ y \notin LastTitleRows => Found(x, y) = Panels.title
               /\ ~title /\ ~frame => Found(x, y) = Panels.window
               /\ frame => ~title
  <1> DEFINE title == Covers(TitleBar(Window), x, y)
             frame == Covers(Frame(Window), x, y)
             part == PartAt(Window, x, y)
  <1>1. /\ WindowPadding \in Nat /\ WindowBorder \in Nat /\ TitleH \in Nat
        /\ Extra = WindowPadding + WindowBorder /\ Extra \in Nat
        /\ Window.w = pw + 2 * Extra /\ Window.h = ph + TitleH + 2 * Extra
        /\ TitleBar(Window) = [x |-> Extra, y |-> Extra, w |-> pw, h |-> TitleH]
        /\ Frame(Window) = [x |-> Extra, y |-> TitleH + Extra, w |-> pw, h |-> ph]
    BY WindowIs
  <1>2. title <=> /\ Extra <= x /\ x <= Extra + pw - 1
                  /\ Extra <= y /\ y <= Extra + TitleH - 1
    BY <1>1 DEF Covers
  <1>3. frame <=> /\ Extra <= x /\ x <= Extra + pw - 1
                  /\ TitleH + Extra <= y /\ y <= TitleH + Extra + ph - 1
    BY <1>1 DEF Covers
  <1>4. y \in LastTitleRows <=> Extra + TitleH - WindowBorder <= y /\ y <= Extra + TitleH - 1
    BY <1>1 DEF LastTitleRows
  <1>5. part = IF \/ x - WindowPadding < 0 \/ x - WindowPadding >= Window.w - 2 * WindowPadding
                  \/ y - WindowPadding < 0 \/ y - WindowPadding >= Window.h - 2 * WindowPadding
               THEN -1 ELSE IF y - WindowPadding < TitleH THEN 0 ELSE 1
    BY DEF PartAt
  <1> HIDE DEF title, frame, part
  <1>6. frame => part = 1 /\ ~title
    BY <1>1, <1>2, <1>3, <1>5
  <1>7. title /\ y \notin LastTitleRows => part = 0
    BY <1>1, <1>2, <1>4, <1>5
  <1>8. Found(x, y) =
            IF part = 0 /\ title THEN Panels.title
            ELSE IF part = 1 /\ frame
            THEN IF /\ IndexFromPosition(x, y) + 1 \in DOMAIN children
                    /\ Covers(children[IndexFromPosition(x, y) + 1], x, y)
                 THEN Panels.child[IndexFromPosition(x, y) + 1] ELSE Panels.frame
            ELSE Panels.window
    BY DEF Found, part, title, frame
  <1>9. frame => Found(x, y) = IF /\ IndexFromPosition(x, y) + 1 \in DOMAIN children
                                  /\ Covers(children[IndexFromPosition(x, y) + 1], x, y)
                               THEN Panels.child[IndexFromPosition(x, y) + 1] ELSE Panels.frame
    BY <1>6, <1>8
  <1>10. title /\ y \notin LastTitleRows => Found(x, y) = Panels.title
    BY <1>7, <1>8
  <1>11. ~title /\ ~frame => Found(x, y) = Panels.window
    BY <1>8
  <1> QED
    BY <1>6, <1>9, <1>10, <1>11 DEF title, frame

\* What is last painted at a place in a window is what is found there, or a border.
LEMMA PlaceIsFound ==
    ASSUME GridInv, EvenInv, EvenGrid, Len(children) <= Cols * Rows, Len(children) <= MaxChildren,
           pw \in Size, ph \in Size,
           NEW x \in 0..(Window.w - 1), NEW y \in 0..(Window.h - 1), y \notin LastTitleRows
    PROVE  LET seen == Last(WindowPainted[Len(Boxes)][y * Window.w + x])
           IN  \/ seen = Found(x, y)
               \/ seen = Panels.edge /\ Found(x, y) \in {Panels.window, Panels.frame}
  <1> DEFINE n == Len(children)
             len == n + 3
             seen == Last(WindowPainted[len][y * Window.w + x])
             at(k) == RectangleAt(Boxes[k], x, y)
             found == IndexFromPosition(x, y) + 1
             title == Covers(TitleBar(Window), x, y)
             frame == Covers(Frame(Window), x, y)
  <1>1. /\ n \in Nat /\ DOMAIN children = 1..n /\ pw \in Nat /\ ph \in Nat
    BY DEF GridInv
  <1>2. /\ WindowPadding \in Nat /\ WindowBorder \in Nat /\ TitleH \in Nat
        /\ Extra = WindowPadding + WindowBorder /\ Extra \in Nat
        /\ Window.w = pw + 2 * Extra /\ Window.h = ph + TitleH + 2 * Extra
        /\ Window.w \in Nat /\ Window.h \in Nat
        /\ TitleBar(Window) = [x |-> Extra, y |-> Extra, w |-> pw, h |-> TitleH]
        /\ Frame(Window) = [x |-> Extra, y |-> TitleH + Extra, w |-> pw, h |-> ph]
    BY <1>1, WindowIs
  <1>3. /\ Len(Boxes) = len
        /\ Boxes[1] = InnerBox /\ Boxes[2] = Box(TitleBar(Window), 0, Panels.title)
        /\ Boxes[3] = Box(Frame(Window), 0, Panels.frame)
        /\ \A i \in 1..n : Boxes[i + 3] = ChildBox(i)
    BY <1>1, BoxesAre
  <1>4. Panels.edge.alpha \in Nat \ {0} /\ \A k \in 1..len : IsBox(Boxes[k])
    BY BoxesAreVisible
  <1>5. x \in Int /\ y \in Int /\ Window.w \in Nat \ {0} /\ Window.h \in Nat \ {0}
    BY <1>2
  <1>6. /\ frame => Found(x, y) = IF found \in DOMAIN children /\ Covers(children[found], x, y)
                                  THEN Panels.child[found] ELSE Panels.frame
        /\ title => Found(x, y) = Panels.title
        /\ ~title /\ ~frame => Found(x, y) = Panels.window
        /\ frame => ~title
    BY <1>1, <1>5, FoundIs
  <1>7. ASSUME NEW k \in 1..len
        PROVE  /\ Within(Boxes[k], x, y, 0) => On(Boxes[k], x, y)
               /\ at(k) = IF Within(Boxes[k], x, y, 0) THEN <<Boxes[k].colour>>
                          ELSE IF On(Boxes[k], x, y) THEN <<Panels.edge>> ELSE <<>>
    BY <1>4, <1>5, BoxAt DEF On
  <1>8. ASSUME NEW top \in 1..len, NEW colour, at(top) = <<colour>>,
               \A k \in 1..len : k > top => ~On(Boxes[k], x, y)
        PROVE  seen = colour
    <2>1. ASSUME NEW k \in 1..len, k > top PROVE at(k) = <<>>
      BY <1>7, <1>8, <2>1
    <2>2. len \in Nat
      BY <1>1
    <2> HIDE DEF len
    <2> QED
      BY <1>3, <1>4, <1>5, <1>8, <2>1, <2>2, LastIsSeen
  <1>9. ASSUME NEW j \in 1..n, On(ChildBox(j), x, y) PROVE frame /\ found = j
    <2>1. j <= Cols * Rows
      <3>1. Cols * Rows \in Int
        BY EvenIs
      <3> QED
        BY <1>1, <3>1
    <2> QED
      BY <1>5, <1>9, <2>1, ChildIsFound
  <1>10. /\ Within(Boxes[2], x, y, 0) <=> title
         /\ Within(Boxes[3], x, y, 0) <=> frame
         /\ \A j \in 1..n : Within(ChildBox(j), x, y, 0) <=> Covers(children[j], x, y)
    <2>1. ASSUME NEW r, NEW colour, NEW t, r.x \in Int, r.y \in Int, r.w \in Nat, r.h \in Nat
          PROVE  Within(Box(r, t, colour), x, y, 0) <=> Covers(r, x, y)
      <3> DEFINE s == Box(r, t, colour)
      <3>1. s.x = r.x /\ s.y = r.y /\ s.w = r.w /\ s.h = r.h
        BY DEF Box
      <3> HIDE DEF s
      <3>2. /\ s.x - 0 = r.x /\ s.x + s.w + 0 - 1 = r.x + r.w - 1
            /\ s.y - 0 = r.y /\ s.y + s.h + 0 - 1 = r.y + r.h - 1
        BY <2>1, <3>1
      <3>3. Within(s, x, y, 0) <=> Covers(r, x, y)
        BY <3>2 DEF Within, Covers
      <3> QED
        BY <3>3 DEF s
    <2>2. Within(Boxes[2], x, y, 0) <=> title
      <3> DEFINE r == TitleBar(Window)
      <3>1. r.x \in Int /\ r.y \in Int /\ r.w \in Nat /\ r.h \in Nat
        BY <1>1, <1>2
      <3> HIDE DEF r
      <3>2. Within(Box(r, 0, Panels.title), x, y, 0) <=> Covers(r, x, y)
        BY <2>1, <3>1
      <3> QED
        BY <1>3, <3>2 DEF r
    <2>3. Within(Boxes[3], x, y, 0) <=> frame
      <3> DEFINE r == Frame(Window)
      <3>1. r.x \in Int /\ r.y \in Int /\ r.w \in Nat /\ r.h \in Nat
        BY <1>1, <1>2
      <3> HIDE DEF r
      <3>2. Within(Box(r, 0, Panels.frame), x, y, 0) <=> Covers(r, x, y)
        BY <2>1, <3>1
      <3> QED
        BY <1>3, <3>2 DEF r
    <2>4. ASSUME NEW j \in 1..n PROVE Within(ChildBox(j), x, y, 0) <=> Covers(children[j], x, y)
      <3> DEFINE r == children[j]
      <3>1. r \in [x : Int, y : Int, w : Nat, h : Nat, border : Nat]
        BY <1>1 DEF GridInv, TypeOK
      <3> HIDE DEF r
      <3>2. Within(Box(r, r.border, Panels.child[j]), x, y, 0) <=> Covers(r, x, y)
        BY <2>1, <3>1
      <3> QED
        BY <3>2 DEF r, ChildBox
    <2> QED
      BY <2>2, <2>3, <2>4
  <1>11. Boxes[2].t = 0 /\ Boxes[3].t = 0 /\ Boxes[2].colour = Panels.title /\ Boxes[3].colour = Panels.frame
    BY <1>3 DEF Box
  <1>12. (On(Boxes[2], x, y) <=> title) /\ (On(Boxes[3], x, y) <=> frame)
    BY <1>10, <1>11 DEF On
  <1>13. ASSUME NEW k \in 1..len, k > 3, On(Boxes[k], x, y)
         PROVE  frame /\ k = found + 3 /\ found \in 1..n /\ On(ChildBox(found), x, y)
    <2> DEFINE j == k - 3
    <2>1. j \in 1..n /\ k = j + 3
      BY <1>1, <1>13
    <2> HIDE DEF j
    <2>2. Boxes[k] = ChildBox(j)
      BY <1>3, <2>1
    <2>3. frame /\ found = j
      BY <1>9, <1>13, <2>1, <2>2
    <2> QED
      BY <1>13, <2>1, <2>2, <2>3
  <1>14. Len(Boxes) = n + 3 /\ 1 \in 1..len /\ 2 \in 1..len /\ 3 \in 1..len
    BY <1>1, <1>3
  <1> HIDE DEF n, found, title, frame, seen, at
  <1>15. CASE found \in 1..n /\ On(ChildBox(found), x, y)
    <2>1. frame /\ found + 3 \in 1..len /\ Boxes[found + 3] = ChildBox(found) /\ found \in DOMAIN children
      BY <1>1, <1>3, <1>9, <1>15
    <2> DEFINE top == found + 3
    <2>2. ASSUME NEW k \in 1..len, k > top PROVE ~On(Boxes[k], x, y)
      <3>1. k > 3 /\ k # found + 3
        BY <1>1, <1>15, <2>2
      <3> QED
        BY <1>13, <3>1
    <2>3. CASE Covers(children[found], x, y)
      <3>1. at(top) = <<Panels.child[found]>>
        <4>1. Within(Boxes[top], x, y, 0) /\ Boxes[top].colour = Panels.child[found]
          BY <1>10, <1>15, <2>1, <2>3 DEF ChildBox, Box
        <4> HIDE DEF top
        <4> QED
          BY <1>7, <2>1, <4>1 DEF top
      <3>2. seen = Panels.child[found]
        <4> HIDE DEF top
        <4> QED
          BY <1>8, <2>1, <2>2, <3>1 DEF top
      <3> QED
        BY <1>6, <1>3, <2>1, <2>3, <3>2 DEF seen
    <2>4. CASE ~Covers(children[found], x, y)
      <3>1. at(top) = <<Panels.edge>>
        <4>1. ~Within(Boxes[top], x, y, 0) /\ On(Boxes[top], x, y)
          BY <1>10, <1>15, <2>1, <2>4
        <4> HIDE DEF top
        <4> QED
          BY <1>7, <2>1, <4>1 DEF top
      <3>2. seen = Panels.edge
        <4> HIDE DEF top
        <4> QED
          BY <1>8, <2>1, <2>2, <3>1 DEF top
      <3> QED
        BY <1>6, <1>3, <2>1, <2>4, <3>2 DEF seen
    <2> QED
      BY <2>3, <2>4
  <1>16. CASE ~(found \in 1..n /\ On(ChildBox(found), x, y))
    <2>1. ASSUME NEW k \in 1..len, k > 3 PROVE ~On(Boxes[k], x, y)
      BY <1>13, <1>16, <2>1
    <2>2. CASE frame
      <3>1. at(3) = <<Panels.frame>>
        BY <1>7, <1>10, <1>11, <1>14, <2>2
      <3>2. seen = Panels.frame
        BY <1>8, <1>14, <2>1, <3>1
      <3>3. ~(found \in DOMAIN children /\ Covers(children[found], x, y))
        <4> SUFFICES ASSUME found \in 1..n, Covers(children[found], x, y) PROVE FALSE
          BY <1>1
        <4>1. found + 3 \in 1..len /\ Boxes[found + 3] = ChildBox(found)
          BY <1>1, <1>3
        <4> DEFINE k == found + 3
        <4>2. Within(Boxes[k], x, y, 0)
          BY <1>10, <4>1
        <4> HIDE DEF k
        <4>3. On(Boxes[k], x, y)
          BY <1>7, <4>1, <4>2 DEF k
        <4> QED
          BY <1>16, <4>1, <4>3 DEF k
      <3> QED
        BY <1>3, <1>6, <2>2, <3>2, <3>3 DEF seen
    <2>3. CASE ~frame /\ title
      <3>1. at(2) = <<Panels.title>>
        BY <1>7, <1>10, <1>11, <1>14, <2>3
      <3>2. ASSUME NEW k \in 1..len, k > 2 PROVE ~On(Boxes[k], x, y)
        <4>1. k = 3 \/ k > 3
          BY <1>1, <3>2
        <4> QED
          BY <1>12, <2>1, <2>3, <4>1
      <3>3. seen = Panels.title
        BY <1>8, <1>14, <3>1, <3>2
      <3> QED
        BY <1>3, <1>6, <2>3, <3>3 DEF seen
    <2>4. CASE ~frame /\ ~title
      <3>1. On(Boxes[1], x, y) /\ Boxes[1].colour = Panels.window
        <4>1. Boxes[1] = Box([x |-> WindowBorder, y |-> WindowBorder,
                              w |-> Window.w - 2 * WindowBorder, h |-> Window.h - 2 * WindowBorder],
                             WindowBorder, Panels.window)
          BY <1>3 DEF InnerBox
        <4>2. /\ WindowBorder - WindowBorder = 0
              /\ WindowBorder + (Window.w - 2 * WindowBorder) + WindowBorder - 1 = Window.w - 1
              /\ WindowBorder + (Window.h - 2 * WindowBorder) + WindowBorder - 1 = Window.h - 1
          BY <1>2
        <4> QED
          BY <4>1, <4>2 DEF On, Within, Box
      <3>2. at(1) = <<Panels.window>> \/ at(1) = <<Panels.edge>>
        BY <1>7, <1>14, <3>1
      <3>3. ASSUME NEW k \in 1..len, k > 1 PROVE ~On(Boxes[k], x, y)
        <4>1. k = 2 \/ k = 3 \/ k > 3
          BY <1>1, <3>3
        <4> QED
          BY <1>12, <2>1, <2>4, <4>1
      <3>4. seen = Panels.window \/ seen = Panels.edge
        BY <1>8, <1>14, <3>2, <3>3
      <3> QED
        BY <1>3, <1>6, <2>4, <3>4 DEF seen
    <2> QED
      BY <2>2, <2>3, <2>4
  <1> QED
    BY <1>15, <1>16

\* get_widgets_at and repaint(), for windows of any size and children of any
\* preference in a grid of any number of equal cells.
THEOREM AlwaysSeenIsFound == PaintingSpec => []SeenIsFound
  <1>1. LayoutInv /\ ContainerInv => SeenIsFound
    <2> SUFFICES ASSUME LayoutInv, ContainerInv PROVE SeenIsFound
      OBVIOUS
    <2>1. GridInv /\ EvenInv /\ TypeOK
      BY DEF LayoutInv, GridInv
    <2> SUFFICES ASSUME kind = "container", EvenGrid, Len(children) <= Cols * Rows,
                        NEW x \in 0..(Window.w - 1), NEW y \in 0..(Window.h - 1) \ LastTitleRows
                 PROVE  LET seen == Last(WindowPainted[Len(Boxes)][y * Window.w + x])
                        IN  \/ seen = Found(x, y)
                            \/ seen = Panels.edge /\ Found(x, y) \in {Panels.window, Panels.frame}
      BY <2>1 DEF SeenIsFound
    <2> QED
      BY <2>1, PlaceIsFound DEF ContainerInv
  <1>2. PaintingInit => LayoutInv /\ ContainerInv
    BY LayoutInit, ContainerInit
  <1>3. LayoutInv /\ ContainerInv /\ [PaintingNext]_painting => (LayoutInv /\ ContainerInv)'
    BY LayoutNext, ContainerNext
  <1> QED
    BY <1>1, <1>2, <1>3, PTL DEF PaintingSpec

-----------------------------------------------------------------------------
(* Texts *)

IsText(str, n) == n \in Nat /\ Len(str) = n /\ DOMAIN str = 1..n /\ \A i \in 1..n : str[i] \in Char

\* The characters of a text.
LEMMA CharsAre ==
    ASSUME NEW str, NEW n, IsText(str, n), NEW i \in 1..n
    PROVE  /\ str[i].advance \in Nat
           /\ str[i].breaks \in BOOLEAN /\ str[i].space \in BOOLEAN /\ str[i].newline \in BOOLEAN
           /\ str[i].prints \in BOOLEAN /\ str[i].loads \in BOOLEAN
           /\ str[i].newline => str[i].breaks /\ ~str[i].prints
  <1> DEFINE c == str[i]
  <1>1. c \in Char
    BY DEF IsText
  <1> HIDE DEF c
  <1>2. c \in [glyph : STRING, advance : Nat, breaks : BOOLEAN, space : BOOLEAN,
              newline : BOOLEAN, prints : BOOLEAN, loads : BOOLEAN]
    BY <1>1, CharAssumption
  <1>3. c.newline => c.breaks /\ ~c.prints
    BY <1>1, CharAssumption
  <1>4. c.advance \in Nat /\ c.breaks \in BOOLEAN /\ c.space \in BOOLEAN
    BY <1>2
  <1>5. c.newline \in BOOLEAN /\ c.prints \in BOOLEAN /\ c.loads \in BOOLEAN
    BY <1>2
  <1> QED
    BY <1>3, <1>4, <1>5 DEF c

\* How wide the first characters of a text are.
LEMMA WidthsAre ==
    ASSUME NEW str, NEW n, IsText(str, n)
    PROVE  /\ Widths(str)[0] = 0
           /\ \A i \in 1..n : Widths(str)[i] = Widths(str)[i - 1] + str[i].advance
           /\ \A i \in 0..n : Widths(str)[i] \in Nat
           /\ \A i, j \in 0..n : i <= j => Widths(str)[i] <= Widths(str)[j]
  <1> DEFINE advances == [i \in 1..n |-> str[i].advance]
  <1>1. n \in Nat /\ Widths(str) = Sums(advances)
    BY DEF Widths, IsText
  <1>2. /\ Len(advances) = n /\ DOMAIN advances = 1..n
        /\ \A i \in 1..n : advances[i] = str[i].advance /\ advances[i] \in Nat
    <2>1. advances = [i \in 1..n |-> advances[i]]
      OBVIOUS
    <2>2. \A i \in 1..n : advances[i] = str[i].advance /\ advances[i] \in Nat
      BY CharsAre
    <2> HIDE DEF advances
    <2> QED
      BY <1>1, <2>1, <2>2, LenIs
  <1> HIDE DEF advances
  <1>3. Sums(advances)[0] = 0
    BY <1>1, <1>2, SumsAre
  <1>4. CASE n = 0
    <2>1. \A i \in 0..n : i = 0
      BY <1>4
    <2>2. \A i \in 1..n : FALSE
      BY <1>4
    <2> QED
      BY <1>1, <1>3, <2>1, <2>2
  <1>5. CASE n # 0
    <2>1. IsLines(advances)
      BY <1>1, <1>2, <1>5 DEF IsLines
    <2>2. /\ \A i \in 1..n : Sums(advances)[i] = Sums(advances)[i - 1] + advances[i]
          /\ \A i \in 0..n : Sums(advances)[i] \in Nat
          /\ \A i, j \in 0..n : i <= j => Sums(advances)[i] <= Sums(advances)[j]
      BY <1>2, <2>1, SumsGrow
    <2> QED
      BY <1>1, <1>2, <1>3, <2>2
  <1> QED
    BY <1>4, <1>5

\* The recursion in Measures has a solution, and it is that one.
LEMMA MeasuresAre ==
    ASSUME NEW str, NEW len \in Nat, Len(str) = len
    PROVE  /\ Measures(str)[0] = [advs |-> <<>>, segs |-> <<>>, segWs |-> <<>>, segW |-> 0]
           /\ \A i \in 1..len : Measures(str)[i] = Measured(Measures(str)[i - 1], i, str[i])
  <1> DEFINE start == [advs |-> <<>>, segs |-> <<>>, segWs |-> <<>>, segW |-> 0]
             Step(f, k) == IF k = 0 THEN start ELSE Measured(f[k - 1], k, str[k])
             P(f, l) == f = [k \in 0..l |-> Step(f, k)]
             I == {l \in Nat : \E f : P(f, l)}
  <1> HIDE DEF start
  <1>1. 0 \in I
    <2>1. P([k \in 0..0 |-> start], 0)
      OBVIOUS
    <2> QED
      BY <2>1
  <1>2. ASSUME NEW l \in Nat, l \in I PROVE l + 1 \in I
    <2>1. PICK f : P(f, l)
      BY <1>2
    <2> DEFINE new == Measured(f[l], l + 1, str[l + 1])
               g == [k \in 0..(l+1) |-> IF k = l + 1 THEN new ELSE f[k]]
    <2> HIDE DEF new
    <2>2. ASSUME NEW k \in 0..(l+1) PROVE g[k] = Step(g, k)
      <3>1. CASE k = l + 1
        <4>1. g[l] = f[l] /\ (l + 1) - 1 = l /\ l + 1 # 0 /\ g[l + 1] = new
          OBVIOUS
        <4> HIDE DEF g
        <4> QED
          BY <3>1, <4>1 DEF new
      <3>2. CASE k = 0
        BY <2>1, <3>2
      <3>3. CASE k \in 1..l
        <4>1. k - 1 \in 0..l /\ g[k] = f[k] /\ g[k-1] = f[k-1] /\ k # 0
          BY <3>3
        <4>2. f[k] = Step(f, k)
          BY <2>1, <3>3
        <4> HIDE DEF g
        <4> QED
          BY <4>1, <4>2
      <3> QED
        BY <3>1, <3>2, <3>3
    <2>3. g = [k \in 0..(l+1) |-> g[k]]
      OBVIOUS
    <2>4. P(g, l + 1)
      <3> HIDE DEF g
      <3> QED
        BY <2>2, <2>3
    <2> HIDE DEF g, P
    <2> QED
      BY <2>4
  <1> HIDE DEF I
  <1>3. len \in I
    BY <1>1, <1>2, SetInduction
  <1>4. PICK f : P(f, len)
    BY <1>3 DEF I
  <1>5. P(Measures(str), len)
    <2>1. Measures(str) = CHOOSE h : P(h, len)
      BY DEF Measures, start
    <2> HIDE DEF P
    <2> QED
      BY <1>4, <2>1
  <1>6. Measures(str)[0] = start
    BY <1>5
  <1>7. ASSUME NEW i \in 1..len PROVE Measures(str)[i] = Measured(Measures(str)[i - 1], i, str[i])
    <2>1. i \in 0..len /\ i # 0
      OBVIOUS
    <2> QED
      BY <1>5, <2>1
  <1> QED
    BY <1>6, <1>7 DEF start

\* So has the one in Pens.
LEMMA PensAre ==
    ASSUME NEW str, NEW w, NEW len \in Nat, Len(str) = len
    PROVE  /\ Pens(str, w)[0] = Pen
           /\ \A i \in 1..len : Pens(str, w)[i] = Stepped(Updated(str), w, Pens(str, w)[i - 1], i, str[i])
  <1> DEFINE start == Pen
             Step(f, k) == IF k = 0 THEN start ELSE Stepped(Updated(str), w, f[k - 1], k, str[k])
             P(f, l) == f = [k \in 0..l |-> Step(f, k)]
             I == {l \in Nat : \E f : P(f, l)}
  <1> HIDE DEF start
  <1>1. 0 \in I
    <2>1. P([k \in 0..0 |-> start], 0)
      OBVIOUS
    <2> QED
      BY <2>1
  <1>2. ASSUME NEW l \in Nat, l \in I PROVE l + 1 \in I
    <2>1. PICK f : P(f, l)
      BY <1>2
    <2> DEFINE new == Stepped(Updated(str), w, f[l], l + 1, str[l + 1])
               g == [k \in 0..(l+1) |-> IF k = l + 1 THEN new ELSE f[k]]
    <2> HIDE DEF new
    <2>2. ASSUME NEW k \in 0..(l+1) PROVE g[k] = Step(g, k)
      <3>1. CASE k = l + 1
        <4>1. g[l] = f[l] /\ (l + 1) - 1 = l /\ l + 1 # 0 /\ g[l + 1] = new
          OBVIOUS
        <4> HIDE DEF g
        <4> QED
          BY <3>1, <4>1 DEF new
      <3>2. CASE k = 0
        BY <2>1, <3>2
      <3>3. CASE k \in 1..l
        <4>1. k - 1 \in 0..l /\ g[k] = f[k] /\ g[k-1] = f[k-1] /\ k # 0
          BY <3>3
        <4>2. f[k] = Step(f, k)
          BY <2>1, <3>3
        <4> HIDE DEF g
        <4> QED
          BY <4>1, <4>2
      <3> QED
        BY <3>1, <3>2, <3>3
    <2>3. g = [k \in 0..(l+1) |-> g[k]]
      OBVIOUS
    <2>4. P(g, l + 1)
      <3> HIDE DEF g
      <3> QED
        BY <2>2, <2>3
    <2> HIDE DEF g, P
    <2> QED
      BY <2>4
  <1> HIDE DEF I
  <1>3. len \in I
    BY <1>1, <1>2, SetInduction
  <1>4. PICK f : P(f, len)
    BY <1>3 DEF I
  <1>5. P(Pens(str, w), len)
    <2>1. Pens(str, w) = CHOOSE h : P(h, len)
      BY DEF Pens, start
    <2> HIDE DEF P
    <2> QED
      BY <1>4, <2>1
  <1>6. Pens(str, w)[0] = start
    BY <1>5
  <1>7. ASSUME NEW i \in 1..len PROVE Pens(str, w)[i] = Stepped(Updated(str), w, Pens(str, w)[i - 1], i, str[i])
    <2>1. i \in 0..len /\ i # 0
      OBVIOUS
    <2> QED
      BY <1>5, <2>1
  <1> QED
    BY <1>6, <1>7 DEF start

\* Segment s of a text begins behind its last breakpoint, but is measured from there.
After(segs, s, j) == s = 1 \/ segs[s - 1] < j
Before(str, segs, s) == IF s = 1 THEN 0 ELSE Widths(str)[segs[s - 1] - 1]

IsMeasure(m) == m \in [advs : Seq(Nat), segs : Seq(Nat), segWs : Seq(Int), segW : Int]

\* The segments end at breakpoints, and there are none in them.
CutsAre(str, segs, segWs, i) ==
    \A s \in 1..Len(segs) :
        /\ segs[s] \in 1..i /\ str[segs[s]].breaks
        /\ After(segs, s, segs[s])
        /\ segWs[s] = Widths(str)[segs[s] - 1] - Before(str, segs, s)
WordsAre(str, segs, i) ==
    \A s \in 1..Len(segs), j \in 1..i : After(segs, s, j) /\ j < segs[s] => ~str[j].breaks
LastWordIs(str, segs, i) == \A j \in 1..i : After(segs, Len(segs) + 1, j) => ~str[j].breaks

\* What is known of the first i characters of a text when all of them could be loaded.
MeasureInv(str, m, i) ==
    /\ IsMeasure(m)
    /\ Len(m.advs) = i /\ \A j \in 1..i : m.advs[j] = str[j].advance
    /\ Len(m.segWs) = Len(m.segs)
    /\ CutsAre(str, m.segs, m.segWs, i)
    /\ WordsAre(str, m.segs, i) /\ LastWordIs(str, m.segs, i)
    /\ m.segW = Widths(str)[i] - Before(str, m.segs, Len(m.segs) + 1)

\* One turn of the loop of update().
Turned(m, new, i, c) ==
    /\ IsMeasure(new) /\ new.advs = Append(m.advs, c.advance)
    /\ c.breaks => /\ new.segs = Append(m.segs, i) /\ new.segWs = Append(m.segWs, m.segW)
                   /\ new.segW = c.advance
    /\ ~c.breaks => new.segs = m.segs /\ new.segWs = m.segWs /\ new.segW = m.segW + c.advance

\* One turn of update()'s loop, taken apart.
LEMMA MeasuredIs ==
    ASSUME NEW m, IsMeasure(m), NEW i \in Nat, NEW c, c.loads, c.advance \in Nat
    PROVE  Turned(m, Measured(m, i, c), i, c)
  <1> DEFINE cut == IF c.breaks THEN CutAt(m, i) ELSE m
             new == [cut EXCEPT !.advs = Append(@, c.advance), !.segW = @ + c.advance]
  <1>1. Measured(m, i, c) = new
    BY DEF Measured
  <1>2. m.advs \in Seq(Nat) /\ m.segs \in Seq(Nat) /\ m.segWs \in Seq(Int) /\ m.segW \in Int
    BY DEF IsMeasure
  <1>3. /\ Append(m.advs, c.advance) \in Seq(Nat) /\ Append(m.segs, i) \in Seq(Nat)
        /\ Append(m.segWs, m.segW) \in Seq(Int)
    BY <1>2, AppendProperties
  <1>4. /\ IsMeasure(cut) /\ cut.advs = m.advs
        /\ c.breaks => /\ cut.segs = Append(m.segs, i) /\ cut.segWs = Append(m.segWs, m.segW)
                       /\ cut.segW = 0
        /\ ~c.breaks => cut.segs = m.segs /\ cut.segWs = m.segWs /\ cut.segW = m.segW
    <2>1. CASE c.breaks
      <3> DEFINE a == Append(m.segs, i)
                 b == Append(m.segWs, m.segW)
      <3>1. cut = [m EXCEPT !.segs = a, !.segWs = b, !.segW = 0]
        BY <2>1 DEF CutAt, IsMeasure
      <3>2. a \in Seq(Nat) /\ b \in Seq(Int)
        BY <1>3
      <3> HIDE DEF cut, a, b
      <3>3. cut = [advs |-> m.advs, segs |-> a, segWs |-> b, segW |-> 0]
        BY <3>1 DEF IsMeasure
      <3>4. cut.advs = m.advs /\ cut.segs = a /\ cut.segWs = b /\ cut.segW = 0
        BY <3>3
      <3>5. IsMeasure(cut)
        BY <1>2, <3>2, <3>3 DEF IsMeasure
      <3> QED
        BY <2>1, <3>4, <3>5 DEF a, b
    <2>2. CASE ~c.breaks
      BY <2>2
    <2> QED
      BY <2>1, <2>2
  <1> HIDE DEF cut
  <1>5. /\ IsMeasure(new) /\ new.advs = Append(m.advs, c.advance)
        /\ new.segs = cut.segs /\ new.segWs = cut.segWs /\ new.segW = cut.segW + c.advance
    <2> DEFINE a == Append(m.advs, c.advance)
               w == cut.segW + c.advance
    <2>1. new = [cut EXCEPT !.advs = a, !.segW = w]
      BY <1>4 DEF IsMeasure
    <2>2. a \in Seq(Nat) /\ w \in Int
      BY <1>3, <1>4 DEF IsMeasure
    <2> HIDE DEF new, a, w
    <2>3. new = [advs |-> a, segs |-> cut.segs, segWs |-> cut.segWs, segW |-> w]
      BY <1>4, <2>1 DEF IsMeasure
    <2>4. new.advs = a /\ new.segs = cut.segs /\ new.segWs = cut.segWs /\ new.segW = w
      BY <2>3
    <2>5. IsMeasure(new)
      BY <1>4, <2>2, <2>3 DEF IsMeasure
    <2> QED
      BY <2>4, <2>5 DEF a, w
  <1> HIDE DEF new
  <1>6. 0 + c.advance = c.advance
    OBVIOUS
  <1> QED
    BY <1>1, <1>4, <1>5, <1>6 DEF Turned

\* It keeps what is known of the segments.
LEMMA MeasureStep ==
    ASSUME NEW str, NEW n, IsText(str, n), NEW i \in Nat, i + 1 \in 1..n, str[i + 1].loads,
           NEW m, MeasureInv(str, m, i)
    PROVE  MeasureInv(str, Measured(m, i + 1, str[i + 1]), i + 1)
  <1> DEFINE k == i + 1
             c == str[k]
             new == Measured(m, k, c)
             p == Len(m.segs)
             W == Widths(str)
  <1>1. k \in 1..n /\ k \in Nat /\ k - 1 = i /\ n \in Nat /\ i \in 0..n
    BY DEF IsText
  <1>2. c.advance \in Nat /\ c.breaks \in BOOLEAN /\ c.loads
    BY CharsAre
  <1>3. W[k] = W[i] + c.advance /\ W[i] \in Nat /\ W[k] \in Nat
    <2> HIDE DEF k
    <2> QED
      BY <1>1, WidthsAre
  <1>4. /\ m.advs \in Seq(Nat) /\ m.segs \in Seq(Nat) /\ m.segWs \in Seq(Int) /\ m.segW \in Int
        /\ Len(m.advs) = i /\ Len(m.segWs) = p /\ p \in Nat
    BY DEF MeasureInv, IsMeasure
  <1>5. /\ IsMeasure(new) /\ new.advs = Append(m.advs, c.advance)
        /\ c.breaks => /\ new.segs = Append(m.segs, k) /\ new.segWs = Append(m.segWs, m.segW)
                       /\ new.segW = c.advance
        /\ ~c.breaks => new.segs = m.segs /\ new.segWs = m.segWs /\ new.segW = m.segW + c.advance
    <2>1. IsMeasure(m)
      BY DEF MeasureInv
    <2> HIDE DEF k, c
    <2>2. k \in Nat /\ c.loads /\ c.advance \in Nat
      BY <1>1, <1>2
    <2>3. Turned(m, Measured(m, k, c), k, c)
      BY <2>1, <2>2, MeasuredIs
    <2> HIDE DEF new
    <2> QED
      BY <2>3 DEF Turned, new
  <1>6. /\ \A s \in 1..p : /\ m.segs[s] \in 1..i /\ str[m.segs[s]].breaks
                           /\ After(m.segs, s, m.segs[s])
                           /\ m.segWs[s] = W[m.segs[s] - 1] - Before(str, m.segs, s)
        /\ \A s \in 1..p, j \in 1..i : After(m.segs, s, j) /\ j < m.segs[s] => ~str[j].breaks
        /\ \A j \in 1..i : After(m.segs, p + 1, j) => ~str[j].breaks
        /\ m.segW = W[i] - Before(str, m.segs, p + 1)
    BY DEF MeasureInv, CutsAre, WordsAre, LastWordIs
  <1>7. Before(str, m.segs, p + 1) \in Int
    <2>1. CASE p = 0
      BY <2>1 DEF Before
    <2>2. CASE p # 0
      <3> DEFINE at == m.segs[p] - 1
      <3>1. at \in 0..n
        <4>1. p \in 1..p
          BY <1>4, <2>2
        <4>2. m.segs[p] \in 1..i
          BY <1>6, <4>1
        <4> QED
          BY <1>1, <4>2
      <3> HIDE DEF at
      <3>2. W[at] \in Nat
        BY <3>1, WidthsAre
      <3>3. (p + 1) - 1 = p /\ p + 1 # 1
        BY <1>4, <2>2
      <3> QED
        BY <3>2, <3>3 DEF Before, at
    <2> QED
      BY <2>1, <2>2
  <1>8. Len(new.advs) = k /\ \A j \in 1..k : new.advs[j] = str[j].advance
    <2>1. Len(new.advs) = k /\ new.advs[k] = c.advance /\ \A j \in 1..i : new.advs[j] = m.advs[j]
      <3> DEFINE a == c.advance
                 s == m.advs
      <3>1. a \in Nat /\ s \in Seq(Nat) /\ Len(s) = i /\ new.advs = Append(s, a)
        BY <1>2, <1>4, <1>5
      <3> HIDE DEF a, s
      <3>2. /\ Len(Append(s, a)) = Len(s) + 1 /\ Append(s, a)[Len(s) + 1] = a
            /\ \A j \in 1..Len(s) : Append(s, a)[j] = s[j]
        BY <3>1, AppendProperties
      <3> QED
        BY <3>1, <3>2 DEF a, s
    <2>2. \A j \in 1..k : j = k \/ j \in 1..i
      BY <1>1
    <2>3. \A j \in 1..i : m.advs[j] = str[j].advance
      BY DEF MeasureInv
    <2> QED
      BY <2>1, <2>2, <2>3
  <1> HIDE DEF new, p, W, k, c
  <1>9. \A j \in 1..k : j \in 1..i \/ j = k
    BY <1>1
  <1>10. 1..i \subseteq 1..k
    BY <1>1
  <1>11. ASSUME Len(new.segWs) = Len(new.segs), CutsAre(str, new.segs, new.segWs, k),
                WordsAre(str, new.segs, k), LastWordIs(str, new.segs, k),
                new.segW = W[k] - Before(str, new.segs, Len(new.segs) + 1)
         PROVE  MeasureInv(str, new, k)
    BY <1>5, <1>8, <1>11 DEF MeasureInv, W
  <1>12. ASSUME ~c.breaks PROVE MeasureInv(str, new, k)
    <2>1. new.segs = m.segs /\ new.segWs = m.segWs /\ new.segW = m.segW + c.advance
      BY <1>5, <1>12
    <2>2. Len(new.segs) = p /\ Len(new.segWs) = p
      BY <1>4, <2>1 DEF p
    <2>3. ASSUME NEW s \in 1..p
          PROVE  /\ new.segs[s] \in 1..k /\ str[new.segs[s]].breaks
                 /\ After(new.segs, s, new.segs[s])
                 /\ new.segWs[s] = W[new.segs[s] - 1] - Before(str, new.segs, s)
      BY <1>6, <1>10, <2>1
    <2>4. ASSUME NEW s \in 1..p, NEW j \in 1..k, After(new.segs, s, j), j < new.segs[s]
          PROVE  ~str[j].breaks
      BY <1>6, <1>9, <1>12, <2>1, <2>4 DEF c
    <2>5. ASSUME NEW j \in 1..k, After(new.segs, p + 1, j) PROVE ~str[j].breaks
      BY <1>6, <1>9, <1>12, <2>1, <2>5 DEF c
    <2>6. new.segW = W[k] - Before(str, new.segs, p + 1)
      BY <1>2, <1>3, <1>4, <1>6, <1>7, <2>1
    <2>12. CutsAre(str, new.segs, new.segWs, k)
      BY <2>2, <2>3 DEF CutsAre, W
    <2>13. WordsAre(str, new.segs, k)
      BY <2>2, <2>4 DEF WordsAre
    <2>14. LastWordIs(str, new.segs, k)
      BY <2>2, <2>5 DEF LastWordIs
    <2> QED
      BY <1>11, <2>2, <2>6, <2>12, <2>13, <2>14
  <1>13. ASSUME c.breaks PROVE MeasureInv(str, new, k)
    <2>1. new.segs = Append(m.segs, k) /\ new.segWs = Append(m.segWs, m.segW) /\ new.segW = c.advance
      BY <1>5, <1>13
    <2> DEFINE q == p + 1
    <2>2. /\ Len(new.segs) = q /\ new.segs[q] = k /\ \A s \in 1..p : new.segs[s] = m.segs[s]
          /\ Len(new.segWs) = q /\ new.segWs[q] = m.segW /\ \A s \in 1..p : new.segWs[s] = m.segWs[s]
      <3> DEFINE a == m.segs
                 b == m.segWs
                 w == m.segW
      <3>1. /\ a \in Seq(Nat) /\ Len(a) = p /\ k \in Nat
            /\ b \in Seq(Int) /\ Len(b) = p /\ w \in Int
        BY <1>1, <1>4 DEF p
      <3>2. new.segs = Append(a, k) /\ new.segWs = Append(b, w)
        BY <2>1
      <3> HIDE DEF a, b, w
      <3>3. /\ Len(Append(a, k)) = p + 1 /\ Append(a, k)[p + 1] = k
            /\ \A s \in 1..p : Append(a, k)[s] = a[s]
        BY <3>1, AppendProperties
      <3>4. /\ Len(Append(b, w)) = p + 1 /\ Append(b, w)[p + 1] = w
            /\ \A s \in 1..p : Append(b, w)[s] = b[s]
        BY <3>1, AppendProperties
      <3> QED
        BY <3>2, <3>3, <3>4 DEF a, b, w
    <2>3. q \in Nat /\ q # 0 /\ q - 1 = p /\ (q + 1) - 1 = q /\ q + 1 # 1
      BY <1>4
    <2>4. \A s \in 1..q : s \in 1..p \/ s = q
      BY <1>4
    <2> HIDE DEF q
    <2>5. ASSUME NEW s \in 1..q
          PROVE  /\ \A j : After(new.segs, s, j) <=> After(m.segs, s, j)
                 /\ Before(str, new.segs, s) = Before(str, m.segs, s)
      <3>1. CASE s = 1
        BY <3>1 DEF After, Before
      <3>2. CASE s # 1
        <4> DEFINE r == s - 1
        <4>1. r \in 1..p
          BY <1>4, <2>3, <3>2
        <4> HIDE DEF r
        <4>2. new.segs[r] = m.segs[r]
          BY <2>2, <4>1
        <4> QED
          BY <3>2, <4>2 DEF r, After, Before
      <3> QED
        BY <3>1, <3>2
    <2>6. After(m.segs, q, k)
      <3>1. CASE p = 0
        BY <2>3, <3>1 DEF After
      <3>2. CASE p # 0
        <4>1. m.segs[p] \in 1..i
          BY <1>4, <1>6, <3>2
        <4>2. m.segs[p] < k
          BY <1>1, <4>1
        <4> QED
          BY <2>3, <4>2 DEF After
      <3> QED
        BY <3>1, <3>2
    <2>7. m.segW = W[k - 1] - Before(str, m.segs, q) /\ \A j \in 1..i : After(m.segs, q, j) => ~str[j].breaks
      BY <1>1, <1>6 DEF q
    <2>8. ASSUME NEW s \in 1..q
          PROVE  /\ new.segs[s] \in 1..k /\ str[new.segs[s]].breaks
                 /\ After(new.segs, s, new.segs[s])
                 /\ new.segWs[s] = W[new.segs[s] - 1] - Before(str, new.segs, s)
      <3>1. CASE s \in 1..p
        BY <1>6, <1>10, <2>2, <2>5, <3>1
      <3>2. CASE s = q
        <4>1. k \in 1..k
          BY <1>1
        <4> QED
          BY <1>13, <2>2, <2>5, <2>6, <2>7, <3>2, <4>1 DEF c
      <3> QED
        BY <2>4, <3>1, <3>2
    <2>9. ASSUME NEW s \in 1..q, NEW j \in 1..k, After(new.segs, s, j), j < new.segs[s]
          PROVE  ~str[j].breaks
      <3>1. j < k
        <4>1. new.segs[s] \in 1..k
          BY <2>8
        <4> QED
          BY <1>1, <2>9, <4>1
      <3>2. j \in 1..i /\ After(m.segs, s, j)
        BY <1>9, <2>5, <2>9, <3>1, <1>1
      <3>3. CASE s \in 1..p
        BY <1>6, <2>2, <2>9, <3>2, <3>3
      <3>4. CASE s = q
        BY <2>7, <3>2, <3>4
      <3> QED
        BY <2>4, <3>3, <3>4
    <2>10. ASSUME NEW j \in 1..k, After(new.segs, q + 1, j) PROVE ~str[j].breaks
      <3>1. k < j
        BY <2>2, <2>3, <2>10 DEF After
      <3> QED
        BY <1>1, <3>1
    <2>11. new.segW = W[k] - Before(str, new.segs, q + 1)
      <3>1. Before(str, new.segs, q + 1) = W[k - 1]
        BY <2>2, <2>3 DEF Before, W
      <3> QED
        BY <1>1, <1>2, <1>3, <2>1, <3>1
    <2>13. CutsAre(str, new.segs, new.segWs, k)
      BY <2>2, <2>8 DEF CutsAre, W
    <2>14. WordsAre(str, new.segs, k)
      BY <2>2, <2>9 DEF WordsAre
    <2>15. LastWordIs(str, new.segs, k)
      BY <2>2, <2>10 DEF LastWordIs
    <2> QED
      BY <1>11, <2>2, <2>11, <2>13, <2>14, <2>15
  <1>14. MeasureInv(str, new, k)
    BY <1>12, <1>13
  <1> QED
    BY <1>14 DEF new, k, c

\* ... and so do all of them.
LEMMA MeasuresHold ==
    ASSUME NEW str, NEW n, IsText(str, n), \A i \in 1..n : str[i].loads
    PROVE  MeasureInv(str, Measures(str)[n], n)
  <1> DEFINE J == {i \in Nat : i <= n => MeasureInv(str, Measures(str)[i], i)}
  <1>1. n \in Nat /\ Len(str) = n
    BY DEF IsText
  <1>2. /\ Measures(str)[0] = [advs |-> <<>>, segs |-> <<>>, segWs |-> <<>>, segW |-> 0]
        /\ \A i \in 1..n : Measures(str)[i] = Measured(Measures(str)[i - 1], i, str[i])
    BY <1>1, MeasuresAre
  <1>3. 0 \in J
    <2> DEFINE m == [advs |-> <<>>, segs |-> <<>>, segWs |-> <<>>, segW |-> 0]
    <2>1. IsMeasure(m) /\ Len(m.advs) = 0 /\ Len(m.segs) = 0 /\ Len(m.segWs) = 0 /\ m.segW = 0
      BY DEF IsMeasure
    <2> HIDE DEF m
    <2>2. Widths(str)[0] - Before(str, m.segs, 0 + 1) = 0
      BY WidthsAre DEF Before
    <2>3. \A j \in 1..0 : FALSE
      OBVIOUS
    <2>4. MeasureInv(str, m, 0)
      BY <2>1, <2>2, <2>3 DEF MeasureInv, CutsAre, WordsAre, LastWordIs
    <2> QED
      BY <1>2, <2>4 DEF m
  <1>4. ASSUME NEW i \in Nat, i \in J PROVE i + 1 \in J
    <2> SUFFICES ASSUME i + 1 <= n PROVE MeasureInv(str, Measures(str)[i + 1], i + 1)
      OBVIOUS
    <2>1. i + 1 \in 1..n /\ (i + 1) - 1 = i /\ i <= n
      BY <1>1
    <2>2. MeasureInv(str, Measures(str)[i], i) /\ str[i + 1].loads
      BY <1>4, <2>1
    <2>3. Measures(str)[i + 1] = Measured(Measures(str)[i], i + 1, str[i + 1])
      BY <1>2, <2>1
    <2> DEFINE m == Measures(str)[i]
    <2>4. MeasureInv(str, m, i)
      BY <2>2
    <2> HIDE DEF m
    <2>5. MeasureInv(str, Measured(m, i + 1, str[i + 1]), i + 1)
      BY <2>1, <2>2, <2>4, MeasureStep
    <2> QED
      BY <2>3, <2>5 DEF m
  <1>5. n \in J
    <2> HIDE DEF J
    <2> QED
      BY <1>1, <1>3, <1>4, SetInduction
  <1> QED
    BY <1>1, <1>5

\* What update() knows in the end.
EndsAre(str, n, segs) ==
    /\ Len(segs) \in Nat \ {0} /\ segs[Len(segs)] = n
    /\ \A s \in 1..(Len(segs) - 1) :
        segs[s] \in 1..n /\ str[segs[s]].breaks /\ After(segs, s, segs[s])
Unbroken(str, n, segs) ==
    \A s \in 1..Len(segs), j \in 1..n :
        After(segs, s, j) /\ (j < segs[s] \/ s = Len(segs)) => ~str[j].breaks
SegmentWidths(str, n, segs, segWs) ==
    \A s \in 1..Len(segs) :
        segWs[s] = (IF s = Len(segs) THEN Widths(str)[n] ELSE Widths(str)[segs[s] - 1])
                   - Before(str, segs, s)

\* What update() has found in the end: segments that cover the text, have breakpoints
\* only at their ends, and are measured from the breakpoint before them.
LEMMA UpdatedIs ==
    ASSUME NEW str, NEW n, IsText(str, n), \A i \in 1..n : str[i].loads
    PROVE  LET u == Updated(str)
           IN  /\ Len(u.advs) = n /\ \A j \in 1..n : u.advs[j] = str[j].advance
               /\ EndsAre(str, n, u.segs) /\ Unbroken(str, n, u.segs)
               /\ SegmentWidths(str, n, u.segs, u.segWs)
  <1> DEFINE m == Measures(str)[n]
             p == Len(m.segs)
             q == p + 1
             W == Widths(str)
             segs == Updated(str).segs
             segWs == Updated(str).segWs
  <1>1. n \in Nat /\ Len(str) = n
    BY DEF IsText
  <1>2. MeasureInv(str, m, n)
    BY MeasuresHold
  <1>3. /\ Updated(str).advs = m.advs
        /\ segs = Append(m.segs, n) /\ segWs = Append(m.segWs, m.segW)
    BY <1>1 DEF Updated
  <1> HIDE DEF m, segs, segWs, W
  <1>4. /\ m.segs \in Seq(Nat) /\ m.segWs \in Seq(Int) /\ m.segW \in Int
        /\ Len(m.segWs) = p /\ p \in Nat
        /\ Len(m.advs) = n /\ \A j \in 1..n : m.advs[j] = str[j].advance
    BY <1>2 DEF MeasureInv, IsMeasure
  <1>5. /\ \A s \in 1..p : /\ m.segs[s] \in 1..n /\ str[m.segs[s]].breaks
                           /\ After(m.segs, s, m.segs[s])
                           /\ m.segWs[s] = W[m.segs[s] - 1] - Before(str, m.segs, s)
        /\ \A s \in 1..p, j \in 1..n : After(m.segs, s, j) /\ j < m.segs[s] => ~str[j].breaks
        /\ \A j \in 1..n : After(m.segs, q, j) => ~str[j].breaks
        /\ m.segW = W[n] - Before(str, m.segs, q)
    BY <1>2 DEF MeasureInv, CutsAre, WordsAre, LastWordIs, W
  <1> HIDE DEF p
  <1>6. /\ Len(segs) = q /\ segs[q] = n /\ \A s \in 1..p : segs[s] = m.segs[s]
        /\ Len(segWs) = q /\ segWs[q] = m.segW /\ \A s \in 1..p : segWs[s] = m.segWs[s]
    <2> DEFINE a == m.segs
               b == m.segWs
               w == m.segW
    <2>1. /\ a \in Seq(Nat) /\ Len(a) = p /\ b \in Seq(Int) /\ Len(b) = p /\ w \in Int
      BY <1>4 DEF p
    <2>2. segs = Append(a, n) /\ segWs = Append(b, w)
      BY <1>3
    <2> HIDE DEF a, b, w
    <2>3. /\ Len(Append(a, n)) = p + 1 /\ Append(a, n)[p + 1] = n
          /\ \A s \in 1..p : Append(a, n)[s] = a[s]
      BY <1>1, <2>1, AppendProperties
    <2>4. /\ Len(Append(b, w)) = p + 1 /\ Append(b, w)[p + 1] = w
          /\ \A s \in 1..p : Append(b, w)[s] = b[s]
      BY <2>1, AppendProperties
    <2> QED
      BY <2>2, <2>3, <2>4 DEF a, b, w
  <1>7. q \in Nat \ {0} /\ q - 1 = p /\ \A s \in 1..q : s \in 1..p \/ s = q
    BY <1>4
  <1>8. q \notin 1..p
    BY <1>4
  <1> HIDE DEF q
  <1>9. ASSUME NEW s \in 1..q
        PROVE  /\ \A j : After(segs, s, j) <=> After(m.segs, s, j)
               /\ Before(str, segs, s) = Before(str, m.segs, s)
    <2>1. CASE s = 1
      BY <2>1 DEF After, Before
    <2>2. CASE s # 1
      <3> DEFINE r == s - 1
      <3>1. r \in 1..p
        BY <1>4, <1>7, <2>2
      <3> HIDE DEF r
      <3>2. segs[r] = m.segs[r]
        BY <1>6, <3>1
      <3> QED
        BY <2>2, <3>2 DEF r, After, Before
    <2> QED
      BY <2>1, <2>2
  <1>10. 1..p \subseteq 1..q
    BY <1>4, <1>7
  <1>11. EndsAre(str, n, segs)
    <2>1. ASSUME NEW s \in 1..p
          PROVE  segs[s] \in 1..n /\ str[segs[s]].breaks /\ After(segs, s, segs[s])
      BY <1>5, <1>6, <1>9, <1>10
    <2> QED
      BY <1>6, <1>7, <2>1 DEF EndsAre
  <1>12. Unbroken(str, n, segs)
    <2>1. ASSUME NEW s \in 1..q, NEW j \in 1..n, After(segs, s, j), j < segs[s] \/ s = q
          PROVE  ~str[j].breaks
      <3>1. After(m.segs, s, j)
        BY <1>9, <2>1
      <3>2. CASE s = q
        BY <1>5, <3>1, <3>2
      <3>3. CASE s \in 1..p
        <4>1. j < m.segs[s]
          BY <1>6, <1>8, <2>1, <3>3
        <4> QED
          BY <1>5, <3>1, <3>3, <4>1
      <3> QED
        BY <1>7, <3>2, <3>3
    <2> QED
      BY <1>6, <2>1 DEF Unbroken
  <1>13. SegmentWidths(str, n, segs, segWs)
    <2>1. ASSUME NEW s \in 1..q
          PROVE  segWs[s] = (IF s = q THEN W[n] ELSE W[segs[s] - 1]) - Before(str, segs, s)
      <3>1. CASE s = q
        BY <1>5, <1>6, <1>9, <3>1
      <3>2. CASE s \in 1..p
        <4>1. s # q /\ segs[s] = m.segs[s] /\ segWs[s] = m.segWs[s]
          BY <1>6, <1>8, <3>2
        <4>2. m.segWs[s] = W[m.segs[s] - 1] - Before(str, m.segs, s)
          BY <1>5, <3>2
        <4> QED
          BY <1>9, <4>1, <4>2
      <3> QED
        BY <1>7, <3>1, <3>2
    <2> QED
      BY <1>6, <2>1 DEF SegmentWidths, W
  <1> QED
    BY <1>3, <1>4, <1>11, <1>12, <1>13 DEF segs, segWs

\* A pen, and what one turn of the loop of paint() does to it.
IsPen(old) ==
    old \in [x : Nat, row : Nat, seg : Nat, printed : Seq([i : Nat, x : Nat, row : Nat]), broken : BOOLEAN]

Onward(u, old, i) == i > u.segs[old.seg]
NextSeg(u, old, i) == IF Onward(u, old, i) THEN old.seg + 1 ELSE old.seg
BreaksLine(u, w, old, i, c) ==
    w # 0 /\ \/ c.newline
             \/ old.x + u.advs[i] >= w
             \/ /\ Onward(u, old, i)
                /\ old.x + u.segWs[NextSeg(u, old, i)] >= w
                /\ u.segWs[NextSeg(u, old, i)] < w
IsPut(u, w, old, i, c) == w = 0 \/ (c.prints /\ ~(BreaksLine(u, w, old, i, c) /\ c.space))
At(u, w, old, i, c) == IF BreaksLine(u, w, old, i, c) THEN 0 ELSE old.x

Moved(u, w, old, new, i, c) ==
    /\ IsPen(new) /\ ~new.broken
    /\ new.seg = NextSeg(u, old, i)
    /\ BreaksLine(u, w, old, i, c) => new.row = old.row + 1
    /\ ~BreaksLine(u, w, old, i, c) => new.row = old.row
    /\ IsPut(u, w, old, i, c) =>
        /\ new.x = At(u, w, old, i, c) + c.advance
        /\ new.printed = Append(old.printed, [i |-> i, x |-> At(u, w, old, i, c), row |-> new.row])
    /\ ~IsPut(u, w, old, i, c) =>
        new.x = At(u, w, old, i, c) /\ new.printed = old.printed

\* One turn of paint()'s loop, taken apart.
LEMMA SteppedIs ==
    ASSUME NEW u, NEW w, NEW old, IsPen(old), ~old.broken, NEW i \in Nat, NEW c,
           c.advance \in Nat, u.advs[i] = c.advance, i <= Len(u.advs), Len(u.advs) \in Nat
    PROVE  Moved(u, w, old, Stepped(u, w, old, i, c), i, c)
  <1> DEFINE B == BreaksLine(u, w, old, i, c)
             P == IsPut(u, w, old, i, c)
             seg == NextSeg(u, old, i)
             at == At(u, w, old, i, c)
             row == IF B THEN old.row + 1 ELSE old.row
             x == IF P THEN at + c.advance ELSE at
             printed == IF P THEN Append(old.printed, [i |-> i, x |-> at, row |-> row]) ELSE old.printed
             new == Stepped(u, w, old, i, c)
  <1>1. /\ old.x \in Nat /\ old.row \in Nat /\ old.seg \in Nat
        /\ old.printed \in Seq([i : Nat, x : Nat, row : Nat])
    BY DEF IsPen
  <1>2. ~(i > Len(u.advs))
    OBVIOUS
  <1>3. new = [old EXCEPT !.x = x, !.row = row, !.seg = seg, !.printed = printed]
    BY <1>2 DEF Stepped, BreaksLine, IsPut, At, NextSeg, Onward, IsPen
  <1>4. seg \in Nat
    BY <1>1 DEF NextSeg
  <1>5. at \in Nat
    BY <1>1 DEF At
  <1> HIDE DEF new, seg, at
  <1>6. row \in Nat /\ x \in Nat
    BY <1>1, <1>5
  <1>7. printed \in Seq([i : Nat, x : Nat, row : Nat])
    <2> DEFINE S == [i : Nat, x : Nat, row : Nat]
               e == [i |-> i, x |-> at, row |-> row]
    <2>1. e \in S
      BY <1>5, <1>6
    <2>2. old.printed \in Seq(S)
      BY <1>1
    <2> HIDE DEF S, e
    <2>3. Append(old.printed, e) \in Seq(S)
      BY <2>1, <2>2, AppendProperties
    <2>4. printed \in Seq(S)
      BY <2>2, <2>3 DEF e
    <2> QED
      BY <2>4 DEF S
  <1>8. /\ P => x = at + c.advance /\ printed = Append(old.printed, [i |-> i, x |-> at, row |-> row])
        /\ ~P => x = at /\ printed = old.printed
        /\ B => row = old.row + 1
        /\ ~B => row = old.row
    OBVIOUS
  <1> HIDE DEF x, row, printed
  <1>9. new = [x |-> x, row |-> row, seg |-> seg, printed |-> printed, broken |-> old.broken]
    BY <1>3 DEF IsPen
  <1>10. new.x = x /\ new.row = row /\ new.seg = seg /\ new.printed = printed /\ new.broken = old.broken
    BY <1>9
  <1>11. IsPen(new)
    <2>1. old.broken \in BOOLEAN
      BY DEF IsPen
    <2> QED
      BY <1>4, <1>6, <1>7, <1>9, <2>1 DEF IsPen
  <1>12. ~new.broken
    BY <1>10
  <1> QED
    BY <1>8, <1>10, <1>11, <1>12 DEF Moved, new, seg, at

\* What has been printed before, and what comes next: in the same line behind it, or
\* at the beginning of a later one.
Follows(str, w, prev, i, x, row) ==
    /\ prev.i < i
    /\ \/ row = prev.row /\ x = prev.x + str[prev.i].advance
       \/ row > prev.row /\ x = 0
    /\ w # 0 /\ (\E j \in prev.i..i : str[j].newline) => row > prev.row

\* After i characters: each one that has been printed follows the one before, and
\* the next one will follow the last.
InSegment(u, old, i) ==
    /\ old.seg \in 1..Len(u.segs) /\ After(u.segs, old.seg, i) /\ i <= u.segs[old.seg]
EachIsPut(str, printed, i) ==
    \A j \in 1..i : str[j].prints /\ ~str[j].space =>
        \E k \in 1..Len(printed) : printed[k].i = j
EachFits(str, w, printed, i) ==
    \A k \in 1..Len(printed) :
        /\ printed[k].i \in 1..i
        /\ w # 0 => /\ str[printed[k].i].prints
                    /\ printed[k].x = 0 \/ printed[k].x + str[printed[k].i].advance < w
EachFollows(str, w, printed) ==
    \A k \in 1..Len(printed) : k > 1 =>
        Follows(str, w, printed[k - 1], printed[k].i, printed[k].x, printed[k].row)
NextFollows(str, w, old, i) ==
    old.printed # <<>> =>
        LET l == old.printed[Len(old.printed)]
        IN  /\ \/ old.row = l.row /\ old.x = l.x + str[l.i].advance
               \/ old.row > l.row /\ old.x = 0
            /\ w # 0 /\ (\E j \in l.i..i : str[j].newline) => old.row > l.row

PenInv(str, w, old, i) ==
    /\ IsPen(old) /\ ~old.broken
    /\ i > 0 => InSegment(Updated(str), old, i)
    /\ EachIsPut(str, old.printed, i)
    /\ EachFits(str, w, old.printed, i)
    /\ EachFollows(str, w, old.printed)
    /\ NextFollows(str, w, old, i)

\* The next character is in the segment of the last one, or in the next segment.
LEMMA NextInSegment ==
    ASSUME NEW str, NEW n, IsText(str, n), \A i \in 1..n : str[i].loads,
           NEW i \in 1..n, NEW old, IsPen(old), i = 1 => old.seg = 1,
           i > 1 => InSegment(Updated(str), old, i - 1)
    PROVE  LET u == Updated(str)
           IN  /\ NextSeg(u, old, i) \in 1..Len(u.segs)
               /\ After(u.segs, NextSeg(u, old, i), i) /\ i <= u.segs[NextSeg(u, old, i)]
  <1> DEFINE u == Updated(str)
             segs == u.segs
             q == Len(segs)
             seg == old.seg
  <1>1. /\ q \in Nat \ {0} /\ segs[q] = n /\ n \in Nat
        /\ \A s \in 1..(q - 1) : segs[s] \in 1..n /\ After(segs, s, segs[s])
    BY UpdatedIs DEF EndsAre, IsText
  <1>2. \A s \in 1..q : segs[s] \in Nat
    <2>1. \A s \in 1..q : s \in 1..(q - 1) \/ s = q
      BY <1>1
    <2> QED
      BY <1>1, <2>1
  <1> HIDE DEF u, segs, q
  <1>3. seg \in 1..q /\ (i - 1 <= segs[seg] \/ i = 1) /\ (seg = 1 \/ segs[seg - 1] < i)
    <2>1. CASE i = 1
      BY <1>1, <2>1
    <2>2. CASE i > 1
      <3>1. seg \in 1..q /\ After(segs, seg, i - 1) /\ i - 1 <= segs[seg]
        BY <2>2 DEF InSegment, u, segs, q
      <3>2. seg = 1 \/ segs[seg - 1] < i
        <4> SUFFICES ASSUME seg # 1 PROVE segs[seg - 1] < i
          OBVIOUS
        <4> DEFINE r == seg - 1
        <4>1. r \in 1..q
          BY <3>1, <1>1
        <4>2. segs[r] < i - 1
          BY <3>1 DEF After
        <4> HIDE DEF r
        <4>3. segs[r] < i
          BY <1>2, <4>1, <4>2
        <4> QED
          BY <4>3 DEF r
      <3> QED
        BY <3>1, <3>2
    <2> QED
      BY <2>1, <2>2
  <1> HIDE DEF seg
  <1>4. CASE i > segs[seg]
    <2>1. NextSeg(u, old, i) = seg + 1
      BY <1>4 DEF NextSeg, Onward, segs, seg
    <2>2. seg # q
      BY <1>1, <1>4
    <2>3. seg \in 1..(q - 1) /\ seg + 1 \in 1..q /\ seg + 1 # 1 /\ (seg + 1) - 1 = seg
      BY <1>1, <1>3, <2>2
    <2>4. segs[seg] = i - 1
      <3>1. segs[seg] \in 1..n
        BY <1>1, <2>3
      <3> QED
        BY <1>3, <1>4, <3>1
    <2>5. i <= segs[seg + 1]
      <3>1. CASE seg + 1 = q
        BY <1>1, <3>1
      <3>2. CASE seg + 1 # q
        <4> DEFINE s == seg + 1
        <4>1. s \in 1..(q - 1) /\ s - 1 = seg /\ s # 1
          BY <1>1, <2>3, <3>2
        <4> HIDE DEF s
        <4>2. segs[s] \in 1..n /\ After(segs, s, segs[s])
          BY <1>1, <4>1
        <4>3. segs[seg] < segs[s]
          BY <4>1, <4>2 DEF After
        <4> QED
          BY <2>4, <4>2, <4>3 DEF s
      <3> QED
        BY <3>1, <3>2
    <2>6. After(segs, seg + 1, i)
      BY <1>4, <2>3 DEF After
    <2> QED
      BY <2>1, <2>3, <2>5, <2>6 DEF u, segs, q
  <1>5. CASE ~(i > segs[seg])
    <2>1. NextSeg(u, old, i) = seg
      BY <1>5 DEF NextSeg, Onward, segs, seg
    <2>2. After(segs, seg, i)
      BY <1>3 DEF After
    <2>3. i <= segs[seg]
      BY <1>2, <1>3, <1>5
    <2> QED
      BY <1>3, <2>1, <2>2, <2>3 DEF u, segs, q
  <1> QED
    BY <1>4, <1>5

\* One turn of the loop of paint().
LEMMA PenStep ==
    ASSUME NEW str, NEW n, IsText(str, n), \A j \in 1..n : str[j].loads, NEW w \in Int,
           NEW i \in 1..n, NEW old, PenInv(str, w, old, i - 1), i = 1 => old.seg = 1
    PROVE  LET new == Stepped(Updated(str), w, old, i, str[i])
           IN  PenInv(str, w, new, i) /\ Moved(Updated(str), w, old, new, i, str[i])
  <1> DEFINE u == Updated(str)
             c == str[i]
             new == Stepped(u, w, old, i, c)
             B == BreaksLine(u, w, old, i, c)
             P == IsPut(u, w, old, i, c)
             at == At(u, w, old, i, c)
             this == [i |-> i, x |-> at, row |-> new.row]
             many == Len(old.printed)
             l == old.printed[many]
  <1>1. i \in Nat /\ n \in Nat /\ i - 1 \in Nat /\ i - 1 \in 0..n /\ i > 0
    BY DEF IsText
  <1>2. /\ c.advance \in Nat /\ (c.newline => c.breaks /\ ~c.prints)
        /\ Len(u.advs) = n /\ u.advs[i] = c.advance
    BY CharsAre, UpdatedIs
  <1>3. /\ IsPen(old) /\ ~old.broken
        /\ EachIsPut(str, old.printed, i - 1) /\ EachFits(str, w, old.printed, i - 1)
        /\ EachFollows(str, w, old.printed) /\ NextFollows(str, w, old, i - 1)
    BY DEF PenInv
  <1>4. /\ old.x \in Nat /\ old.row \in Nat /\ many \in Nat
        /\ old.printed \in Seq([i : Nat, x : Nat, row : Nat])
        /\ \A k \in 1..many : /\ old.printed[k].i \in Nat /\ old.printed[k].x \in Nat
                              /\ old.printed[k].row \in Nat
    <2> DEFINE S == [i : Nat, x : Nat, row : Nat]
    <2>1. old.x \in Nat /\ old.row \in Nat /\ old.printed \in Seq(S)
      BY <1>3 DEF IsPen
    <2> DEFINE s == old.printed
    <2> HIDE DEF S, s
    <2>2. Len(s) \in Nat /\ \A k \in 1..Len(s) : s[k] \in S
      BY <2>1 DEF s
    <2> QED
      BY <2>1, <2>2 DEF S, s
  <1>5. Moved(u, w, old, new, i, c)
    <2> HIDE DEF u, c
    <2> QED
      BY <1>1, <1>2, <1>3, SteppedIs
  <1>6. /\ IsPen(new) /\ ~new.broken /\ new.seg = NextSeg(u, old, i)
        /\ B => new.row = old.row + 1 /\ at = 0
        /\ ~B => new.row = old.row /\ at = old.x
        /\ P => new.x = at + c.advance /\ new.printed = Append(old.printed, this)
        /\ ~P => new.x = at /\ new.printed = old.printed
    BY <1>5 DEF Moved, At
  <1>7. /\ w # 0 /\ c.newline => B
        /\ w # 0 /\ ~B => old.x + c.advance < w
        /\ w = 0 => P /\ ~B
        /\ w # 0 /\ P => c.prints
        /\ c.prints /\ ~c.space => P
    <2>1. w # 0 /\ ~B => old.x + c.advance < w
      BY <1>2, <1>4 DEF BreaksLine
    <2> QED
      BY <1>2, <2>1 DEF BreaksLine, IsPut
  <1>8. InSegment(u, new, i)
    <2>1. i > 1 => InSegment(Updated(str), old, i - 1)
      BY <1>1 DEF PenInv
    <2>2. /\ NextSeg(u, old, i) \in 1..Len(u.segs)
          /\ After(u.segs, NextSeg(u, old, i), i) /\ i <= u.segs[NextSeg(u, old, i)]
      BY <1>3, <2>1, NextInSegment
    <2> QED
      BY <1>6, <2>2 DEF InSegment
  <1>9. at \in Nat /\ new.row \in Nat
    BY <1>4, <1>6
  <1> HIDE DEF u, new, B, P, at, many, l
  <1>10. P => /\ Len(new.printed) = many + 1 /\ new.printed[many + 1] = this
              /\ \A k \in 1..many : new.printed[k] = old.printed[k]
    <2> DEFINE S == [i : Nat, x : Nat, row : Nat]
               s == old.printed
    <2>1. this \in S
      BY <1>1, <1>9
    <2>2. s \in Seq(S) /\ Len(s) = many
      BY <1>4 DEF many
    <2> HIDE DEF S, this, s
    <2>3. /\ Len(Append(s, this)) = many + 1 /\ Append(s, this)[many + 1] = this
          /\ \A k \in 1..many : Append(s, this)[k] = s[k]
      BY <2>1, <2>2, AppendProperties
    <2> QED
      <3>1. P => new.printed = Append(s, this)
        BY <1>6 DEF s
      <3>2. \A k \in 1..many : s[k] = old.printed[k]
        BY DEF s
      <3> QED
        BY <2>3, <3>1, <3>2
  <1>11. this.i = i /\ this.x = at /\ this.row = new.row
    OBVIOUS
  <1> HIDE DEF this
  <1>12. \A j \in 1..i : j \in 1..(i - 1) \/ j = i
    BY <1>1
  <1>13. \A k \in 1..(many + 1) : k \in 1..many \/ k = many + 1
    BY <1>4
  <1>14. 1..many \subseteq 1..(many + 1) /\ many + 1 \in 1..(many + 1)
    BY <1>4
  <1>15. EachIsPut(str, new.printed, i)
    <2> SUFFICES ASSUME NEW j \in 1..i, str[j].prints, ~str[j].space
                 PROVE  \E k \in 1..Len(new.printed) : new.printed[k].i = j
      BY DEF EachIsPut
    <2>1. CASE j = i
      <3>1. P
        BY <1>7, <2>1 DEF c
      <3> QED
        BY <1>10, <1>11, <1>14, <2>1, <3>1
    <2>2. CASE j \in 1..(i - 1)
      <3>1. PICK k \in 1..many : old.printed[k].i = j
        BY <1>3, <2>2 DEF EachIsPut, many
      <3>2. CASE P
        BY <1>10, <1>14, <3>1, <3>2
      <3>3. CASE ~P
        BY <1>6, <3>1, <3>3 DEF many
      <3> QED
        BY <3>2, <3>3
    <2> QED
      BY <1>12, <2>1, <2>2
  <1>16. EachFits(str, w, new.printed, i)
    <2>1. ASSUME NEW k \in 1..many
          PROVE  /\ old.printed[k].i \in 1..i
                 /\ w # 0 => /\ str[old.printed[k].i].prints
                             /\ old.printed[k].x = 0 \/ old.printed[k].x + str[old.printed[k].i].advance < w
      <3>1. old.printed[k].i \in 1..(i - 1)
        BY <1>3 DEF EachFits, many
      <3>2. old.printed[k].i \in 1..i
        BY <1>1, <3>1
      <3> QED
        BY <1>3, <3>2 DEF EachFits, many
    <2>2. CASE P
      <3>1. /\ this.i \in 1..i
            /\ w # 0 => str[this.i].prints /\ (this.x = 0 \/ this.x + str[this.i].advance < w)
        BY <1>1, <1>6, <1>7, <1>11, <2>2 DEF c
      <3> QED
        BY <1>10, <1>13, <2>1, <2>2, <3>1 DEF EachFits
    <2>3. CASE ~P
      BY <1>6, <2>1, <2>3 DEF EachFits, many
    <2> QED
      BY <2>2, <2>3
  <1>17. ASSUME many # 0
         PROVE  /\ l.i \in 1..(i - 1) /\ l.row \in Nat /\ l.x \in Nat
                /\ w # 0 => str[l.i].prints
                /\ \/ old.row = l.row /\ old.x = l.x + str[l.i].advance
                   \/ old.row > l.row /\ old.x = 0
                /\ w # 0 /\ (\E j \in l.i..(i - 1) : str[j].newline) => old.row > l.row
    <2>1. many \in 1..many /\ old.printed # <<>>
      BY <1>4, <1>17 DEF many
    <2> QED
      BY <1>3, <1>4, <2>1 DEF EachFits, NextFollows, l, many
  <1>18. many # 0 => Follows(str, w, l, i, at, new.row) \/ ~P
    <2> SUFFICES ASSUME many # 0, P PROVE Follows(str, w, l, i, at, new.row)
      OBVIOUS
    <2>1. l.i < i
      BY <1>1, <1>17
    <2>2. \/ new.row = l.row /\ at = l.x + str[l.i].advance
          \/ new.row > l.row /\ at = 0
      BY <1>4, <1>6, <1>17
    <2>3. ASSUME w # 0, NEW j \in l.i..i, str[j].newline PROVE new.row > l.row
      <3>1. j # i
        BY <1>2, <1>7, <2>3 DEF c
      <3>2. j \in l.i..(i - 1)
        BY <1>1, <1>17, <3>1
      <3>3. old.row > l.row
        BY <1>17, <2>3, <3>2
      <3> QED
        BY <1>4, <1>6, <1>17, <3>3
    <2> QED
      BY <2>1, <2>2, <2>3 DEF Follows
  <1>19. EachFollows(str, w, new.printed)
    <2>1. CASE P
      <3> SUFFICES ASSUME NEW k \in 1..(many + 1), k > 1
                   PROVE  Follows(str, w, new.printed[k - 1], new.printed[k].i, new.printed[k].x,
                                  new.printed[k].row)
        BY <1>10, <2>1 DEF EachFollows
      <3>1. CASE k \in 1..many
        <4>1. k - 1 \in 1..many
          BY <1>4, <3>1
        <4>2. new.printed[k] = old.printed[k] /\ new.printed[k - 1] = old.printed[k - 1]
          BY <1>10, <2>1, <3>1, <4>1
        <4>3. Follows(str, w, old.printed[k - 1], old.printed[k].i, old.printed[k].x, old.printed[k].row)
          BY <1>3, <3>1 DEF EachFollows, many
        <4> QED
          BY <4>2, <4>3
      <3>2. CASE k = many + 1
        <4>1. many # 0 /\ k - 1 = many /\ many \in 1..many
          BY <1>4, <3>2
        <4>2. new.printed[k] = this /\ new.printed[k - 1] = l
          BY <1>10, <2>1, <3>2, <4>1 DEF l
        <4> QED
          BY <1>11, <1>18, <2>1, <4>1, <4>2
      <3> QED
        BY <1>13, <3>1, <3>2
    <2>2. CASE ~P
      BY <1>3, <1>6, <2>2
    <2> QED
      BY <2>1, <2>2
  <1>20. NextFollows(str, w, new, i)
    <2>1. CASE P
      <3>1. new.printed[Len(new.printed)] = this
        BY <1>10, <2>1
      <3>2. new.row = this.row /\ new.x = this.x + str[this.i].advance
        BY <1>6, <1>11, <2>1 DEF c
      <3>3. ~(w # 0 /\ \E j \in this.i..i : str[j].newline)
        <4>1. \A j \in this.i..i : j = i
          BY <1>1, <1>11
        <4> QED
          BY <1>2, <1>7, <2>1, <4>1 DEF c
      <3> QED
        BY <3>1, <3>2, <3>3 DEF NextFollows
    <2>2. CASE ~P
      <3> SUFFICES ASSUME old.printed # <<>>
                   PROVE  /\ \/ new.row = l.row /\ new.x = l.x + str[l.i].advance
                             \/ new.row > l.row /\ new.x = 0
                          /\ w # 0 /\ (\E j \in l.i..i : str[j].newline) => new.row > l.row
        BY <1>6, <2>2 DEF NextFollows, l, many
      <3>1. many # 0
        BY <1>4 DEF many
      <3>2. \/ new.row = l.row /\ new.x = l.x + str[l.i].advance
            \/ new.row > l.row /\ new.x = 0
        BY <1>4, <1>6, <1>17, <2>2, <3>1
      <3>3. ASSUME w # 0, NEW j \in l.i..i, str[j].newline PROVE new.row > l.row
        <4>1. CASE j = i
          <5>1. B
            BY <1>7, <3>3, <4>1 DEF c
          <5> QED
            BY <1>4, <1>6, <1>17, <3>1, <5>1
        <4>2. CASE j # i
          <5>1. j \in l.i..(i - 1)
            BY <1>1, <1>17, <3>1, <4>2
          <5>2. old.row > l.row
            BY <1>17, <3>1, <3>3, <5>1
          <5> QED
            BY <1>4, <1>6, <1>17, <3>1, <5>2
        <4> QED
          BY <4>1, <4>2
      <3> QED
        BY <3>2, <3>3
    <2> QED
      BY <2>1, <2>2
  <1>21. PenInv(str, w, new, i)
    BY <1>6, <1>8, <1>15, <1>16, <1>19, <1>20 DEF PenInv, u
  <1> QED
    BY <1>5, <1>21 DEF u, new

\* Where the pen was when a character was printed, is the row it is printed in.
RowsAre(str, w, old) ==
    \A k \in 1..Len(old.printed) : old.printed[k].row = Pens(str, w)[old.printed[k].i].row

\* All of them keep what is known of the characters that have been printed.
LEMMA PensHold ==
    ASSUME NEW str, NEW n, IsText(str, n), \A j \in 1..n : str[j].loads, NEW w \in Int
    PROVE  /\ Pens(str, w)[0] = Pen
           /\ \A i \in 0..n : PenInv(str, w, Pens(str, w)[i], i) /\ RowsAre(str, w, Pens(str, w)[i])
           /\ \A i \in 1..n : Moved(Updated(str), w, Pens(str, w)[i - 1], Pens(str, w)[i], i, str[i])
  <1> DEFINE at == Pens(str, w)
             u == Updated(str)
             J == {i \in Nat : i <= n =>
                        /\ PenInv(str, w, at[i], i) /\ RowsAre(str, w, at[i])
                        /\ i = 0 => at[i].seg = 1
                        /\ i > 0 => Moved(u, w, at[i - 1], at[i], i, str[i])}
  <1>1. n \in Nat /\ Len(str) = n
    BY DEF IsText
  <1>2. /\ at[0] = Pen
        /\ \A i \in 1..n : at[i] = Stepped(u, w, at[i - 1], i, str[i])
    BY <1>1, PensAre
  <1>3. 0 \in J
    <2>1. IsPen(Pen) /\ ~Pen.broken /\ Pen.printed = <<>> /\ Pen.seg = 1 /\ Len(<<>>) = 0
      BY DEF Pen, IsPen
    <2>2. \A j \in 1..0 : FALSE
      OBVIOUS
    <2>3. PenInv(str, w, Pen, 0) /\ RowsAre(str, w, Pen)
      BY <2>1, <2>2 DEF PenInv, EachIsPut, EachFits, EachFollows, NextFollows, RowsAre
    <2> QED
      BY <1>2, <2>1, <2>3
  <1>4. ASSUME NEW h \in Nat, h \in J PROVE h + 1 \in J
    <2> DEFINE i == h + 1
    <2> SUFFICES ASSUME i <= n
                 PROVE  /\ PenInv(str, w, at[i], i) /\ RowsAre(str, w, at[i])
                        /\ Moved(u, w, at[i - 1], at[i], i, str[i])
      OBVIOUS
    <2>1. i \in 1..n /\ i - 1 = h /\ h <= n /\ (i = 1 => h = 0)
      BY <1>1
    <2> DEFINE old == at[h]
               new == at[i]
    <2>2. PenInv(str, w, old, h) /\ RowsAre(str, w, old) /\ (i = 1 => old.seg = 1)
      BY <1>4, <2>1
    <2>3. new = Stepped(u, w, old, i, str[i])
      BY <1>2, <2>1
    <2> HIDE DEF at, i, u
    <2>4. PenInv(str, w, new, i) /\ Moved(u, w, old, new, i, str[i])
      <3> HIDE DEF old, new
      <3>1. PenInv(str, w, old, i - 1)
        BY <2>1, <2>2
      <3>2. PenInv(str, w, Stepped(Updated(str), w, old, i, str[i]), i)
            /\ Moved(Updated(str), w, old, Stepped(Updated(str), w, old, i, str[i]), i, str[i])
        BY <2>1, <2>2, <3>1, PenStep
      <3> QED
        BY <2>3, <3>2 DEF u
    <2>5. RowsAre(str, w, new)
      <3> DEFINE this == [i |-> i, x |-> At(u, w, old, i, str[i]), row |-> new.row]
                 many == Len(old.printed)
                 S == [i : Nat, x : Nat, row : Nat]
      <3>1. new.printed = Append(old.printed, this) \/ new.printed = old.printed
        BY <2>4 DEF Moved
      <3>2. CASE new.printed = old.printed
        BY <2>2, <3>2 DEF RowsAre
      <3>3. CASE new.printed = Append(old.printed, this)
        <4>1. IsPen(old) /\ IsPen(new)
          BY <2>2, <2>4 DEF PenInv
        <4>2. old.printed \in Seq(S) /\ many \in Nat /\ new.printed \in Seq(S)
          BY <4>1 DEF IsPen
        <4> DEFINE s == old.printed
        <4>3. s \in Seq(S) /\ Len(s) = many /\ new.printed = Append(s, this)
          BY <3>3, <4>2
        <4>4. this.i = i /\ this.row = at[i].row
          BY DEF new
        <4> HIDE DEF s, this, S, many, new, old
        <4>5. /\ Len(Append(s, this)) = many + 1 /\ Append(s, this)[many + 1] = this
              /\ \A k \in 1..many : Append(s, this)[k] = s[k]
          <5>1. s \in Seq(S \cup {this}) /\ this \in S \cup {this}
            BY <4>3
          <5> DEFINE T == S \cup {this}
          <5> HIDE DEF T
          <5>2. s \in Seq(T) /\ this \in T
            BY <5>1 DEF T
          <5> QED
            BY <4>3, <5>2, AppendProperties
        <4>6. ASSUME NEW k \in 1..(many + 1) PROVE new.printed[k].row = at[new.printed[k].i].row
          <5>1. k \in 1..many \/ k = many + 1
            BY <4>2
          <5>2. CASE k = many + 1
            BY <4>3, <4>4, <4>5, <5>2
          <5>3. CASE k \in 1..many
            <6>1. new.printed[k] = s[k]
              BY <4>3, <4>5, <5>3
            <6>2. s[k].row = at[s[k].i].row
              BY <2>2, <5>3 DEF RowsAre, s, many, at
            <6> QED
              BY <6>1, <6>2
          <5> QED
            BY <5>1, <5>2, <5>3
        <4>7. Len(new.printed) = many + 1
          BY <4>3, <4>5
        <4> QED
          BY <4>6, <4>7 DEF RowsAre, at
      <3> QED
        BY <3>1, <3>2, <3>3
    <2> QED
      BY <2>1, <2>4, <2>5
  <1>5. Nat \subseteq J
    <2> HIDE DEF J
    <2> QED
      BY <1>3, <1>4, SetInduction
  <1>6. \A i \in 0..n : PenInv(str, w, at[i], i) /\ RowsAre(str, w, at[i])
    BY <1>1, <1>5
  <1>7. \A i \in 1..n : Moved(u, w, at[i - 1], at[i], i, str[i])
    <2>1. \A i \in 1..n : i \in Nat /\ i > 0 /\ i <= n
      BY <1>1
    <2> HIDE DEF at
    <2> QED
      BY <1>5, <2>1
  <1> QED
    BY <1>2, <1>6, <1>7

\* From a to b there is a word.
IsWord(str, n, a, b) ==
    /\ a \in 1..n /\ b \in 1..n /\ a <= b /\ \A j \in a..b : ~str[j].breaks
    /\ a = 1 \/ str[a - 1].breaks
    /\ b = n \/ str[b + 1].breaks

\* A word with the breakpoint before it, if there is one, is what is measured of a segment.
LEMMA SegmentOfWord ==
    ASSUME NEW str, NEW n, IsText(str, n), \A j \in 1..n : str[j].loads,
           NEW a, NEW b, IsWord(str, n, a, b),
           NEW s \in 1..Len(Updated(str).segs),
           After(Updated(str).segs, s, a), a <= Updated(str).segs[s]
    PROVE  /\ Updated(str).segWs[s] = Width(str, Max({a - 1, 1}), b)
           /\ a > 1 => s > 1 /\ Updated(str).segs[s - 1] = a - 1
  <1> DEFINE segs == Updated(str).segs
             segWs == Updated(str).segWs
             q == Len(segs)
             W == Widths(str)
  <1>1. /\ n \in Nat /\ a \in 1..n /\ b \in 1..n /\ a <= b
        /\ \A j \in a..b : ~str[j].breaks
        /\ a = 1 \/ str[a - 1].breaks
        /\ b = n \/ str[b + 1].breaks
    BY DEF IsWord, IsText
  <1>2. /\ q \in Nat \ {0} /\ segs[q] = n
        /\ \A t \in 1..(q - 1) : segs[t] \in 1..n /\ str[segs[t]].breaks
    BY UpdatedIs DEF EndsAre
  <1>3. \A j \in 1..n : After(segs, s, j) /\ (j < segs[s] \/ s = q) => ~str[j].breaks
    BY UpdatedIs DEF Unbroken
  <1>4. segWs[s] = (IF s = q THEN W[n] ELSE W[segs[s] - 1]) - Before(str, segs, s)
    BY UpdatedIs DEF SegmentWidths
  <1>5. s \in 1..q /\ After(segs, s, a) /\ a <= segs[s]
    OBVIOUS
  <1> HIDE DEF segs, segWs, q, W
  <1>6. s # 1 => s - 1 \in 1..(q - 1) /\ segs[s - 1] \in 1..n /\ segs[s - 1] < a
    <2> SUFFICES ASSUME s # 1 PROVE s - 1 \in 1..(q - 1) /\ segs[s - 1] \in 1..n /\ segs[s - 1] < a
      OBVIOUS
    <2>1. s - 1 \in 1..(q - 1)
      BY <1>2, <1>5
    <2>2. segs[s - 1] < a
      BY <1>5 DEF After
    <2> QED
      BY <1>2, <2>1, <2>2
  <1>7. ASSUME NEW j \in 1..n, a <= j PROVE After(segs, s, j)
    <2>1. CASE s = 1
      BY <2>1 DEF After
    <2>2. CASE s # 1
      <3>1. segs[s - 1] < j
        <4> DEFINE e == segs[s - 1]
        <4>1. e \in 1..n /\ e < a
          BY <1>6, <2>2
        <4> HIDE DEF e
        <4>2. e < j
          BY <1>1, <1>7, <4>1
        <4> QED
          BY <4>2 DEF e
      <3> QED
        BY <3>1 DEF After
    <2> QED
      BY <2>1, <2>2
  <1>8. (IF s = q THEN W[n] ELSE W[segs[s] - 1]) = W[b]
    <2>1. CASE s = q
      <3>1. b = n
        <4> SUFFICES ASSUME b # n PROVE FALSE
          OBVIOUS
        <4>1. b + 1 \in 1..n /\ str[b + 1].breaks /\ a <= b + 1
          BY <1>1
        <4> DEFINE j == b + 1
        <4> HIDE DEF j
        <4>2. ~str[j].breaks
          BY <1>3, <1>7, <2>1, <4>1 DEF j
        <4> QED
          BY <4>1, <4>2 DEF j
      <3> QED
        BY <2>1, <3>1
    <2>2. CASE s # q
      <3> DEFINE e == segs[s]
      <3>1. e \in 1..n /\ str[e].breaks
        <4>1. s \in 1..(q - 1)
          BY <1>2, <1>5, <2>2
        <4> QED
          BY <1>2, <4>1
      <3>2. a <= e
        BY <1>5
      <3> HIDE DEF e
      <3>3. b < e
        <4>1. e \notin a..b
          BY <1>1, <3>1
        <4> QED
          BY <1>1, <3>1, <3>2, <4>1
      <3>4. ~(b + 1 < e)
        <4> SUFFICES ASSUME b + 1 < e PROVE FALSE
          OBVIOUS
        <4> DEFINE j == b + 1
        <4>1. j \in 1..n /\ str[j].breaks /\ a <= j /\ j < e
          BY <1>1, <3>1
        <4> HIDE DEF j
        <4>2. ~str[j].breaks
          BY <1>3, <1>7, <4>1 DEF e
        <4> QED
          BY <4>1, <4>2
      <3>5. e - 1 = b
        BY <1>1, <3>1, <3>3, <3>4
      <3> QED
        BY <2>2, <3>5 DEF e
    <2> QED
      BY <2>1, <2>2
  <1>9. CASE a = 1
    <2>1. s = 1
      <3> SUFFICES ASSUME s # 1 PROVE FALSE
        OBVIOUS
      <3> DEFINE e == segs[s - 1]
      <3>1. e \in 1..n /\ e < 1
        BY <1>6, <1>9
      <3> HIDE DEF e
      <3> QED
        BY <3>1
    <2>2. Before(str, segs, s) = W[0]
      BY <2>1, WidthsAre DEF Before, W
    <2>3. Max({a - 1, 1}) = 1
      <3>1. a - 1 \in Int /\ a - 1 = 0
        BY <1>9
      <3> QED
        BY <3>1, MaxIs
    <2>4. Width(str, 1, b) = W[b] - W[0]
      BY DEF Width, W
    <2> QED
      BY <1>4, <1>8, <1>9, <2>2, <2>3, <2>4 DEF segWs
  <1>10. CASE a # 1
    <2> DEFINE k == a - 1
    <2>1. k \in 1..n /\ k < a /\ str[k].breaks /\ a > 1 /\ k \in Int /\ k >= 1
      BY <1>1, <1>10
    <2> HIDE DEF k
    <2>2. ~After(segs, s, k)
      <3> SUFFICES ASSUME After(segs, s, k) PROVE FALSE
        OBVIOUS
      <3>1. k < segs[s] \/ s = q
        <4>1. CASE s # q
          <5>1. s \in 1..(q - 1)
            BY <1>2, <1>5, <4>1
          <5> DEFINE e == segs[s]
          <5>2. e \in 1..n /\ a <= e
            BY <1>2, <1>5, <5>1
          <5> HIDE DEF e
          <5>3. k < e
            BY <1>1, <2>1, <5>2
          <5> QED
            BY <5>3 DEF e
        <4> QED
          BY <4>1
      <3> QED
        BY <1>3, <2>1, <3>1
    <2>3. s # 1 /\ ~(segs[s - 1] < k)
      BY <2>2 DEF After
    <2>4. segs[s - 1] = k
      <3> DEFINE e == segs[s - 1]
      <3>1. e \in 1..n /\ e < a /\ ~(e < k)
        BY <1>6, <2>3
      <3> HIDE DEF e
      <3>2. e = k
        BY <1>1, <2>1, <3>1 DEF k
      <3> QED
        BY <3>2 DEF e
    <2>5. Before(str, segs, s) = W[k - 1]
      BY <2>3, <2>4 DEF Before, W
    <2>6. Max({a - 1, 1}) = k
      <3>1. Max({k, 1}) = k
        BY <2>1, MaxIs
      <3> QED
        BY <3>1 DEF k
    <2>7. Width(str, k, b) = W[b] - W[k - 1]
      BY DEF Width, W
    <2>8. s > 1
      BY <1>5, <2>3, <1>2
    <2>9. segWs[s] = Width(str, Max({a - 1, 1}), b)
      BY <1>4, <1>8, <2>5, <2>6, <2>7
    <2> QED
      BY <2>4, <2>8, <2>9 DEF segs, segWs, k
  <1> QED
    BY <1>9, <1>10

\* A word that fits with the breakpoint before it stays in the line it begins in.
LEMMA WordStays ==
    ASSUME NEW str, NEW n, IsText(str, n), \A j \in 1..n : str[j].loads, NEW w \in Int, w # 0,
           NEW a, NEW b, IsWord(str, n, a, b), Width(str, Max({a - 1, 1}), b) < w
    PROVE  \A i \in a..b : Pens(str, w)[i].row = Pens(str, w)[a].row
  <1> DEFINE at == Pens(str, w)
             u == Updated(str)
             segs == u.segs
             q == Len(segs)
             W == Widths(str)
             wide == Width(str, Max({a - 1, 1}), b)
             J == {d \in Nat : a + d <= b =>
                        at[a + d].row = at[a].row /\ at[a + d].x + (W[b] - W[a + d]) < w}
  <1>1. /\ n \in Nat /\ a \in 1..n /\ b \in 1..n /\ a <= b
        /\ \A j \in a..b : ~str[j].breaks
    BY DEF IsWord, IsText
  <1>2. /\ at[0] = Pen
        /\ \A i \in 0..n : PenInv(str, w, at[i], i)
        /\ \A i \in 1..n : Moved(u, w, at[i - 1], at[i], i, str[i])
    BY PensHold
  <1>3. /\ \A i \in 1..n : W[i] = W[i - 1] + str[i].advance
        /\ \A i \in 0..n : W[i] \in Nat
        /\ \A i, j \in 0..n : i <= j => W[i] <= W[j]
    BY WidthsAre
  <1>4. \A i \in 1..n : /\ InSegment(u, at[i], i)
                        /\ at[i].x \in Nat /\ at[i].row \in Nat /\ at[i].seg \in Nat
    <2> SUFFICES ASSUME NEW i \in 1..n
                 PROVE  /\ InSegment(u, at[i], i)
                        /\ at[i].x \in Nat /\ at[i].row \in Nat /\ at[i].seg \in Nat
      OBVIOUS
    <2>1. i > 0 /\ PenInv(str, w, at[i], i)
      BY <1>1, <1>2
    <2> DEFINE p == at[i]
    <2> HIDE DEF at, p
    <2>2. InSegment(u, p, i) /\ IsPen(p)
      BY <2>1 DEF PenInv, p
    <2> QED
      BY <2>2 DEF IsPen, p
  <1>5. /\ q \in Nat \ {0} /\ segs[q] = n
        /\ \A s \in 1..(q - 1) : segs[s] \in 1..n /\ str[segs[s]].breaks
    BY UpdatedIs DEF EndsAre
  <1>6. \A i \in 1..n : u.advs[i] = str[i].advance
    BY UpdatedIs
  <1>7. at[0].x = 0
    BY <1>2 DEF Pen
  <1>8. wide < w
    OBVIOUS
  <1> HIDE DEF at, u, W, wide, segs, q
  <1>9. W[b] - W[a - 1] <= wide
    <2> DEFINE from == Max({a - 1, 1})
    <2>1. from = IF a - 1 >= 1 THEN a - 1 ELSE 1
      BY <1>1, MaxIs
    <2>2. from - 1 \in 0..n /\ a - 1 \in 0..n /\ b \in 0..n /\ from - 1 <= a - 1
      BY <1>1, <2>1
    <2> HIDE DEF from
    <2>3. wide = W[b] - W[from - 1]
      BY DEF wide, from, Width, W
    <2> DEFINE e == from - 1
               f == a - 1
    <2>4. e \in 0..n /\ f \in 0..n /\ e <= f
      BY <2>2
    <2> HIDE DEF e, f
    <2>5. W[e] <= W[f] /\ W[e] \in Nat /\ W[f] \in Nat /\ W[b] \in Nat
      BY <1>3, <2>2, <2>4
    <2>6. W[b] - W[f] <= W[b] - W[e]
      BY <2>5
    <2> QED
      BY <2>3, <2>6 DEF e, f
  <1>10. ASSUME NEW i \in 1..n
         PROVE  /\ at[i].seg = NextSeg(u, at[i - 1], i)
                /\ BreaksLine(u, w, at[i - 1], i, str[i]) => at[i].x <= str[i].advance
                /\ ~BreaksLine(u, w, at[i - 1], i, str[i]) =>
                        at[i].row = at[i - 1].row /\ at[i].x <= at[i - 1].x + str[i].advance
    <2> DEFINE old == at[i - 1]
               new == at[i]
               c == str[i]
    <2>1. Moved(u, w, old, new, i, c)
      BY <1>2
    <2>2. c.advance \in Nat
      BY CharsAre
    <2>3. new.x \in Nat /\ old.x \in Nat
      <3>1. CASE i = 1
        BY <1>4, <1>7, <3>1
      <3>2. CASE i # 1
        <4> DEFINE h == i - 1
        <4>1. h \in 1..n
          BY <1>1, <3>2
        <4> HIDE DEF h
        <4>2. at[h].x \in Nat
          BY <1>4, <4>1
        <4> QED
          BY <1>4, <4>2 DEF h
      <3> QED
        BY <3>1, <3>2
    <2> HIDE DEF old, new, c
    <2>4. /\ BreaksLine(u, w, old, i, c) => At(u, w, old, i, c) = 0
          /\ ~BreaksLine(u, w, old, i, c) => At(u, w, old, i, c) = old.x /\ new.row = old.row
          /\ new.x = At(u, w, old, i, c) + c.advance \/ new.x = At(u, w, old, i, c)
          /\ new.seg = NextSeg(u, old, i)
      BY <2>1 DEF Moved, At
    <2>5. BreaksLine(u, w, old, i, c) => new.x <= c.advance
      BY <2>2, <2>3, <2>4
    <2>6. ~BreaksLine(u, w, old, i, c) => new.row = old.row /\ new.x <= old.x + c.advance
      BY <2>2, <2>3, <2>4
    <2> QED
      BY <2>4, <2>5, <2>6 DEF old, new, c
  <1>11. at[a].x + (W[b] - W[a]) < w
    <2> DEFINE h == a - 1
               old == at[h]
               adv == str[a].advance
    <2>1. h \in 0..n /\ (a # 1 => h \in 1..n /\ a > 1) /\ (a = 1 => h = 0)
      BY <1>1
    <2>2. adv \in Nat /\ W[a] = W[h] + adv /\ W[h] \in Nat /\ W[a] \in Nat /\ W[b] \in Nat
      <3>1. a \in 1..n /\ a \in 0..n /\ b \in 0..n
        BY <1>1
      <3>2. adv \in Nat
        BY <3>1, CharsAre
      <3> QED
        BY <1>3, <2>1, <3>1, <3>2
    <2>3. W[b] - W[h] <= wide /\ wide \in Int
      <3>1. wide \in Int
        <4> DEFINE from == Max({a - 1, 1})
        <4>1. from = IF a - 1 >= 1 THEN a - 1 ELSE 1
          BY <1>1, MaxIs
        <4>2. from - 1 \in 0..n
          BY <1>1, <4>1
        <4> HIDE DEF from
        <4>3. wide = W[b] - W[from - 1]
          BY DEF wide, from, Width, W
        <4>4. W[from - 1] \in Nat
          BY <1>3, <4>2
        <4> QED
          BY <2>2, <4>3, <4>4
      <3> QED
        BY <1>9, <3>1
    <2>4. at[a].x \in Nat
      BY <1>1, <1>4
    <2>5. CASE BreaksLine(u, w, old, a, str[a])
      <3>1. at[a].x <= adv
        BY <1>1, <1>10, <2>5
      <3> HIDE DEF h, adv
      <3> QED
        BY <1>8, <2>2, <2>3, <2>4, <3>1
    <2>6. CASE ~BreaksLine(u, w, old, a, str[a]) /\ a = 1
      <3>1. at[a].x <= at[0].x + adv /\ h = 0
        BY <1>1, <1>10, <2>1, <2>6
      <3> HIDE DEF h, adv
      <3>2. at[a].x <= adv
        BY <1>7, <2>2, <3>1
      <3> QED
        BY <1>8, <2>2, <2>3, <2>4, <3>2
    <2>7. CASE ~BreaksLine(u, w, old, a, str[a]) /\ a # 1
      <3> DEFINE s == at[a].seg
      <3>1. s = NextSeg(u, old, a) /\ at[a].x <= old.x + adv
        BY <1>1, <1>10, <2>7
      <3>2. s \in 1..q /\ After(segs, s, a) /\ a <= segs[s]
        BY <1>1, <1>4 DEF InSegment, segs, q
      <3>3. u.segWs[s] = wide /\ s > 1 /\ segs[s - 1] = a - 1
        <4> HIDE DEF s, h
        <4> QED
          BY <2>1, <2>7, <3>2, SegmentOfWord DEF u, segs, q, wide
      <3>4. InSegment(u, old, h) /\ old.x \in Nat
        BY <1>4, <2>1, <2>7
      <3>5. Onward(u, old, a)
        <4> SUFFICES ASSUME ~Onward(u, old, a) PROVE FALSE
          OBVIOUS
        <4>1. s = old.seg
          BY <3>1 DEF NextSeg
        <4>2. segs[s - 1] < h
          BY <3>3, <3>4, <4>1 DEF InSegment, After, segs
        <4> QED
          BY <1>1, <3>3, <4>2
      <3>6. ~(old.x + u.segWs[s] >= w /\ u.segWs[s] < w)
        BY <2>7, <3>1, <3>5 DEF BreaksLine
      <3>7. old.x + wide < w
        BY <1>8, <2>3, <3>3, <3>4, <3>6
      <3> HIDE DEF h, adv, old
      <3> QED
        BY <2>2, <2>3, <2>4, <3>1, <3>4, <3>7
    <2> QED
      BY <2>5, <2>6, <2>7
  <1>12. 0 \in J
    <2>1. a + 0 = a
      BY <1>1
    <2> QED
      BY <1>11, <2>1
  <1>13. ASSUME NEW d \in Nat, d \in J PROVE d + 1 \in J
    <2> DEFINE h == a + d
               i == h + 1
               old == at[h]
               adv == str[i].advance
    <2>1. a + (d + 1) = i
      BY <1>1
    <2> SUFFICES ASSUME i <= b PROVE at[i].row = at[a].row /\ at[i].x + (W[b] - W[i]) < w
      BY <2>1
    <2>2. h \in a..b /\ h \in 1..n /\ i \in a..b /\ i \in 1..n /\ i - 1 = h /\ h <= b /\ h < n
      BY <1>1
    <2>3. old.row = at[a].row /\ old.x + (W[b] - W[h]) < w
      BY <1>13, <2>2
    <2> HIDE DEF h, i
    <2>4. adv \in Nat /\ W[i] = W[h] + adv /\ W[h] \in Nat /\ W[i] \in Nat /\ W[b] \in Nat /\ W[i] <= W[b]
      <3>1. i \in 0..n /\ h \in 0..n /\ b \in 0..n /\ i <= b
        BY <1>1, <2>2
      <3>2. adv \in Nat
        BY <2>2, CharsAre
      <3>3. W[i] = W[i - 1] + adv
        BY <1>3, <2>2
      <3> QED
        BY <1>3, <2>2, <3>1, <3>2, <3>3
    <2>5. old.x \in Nat /\ at[i].x \in Nat /\ InSegment(u, old, h)
      BY <1>4, <2>2
    <2>6. ~Onward(u, old, i)
      <3> DEFINE s == old.seg
                 e == segs[s]
      <3>1. s \in 1..q /\ h <= e
        BY <2>5 DEF InSegment, segs, q
      <3>2. Onward(u, old, i) <=> i > e
        BY DEF Onward, segs
      <3>3. CASE s = q
        <4>1. e = n
          BY <1>5, <3>3
        <4> HIDE DEF e
        <4> QED
          BY <1>1, <2>2, <3>2, <4>1
      <3>4. CASE s # q
        <4>1. s \in 1..(q - 1)
          BY <1>5, <3>1, <3>4
        <4>2. e \in 1..n /\ str[e].breaks
          BY <1>5, <4>1
        <4> HIDE DEF e
        <4>3. e # h
          BY <1>1, <2>2, <4>2
        <4>4. ~(i > e)
          BY <2>2, <3>1, <4>2, <4>3 DEF i
        <4> QED
          BY <3>2, <4>4
      <3> QED
        BY <3>3, <3>4
    <2>7. old.x + adv < w
      BY <2>3, <2>4, <2>5
    <2>8. ~str[i].newline
      BY <1>1, <2>2, CharsAre
    <2>9. ~BreaksLine(u, w, old, i, str[i])
      <3>1. u.advs[i] = adv
        BY <1>6, <2>2
      <3>2. ~(old.x + u.advs[i] >= w)
        BY <2>4, <2>5, <2>7, <3>1
      <3> QED
        BY <2>6, <2>8, <3>2 DEF BreaksLine
    <2>10. at[i].row = old.row /\ at[i].x <= old.x + adv
      BY <1>10, <2>2, <2>9
    <2>11. at[i].x + (W[b] - W[i]) < w
      <3> HIDE DEF old, adv
      <3> QED
        BY <2>3, <2>4, <2>5, <2>10
    <2> QED
      BY <2>3, <2>10, <2>11
  <1>14. Nat \subseteq J
    <2> HIDE DEF J
    <2> QED
      BY <1>12, <1>13, SetInduction
  <1>15. ASSUME NEW i \in a..b PROVE at[i].row = at[a].row
    <2> DEFINE d == i - a
    <2>1. d \in Nat /\ a + d = i /\ i <= b
      BY <1>1
    <2> HIDE DEF d
    <2> QED
      BY <1>14, <2>1
  <1> QED
    BY <1>15 DEF at

\* Words that fit with the breakpoint before them are each printed in one line.
WordsStay(str, n, w) ==
    \A a, b : IsWord(str, n, a, b) /\ w # 0 /\ Width(str, Max({a - 1, 1}), b) < w =>
        \A j, k \in DOMAIN pen.printed :
            {pen.printed[j].i, pen.printed[k].i} \subseteq a..b => pen.printed[j].row = pen.printed[k].row

\* A word that fits is in one row.
LEMMA WordIsWhole ==
    ASSUME NEW str, NEW n, NEW w, WordsStay(str, n, w), w # 0,
           NEW a, NEW b, IsWord(str, n, a, b), Width(str, Max({a - 1, 1}), b) < w
    PROVE  \A j, k \in DOMAIN pen.printed :
               {pen.printed[j].i, pen.printed[k].i} \subseteq a..b =>
                   pen.printed[j].row = pen.printed[k].row
  BY DEF WordsStay

\* A text that has been set is as it was asked to be.
LEMMA TextIsSet ==
    ASSUME NEW str, NEW n, IsText(str, n), \A j \in 1..n : str[j].loads, NEW w \in Int,
           pen = Typeset(str, w)
    PROVE  /\ PenInv(str, w, pen, n) /\ DOMAIN pen.printed = 1..Len(pen.printed)
           /\ WordsStay(str, n, w)
  <1>1. n \in Nat /\ n \in 0..n /\ pen = Pens(str, w)[n]
    BY DEF IsText, Typeset
  <1>2. PenInv(str, w, pen, n) /\ RowsAre(str, w, pen)
    BY <1>1, PensHold
  <1>3. DOMAIN pen.printed = 1..Len(pen.printed)
    <2>1. pen.printed \in Seq([i : Nat, x : Nat, row : Nat])
      BY <1>2 DEF PenInv, IsPen
    <2> QED
      BY <2>1
  <1>4. ASSUME NEW a, NEW b, IsWord(str, n, a, b), w # 0, Width(str, Max({a - 1, 1}), b) < w,
               NEW j \in DOMAIN pen.printed, NEW k \in DOMAIN pen.printed,
               {pen.printed[j].i, pen.printed[k].i} \subseteq a..b
        PROVE  pen.printed[j].row = pen.printed[k].row
    <2>1. \A i \in a..b : Pens(str, w)[i].row = Pens(str, w)[a].row
      BY <1>4, WordStays
    <2>2. /\ pen.printed[j].row = Pens(str, w)[pen.printed[j].i].row
          /\ pen.printed[k].row = Pens(str, w)[pen.printed[k].i].row
      BY <1>2, <1>3 DEF RowsAre
    <2> QED
      BY <1>4, <2>1, <2>2
  <1> QED
    BY <1>2, <1>3, <1>4 DEF WordsStay

\* What Text::paint has printed is as it was asked for.
LEMMA RequestWraps == RequestInv => WordsWhole
  <1> DEFINE str == last.str
             n == Len(str)
             w == last.limit
             printed == pen.printed
  <1> SUFFICES ASSUME RequestInv, last.op = "text", \A i \in DOMAIN str : str[i].loads
               PROVE  WordsWhole
    BY DEF WordsWhole
  <1>1. str \in Seq(Char) /\ w \in Int /\ pen = Typeset(str, w) /\ outcome = IF pen.broken THEN "wild" ELSE "done"
    BY DEF RequestInv
  <1> HIDE DEF str, w
  <1>2. IsText(str, n)
    BY <1>1 DEF IsText
  <1>3. DOMAIN str = 1..n /\ n \in Nat /\ \A j \in 1..n : str[j].loads
    BY <1>2 DEF IsText
  <1> HIDE DEF n
  <1>4. /\ PenInv(str, w, pen, n) /\ DOMAIN pen.printed = 1..Len(pen.printed)
        /\ WordsStay(str, n, w)
    BY <1>1, <1>2, <1>3, TextIsSet
  <1>5. /\ ~pen.broken /\ EachIsPut(str, printed, n) /\ EachFits(str, w, printed, n)
        /\ EachFollows(str, w, printed)
    BY <1>4 DEF PenInv
  <1>6. outcome = "done"
    BY <1>1, <1>5
  <1>7. \A i \in DOMAIN str : str[i].prints /\ ~str[i].space => \E k \in DOMAIN printed : printed[k].i = i
    BY <1>3, <1>4, <1>5 DEF EachIsPut
  <1>8. ASSUME NEW k \in DOMAIN printed, k > 1
        PROVE  Follows(str, w, printed[k - 1], printed[k].i, printed[k].x, printed[k].row)
    BY <1>4, <1>5, <1>8 DEF EachFollows
  <1>9. ASSUME NEW k \in DOMAIN printed, w # 0
        PROVE  printed[k].x = 0 \/ printed[k].x + str[printed[k].i].advance < w
    BY <1>4, <1>5, <1>9 DEF EachFits
  <1>10. ASSUME NEW v \in Words(str), w # 0, Width(str, Max({v[1] - 1, 1}), v[2]) < w,
                NEW j \in DOMAIN printed, NEW k \in DOMAIN printed,
                {printed[j].i, printed[k].i} \subseteq v[1]..v[2]
         PROVE  printed[j].row = printed[k].row
    <2> DEFINE a == v[1]
               b == v[2]
    <2>1. /\ a \in 1..n /\ b \in 1..n /\ a <= b /\ \A i \in a..b : ~str[i].breaks
          /\ a = 1 \/ str[a - 1].breaks
          /\ b = Len(str) \/ str[b + 1].breaks
      BY <1>3 DEF Words
    <2>2. n = Len(str)
      BY DEF n
    <2>3. /\ Width(str, Max({a - 1, 1}), b) < w
          /\ {printed[j].i, printed[k].i} \subseteq a..b
          /\ j \in DOMAIN pen.printed /\ k \in DOMAIN pen.printed
      BY <1>10
    <2> HIDE DEF a, b
    <2>4. IsWord(str, n, a, b)
      BY <2>1, <2>2 DEF IsWord
    <2>5. w # 0
      BY <1>10
    <2>6. WordsStay(str, n, w)
      BY <1>4
    <2>7. Width(str, Max({a - 1, 1}), b) < w
      BY <2>3
    <2>8. \A d, e \in DOMAIN pen.printed :
            {pen.printed[d].i, pen.printed[e].i} \subseteq a..b => pen.printed[d].row = pen.printed[e].row
      BY <2>4, <2>5, <2>6, <2>7, WordIsWhole
    <2> QED
      BY <2>3, <2>8
  <1>11. ASSUME NEW k \in DOMAIN printed, k > 1
         PROVE  /\ printed[k - 1].i < printed[k].i
                /\ \/ /\ printed[k].row = printed[k - 1].row
                      /\ printed[k].x = printed[k - 1].x + str[printed[k - 1].i].advance
                   \/ printed[k].row > printed[k - 1].row /\ printed[k].x = 0
                /\ w # 0 /\ (\E i \in printed[k - 1].i..printed[k].i : str[i].newline) =>
                        printed[k].row > printed[k - 1].row
    BY <1>8, <1>11 DEF Follows
  <1> HIDE DEF printed
  <1> QED
    BY <1>6, <1>7, <1>9, <1>10, <1>11 DEF WordsWhole, str, w, printed

\* Text::update and Text::paint, for texts of any length, of any characters, wrapped
\* anywhere or nowhere.
THEOREM AlwaysWordsWhole == PaintingSpec => []WordsWhole
  BY RequestInit, RequestNext, RequestWraps, PTL DEF PaintingSpec
=============================================================================
