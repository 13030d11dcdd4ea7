------------------------------- MODULE TextWrap -------------------------------
(***************************************************************************)
(* text/Text.cpp: where the characters of a text come to be, and where its *)
(* lines are broken.  update() cuts the text into segments at the          *)
(* BREAKPOINTS and measures them; paint() walks over the characters with a *)
(* pen.  A character is a record of what FreeType and the code ask of it.  *)
(***************************************************************************)
EXTENDS Integers, Sequences, SequencesExt, FiniteSetsExt

CONSTANT Char   \* the characters

\* Of control characters there are newlines and such that are spaces without a
\* line of their own (tabs); a byte of a character beyond ASCII is negative, and
\* not printed either.
ASSUME CharAssumption ==
    /\ Char \subseteq [glyph : STRING, advance : Nat, breaks : BOOLEAN, space : BOOLEAN,
                      newline : BOOLEAN, prints : BOOLEAN, loads : BOOLEAN]
    /\ \A c \in Char : c.newline => c.breaks /\ ~c.prints

-----------------------------------------------------------------------------
(* Text::update *)

\* Mutant of CutAt: the width is not set back, so all segments before are in it.
CutAtKept(m, i) == [m EXCEPT !.segs = Append(@, i), !.segWs = Append(@, m.segW)]

\* A segment ends behind its breakpoint (segs), but is measured from the one
\* before to its own (seg_ws).
CutAt(m, i) == [m EXCEPT !.segs = Append(@, i), !.segWs = Append(@, m.segW), !.segW = 0]

\* One turn of the loop, for character i.  One that FT_Load_Char does not know is
\* passed over: it is no breakpoint, and advs has no entry for it.
Measured(m, i, c) ==
    LET cut == IF c.breaks THEN CutAt(m, i) ELSE m
    IN  IF ~c.loads THEN m
        ELSE [cut EXCEPT !.advs = Append(@, c.advance), !.segW = @ + c.advance]

\* What is known of the first characters.
Measures(str) ==
    LET measured[i \in 0..Len(str)] ==
            IF i = 0 THEN [advs |-> <<>>, segs |-> <<>>, segWs |-> <<>>, segW |-> 0]
            ELSE Measured(measured[i - 1], i, str[i])
    IN  measured

\* What it is in the end: the rest of the text is a segment, too.
Updated(str) ==
    LET m == Measures(str)[Len(str)]
    IN  [advs |-> m.advs, segs |-> Append(m.segs, Len(str)), segWs |-> Append(m.segWs, m.segW)]

-----------------------------------------------------------------------------
(* Text::paint, for a text at the left of its bitmap.  `w` is where lines    *)
(* are broken: at the width of the bitmap for -1, nowhere for 0.             *)

Pen == [x |-> 0, row |-> 0, seg |-> 1, printed |-> <<>>, broken |-> FALSE]

\* One turn of the loop, for character i, of a text that update() has measured.
\* bmps and advs end early if a character did not load: what is read behind their
\* end is anything.
Stepped(m, w, pen, i, c) ==
    LET advance == m.advs[i]
        onward == i > m.segs[pen.seg]
        seg == IF onward THEN pen.seg + 1 ELSE pen.seg
        breaks == w # 0 /\ \/ c.newline
                           \/ pen.x + advance >= w
                           \/ /\ onward
                              /\ pen.x + m.segWs[seg] >= w
                              /\ m.segWs[seg] < w
        prints == w = 0 \/ (c.prints /\ ~(breaks /\ c.space))
        x == IF breaks THEN 0 ELSE pen.x
        row == IF breaks THEN pen.row + 1 ELSE pen.row
    IN  IF i > Len(m.advs) THEN [pen EXCEPT !.broken = TRUE]
        ELSE [pen EXCEPT
                 !.x = IF prints THEN x + advance ELSE x,
                 !.row = row,
                 !.seg = seg,
                 !.printed = IF prints THEN Append(@, [i |-> i, x |-> x, row |-> row]) ELSE @]

\* Where the pen is after the first characters.
Pens(str, w) ==
    LET m == Updated(str)
        pen[i \in 0..Len(str)] ==
            IF i = 0 THEN Pen ELSE Stepped(m, w, pen[i - 1], i, str[i])
    IN  pen

Typeset(str, w) == Pens(str, w)[Len(str)]

\* get_h(), in lines.
TextLines(pen, w) == IF w = 0 THEN 1 ELSE pen.row

=============================================================================
