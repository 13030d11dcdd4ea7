----------------------------- MODULE WindowLayout -----------------------------
(***************************************************************************)
(* gui/WindowLayout.cpp: the two parts of a window, its title bar and its  *)
(* frame.  place() takes the padding and the border of the window off,     *)
(* index_from_position() the padding.                                      *)
(***************************************************************************)
EXTENDS Integers

CONSTANTS
    TitleH,                     \* Window::def_title_bar_height
    WindowPadding, WindowBorder \* Window::def_padding and def_border

ASSUME WindowAssumption == TitleH \in Nat /\ WindowPadding \in Nat /\ WindowBorder \in Nat

Extra == WindowPadding + WindowBorder

\* place() for the first and for the second child of a window.
TitleBar(window) ==
    [x |-> Extra, y |-> Extra, w |-> window.w - 2 * Extra, h |-> TitleH]
Frame(window) ==
    [x |-> Extra, y |-> TitleH + Extra,
     w |-> window.w - 2 * Extra, h |-> window.h - TitleH - 2 * Extra]

\* index_from_position: 0 is the title bar, 1 the frame.
PartAt(window, atX, atY) ==
    LET x == atX - WindowPadding
        y == atY - WindowPadding
    IN  IF \/ x < 0 \/ x >= window.w - 2 * WindowPadding
           \/ y < 0 \/ y >= window.h - 2 * WindowPadding
        THEN -1
        ELSE IF y < TitleH THEN 0 ELSE 1

=============================================================================
