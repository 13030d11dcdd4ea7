------------------------------- MODULE DrmCard -------------------------------
(***************************************************************************)
(* The card under the display: DRMCard's search for connectors, DRMConn's  *)
(* constructor and destructor and DRMBitmap's buffers, around the repaints *)
(* of DisplayRepaint.  Every call of the kernel may fail; what was made    *)
(* before is then undone, by the code or by the unwinding of constructors. *)
(***************************************************************************)
EXTENDS DisplayRepaint

CONSTANTS
    Connector,  \* what a screen may be plugged into
    Crtc,       \* what reads a framebuffer for a screen
    None

ASSUME CardAssumption ==
    /\ None \notin Connector \cup Crtc \cup {"cursors"} \cup [id : Connector, crtc : Crtc]
    /\ Connector \cap Crtc = {} /\ "cursors" \notin Connector

VARIABLES
    phase,      \* where the constructors, or the destructor, are
    todo,       \* the connectors not yet looked at
    cur, made,  \* whose buffers are being made, and how many it has
    taken,      \* DRMConn.crtc of the one under construction
    conn,       \* the entry of DRMCard.conns, or None
    handles,    \* the card's dumb buffers, by their owner and number
    fbs,        \* those that have a framebuffer
    scan,       \* what each CRTC shows: a framebuffer, or None
    spilt       \* the dumb buffers whose destruction has failed, or was not tried
card == <<phase, todo, cur, made, taken, conn, handles, fbs, scan, spilt>>

\* The framebuffers of whoever had the screens before.
Before == [k \in Crtc |-> <<k, 0>>]

CardInit ==
    /\ Init
    /\ phase = "open" /\ todo = Connector /\ cur = None /\ made = 0
    /\ taken = None /\ conn = None /\ handles = {} /\ fbs = {}
    /\ scan = Before /\ spilt = {}

Of(owner) == {owner} \X (0..1)

\* The kernel takes a framebuffer that is removed off the screen.
Dark(gone) == [k \in Crtc |-> IF scan[k] \in gone THEN None ELSE scan[k]]

\* close(fd), or the end of the process: the kernel frees what the card held.
\* ~DRMCard comes before the ~DRMConn of its conns, which finds fd closed.
CloseCard(how) ==
    /\ phase' = how /\ cur' = None /\ made' = 0 /\ taken' = None
    /\ handles' = {} /\ fbs' = {} /\ scan' = Dark(fbs)
    /\ UNCHANGED <<todo, conn, spilt>>

\* An exception while buffers are made: those that are whole are destroyed, and
\* DRMCard goes on with the next connector; nothing catches that of a cursor.
Unwind(left, leftFbs) ==
    IF cur = "cursors" THEN CloseCard("closed")
    ELSE /\ phase' = "next" /\ cur' = None /\ made' = 0 /\ taken' = None
         /\ handles' = (handles \ Of(cur)) \cup left
         /\ fbs' = (fbs \ Of(cur)) \cup leftFbs
         /\ scan' = Dark(Of(cur))
         /\ spilt' = spilt \cup left
         /\ UNCHANGED <<todo, conn>>

Throw == Unwind({}, {})

-----------------------------------------------------------------------------
(* DRMCard::DRMCard *)

OpenCard ==
    /\ phase = "open"
    /\ phase' \in {"next", "closed"}
    /\ UNCHANGED <<todo, cur, made, taken, conn, handles, fbs, scan, spilt>>

\* The resources, a connector or the capability cannot be had.
CardThrows == phase = "next" /\ CloseCard("closed")

\* A connector without a screen is passed over, and so is one without a mode.
NextConnector ==
    /\ phase = "next"
    /\ \E c \in todo :
        /\ todo' = todo \ {c}
        /\ \/ UNCHANGED <<phase, cur>>
           \/ phase' = "dumb" /\ cur' = c
    /\ UNCHANGED <<made, taken, conn, handles, fbs, scan, spilt>>

-----------------------------------------------------------------------------
(* DRMBitmap::set_size *)

CreateDumb ==
    /\ phase = "dumb"
    /\ handles' = handles \cup {<<cur, made>>} /\ phase' = "fb"
    /\ UNCHANGED <<todo, cur, made, taken, conn, fbs, scan, spilt>>

AddFb ==
    /\ phase = "fb"
    /\ fbs' = fbs \cup {<<cur, made>>} /\ phase' = "map"
    /\ UNCHANGED <<todo, cur, made, taken, conn, handles, scan, spilt>>

Map ==
    /\ phase = "map"
    /\ made' = made + 1
    /\ phase' = IF made = 0 THEN "dumb" ELSE IF cur = "cursors" THEN "show" ELSE "find"
    /\ UNCHANGED <<todo, cur, taken, conn, handles, fbs, scan, spilt>>

\* One of the three fails, and what the others made is undone, the last first.
\* If the framebuffer cannot be removed the dumb buffer is not tried.
SetSizeThrows ==
    LET here == {<<cur, made>>} IN
    \/ phase \in {"dumb", "fb", "map"} /\ Throw
    \/ phase \in {"fb", "map"} /\ Unwind(here, {})
    \/ phase = "map" /\ Unwind(here, here)

-----------------------------------------------------------------------------
(* DRMConn::DRMConn *)

\* Mutant of UseCrtcIfFree: the other connectors are not looked at.
UseCrtcAnyway(k) == k \in Crtc

UseCrtcIfFree(k) == conn = None \/ conn.crtc # k

\* The CRTC the connector has now, else any that one of its encoders can use.
FindCrtc ==
    /\ phase = "find"
    /\ \E now \in Crtc \cup {None}, possible \in SUBSET Crtc :
        LET free == {k \in IF now # None /\ UseCrtcIfFree(now) THEN {now} ELSE possible :
                        UseCrtcIfFree(k)} IN
        \/ /\ taken' \in free /\ phase' = "set"
           /\ UNCHANGED <<todo, cur, made, conn, handles, fbs, scan, spilt>>
        \/ free = {} /\ Throw

SetFirst ==
    /\ phase = "set"
    /\ scan' = [scan EXCEPT ![taken] = <<cur, 0>>] /\ phase' = "planes"
    /\ UNCHANGED <<todo, cur, made, taken, conn, handles, fbs, spilt>>

\* What the CRTC showed cannot be saved, it cannot be set, or the planes cannot
\* be had.  There is no destructor to put back what was saved.
ConnThrows == phase \in {"set", "planes"} /\ Throw

\* The vector has no room for a second entry and moves the first.  What is left
\* of that has no saved_crtc, and ~DRMConn's assertion ends the process.
Emplace ==
    /\ phase = "planes"
    /\ IF conn # None THEN CloseCard("aborted")
       ELSE /\ conn' = [id |-> cur, crtc |-> taken]
            /\ phase' = "next" /\ cur' = None /\ made' = 0 /\ taken' = None
            /\ UNCHANGED <<todo, handles, fbs, scan, spilt>>

-----------------------------------------------------------------------------
(* DisplayManager::DisplayManager and ~DisplayManager *)

MakeCursors ==
    /\ phase = "next" /\ todo = {}
    /\ phase' = "dumb" /\ cur' = "cursors"
    /\ UNCHANGED <<todo, made, taken, conn, handles, fbs, scan, spilt>>

\* get_conns()[0] of an empty vector is a null pointer.  The cursor is shown,
\* or cannot be; then the display thread begins.
ShowCursor ==
    /\ phase = "show"
    /\ IF conn = None THEN CloseCard("aborted")
       ELSE \/ CloseCard("closed")
            \/ /\ phase' = "ready" /\ cur' = None /\ made' = 0
               /\ UNCHANGED <<todo, taken, conn, handles, fbs, scan, spilt>>

Destroy == phase = "ready" /\ (\A t \in Thread : pc[t] = "idle") /\ CloseCard("closed")

-----------------------------------------------------------------------------
Construct ==
    \/ OpenCard \/ CardThrows \/ NextConnector
    \/ CreateDumb \/ AddFb \/ Map \/ SetSizeThrows
    \/ FindCrtc \/ SetFirst \/ ConnThrows \/ Emplace
    \/ MakeCursors \/ ShowCursor

\* A step of DisplayRepaint; when it shows a buffer, on the connector's CRTC.
RepaintNext ==
    /\ phase = "ready" /\ Next
    /\ scan' = [scan EXCEPT ![conn.crtc] =
                    IF shown' = shown THEN @ ELSE <<conn.id, shown'>>]
    /\ UNCHANGED <<phase, todo, cur, made, taken, conn, handles, fbs, spilt>>

CardNext == \/ (Construct \/ Destroy) /\ UNCHANGED vars
            \/ RepaintNext

CardSpec == CardInit /\ [][CardNext]_<<vars, card>>

-----------------------------------------------------------------------------
(* Properties *)

CardTypeOK ==
    /\ phase \in {"open", "next", "dumb", "fb", "map", "find", "set", "planes", "show",
                  "ready", "closed", "aborted"}
    /\ todo \subseteq Connector /\ cur \in Connector \cup {"cursors", None} /\ made \in 0..2
    /\ taken \in Crtc \cup {None} /\ conn \in [id : Connector, crtc : Crtc] \cup {None}
    /\ (\A k \in Crtc : scan[k] \in fbs \cup {None, Before[k]}) /\ spilt \subseteq Connector \X (0..1)

\* However setting up connectors fails, and however repaints interleave, the
\* card holds the buffers of objects that exist and nothing else - but for what
\* could not be undone; a CRTC shows only a framebuffer that is there; and that
\* of the connector in use shows the buffer its repaints have shown last.
ScreenIsHeld ==
    /\ CardTypeOK
    /\ phase \notin {"fb", "map"} =>
        LET whole == {<<cur, i>> : i \in 0..made - 1}
            used == IF conn = None \/ phase \in {"closed", "aborted"} THEN {} ELSE Of(conn.id)
            shape == IF phase = "ready" THEN Of("cursors") ELSE {} IN
        handles \ spilt = whole \cup used \cup shape /\ fbs \ spilt = handles \ spilt
    /\ conn # None /\ phase \notin {"closed", "aborted"} =>
        scan[conn.crtc] = <<conn.id, shown>>

=============================================================================
