------------------------- MODULE MouseDispatchProofs -------------------------
(***************************************************************************)
(* Proofs about MouseDispatch, for every size of the screen and the        *)
(* window, every set of moves and any number of events.                    *)
(***************************************************************************)
EXTENDS MouseDispatch, WellFoundedInduction, TLAPS

-----------------------------------------------------------------------------
(* A release ends the grab *)

\* While a window is grabbed, what is dispatched goes to its title bar; and
\* only a move is followed by exit and enter events.
ToTitleBar == ipc = "act" /\ grabbed => OnTitleBar
AfterMove == ipc \in {"exit", "enter"} => event.type = "move"
GrabInv == ReleaseDrops /\ ToTitleBar /\ AfterMove

\* While a window is grabbed, what is found is its title bar.
LEMMA GrabbedTargets ==
    ASSUME grabbed, targets' = WidgetsNow
    PROVE  OnTitleBar'
  <1>1. targets' = <<"title_bar", "window">>
    BY DEF WidgetsNow
  <1>2. 1 \in DOMAIN targets' /\ targets'[1] = "title_bar"
    BY <1>1
  <1> QED
    BY <1>2 DEF OnTitleBar

\* What leaves the dispatch alone, or only starts one, keeps the invariant.
LEMMA DispatchFrame ==
    ASSUME GrabInv, UNCHANGED <<ipc, event, targets, grabbed>>
    PROVE  GrabInv'
  BY DEF GrabInv, ReleaseDrops, ToTitleBar, AfterMove, OnTitleBar

\* Every step keeps what a grab relies on.
LEMMA GrabStep == GrabInv /\ [Next]_vars => GrabInv'
  <1> SUFFICES ASSUME GrabInv, [Next]_vars PROVE GrabInv'
    OBVIOUS
  <1>1. CASE Mouse
    BY <1>1, DispatchFrame
    DEF Mouse, Move, PressLeft, PressRight, Release, Tap, Make
  <1>2. CASE StartDispatch
    BY <1>2 DEF StartDispatch, GrabInv, ReleaseDrops, ToTitleBar, AfterMove
  <1>3. CASE GetWidgets
    <2>1. ipc' = "act" /\ targets' = WidgetsNow /\ grabbed' = grabbed
      BY <1>3 DEF GetWidgets
    <2>2. ToTitleBar'
      BY <2>1, GrabbedTargets DEF ToTitleBar
    <2> QED
      BY <2>1, <2>2 DEF GrabInv, ReleaseDrops, AfterMove
  <1>4. CASE Handlers
    <2>1. ipc = "act" /\ event' = event /\ targets' = targets
          /\ ipc' = IF event.type = "move" THEN "exit" ELSE "idle"
      BY <1>4 DEF Handlers
    <2>2. ASSUME event.type = "release" PROVE ~grabbed'
      <3>1. CASE OnTitleBar
        BY <1>4, <2>2, <3>1 DEF Handlers
      <3>2. CASE ~OnTitleBar
        <4>1. ~grabbed
          BY <2>1, <3>2 DEF GrabInv, ToTitleBar
        <4> QED
          BY <1>4, <2>2, <3>2, <4>1 DEF Handlers
      <3> QED
        BY <3>1, <3>2
    <2> QED
      BY <2>1, <2>2 DEF GrabInv, ReleaseDrops, ToTitleBar, AfterMove
  <1>5. CASE MouseExit \/ MouseEnter
    BY <1>5 DEF MouseExit, MouseEnter, GrabInv, ReleaseDrops, ToTitleBar, AfterMove
  <1>6. CASE Display
    BY <1>6, DispatchFrame
    DEF Display, PopUpdates, RunUpdate, MoveCursor, KeepCursorOnScreen, MoveFollowers, inputVars
  <1>7. CASE UNCHANGED vars
    BY <1>7, DispatchFrame DEF vars, inputVars
  <1> QED
    BY <1>1, <1>2, <1>3, <1>4, <1>5, <1>6, <1>7 DEF Next, Dispatch

\* A grab never outlives the release of the button, wherever the cursor and the
\* window have got to when the release is dispatched.
THEOREM ReleaseAlwaysDrops == Spec => []ReleaseDrops
  <1>1. Init => GrabInv
    BY DEF Init, GrabInv, ReleaseDrops, ToTitleBar, AfterMove
  <1>2. GrabInv => ReleaseDrops
    BY DEF GrabInv
  <1> QED
    BY <1>1, <1>2, GrabStep, PTL DEF Spec

-----------------------------------------------------------------------------
(* Induction, for sets of numbers, and the sums of MovesIn *)

\* Induction over the numbers, for a set of them.
LEMMA SetInduction ==
    ASSUME NEW S, 0 \in S, \A n \in Nat : n \in S => n + 1 \in S
    PROVE  Nat \subseteq S
  <1> DEFINE R == OpToRel(<, Nat)
             T == Nat \ S
  <1>1. SUFFICES ASSUME T # {} PROVE FALSE
    OBVIOUS
  <1>2. IsWellFoundedOn(R, Nat)
    BY NatLessThanWellFounded
  <1>3. PICK x \in T : \A y \in T : <<y, x>> \notin R
    <2>1. T \subseteq Nat
      OBVIOUS
    <2> HIDE DEF R, T
    <2> QED
      BY <1>1, <1>2, <2>1, WFMin
  <1>4. ASSUME NEW m \in Nat, NEW n \in Nat, m < n PROVE <<m, n>> \in R
    BY <1>4 DEF OpToRel
  <1> HIDE DEF R
  <1>5. x \in Nat /\ x \notin S /\ x # 0
    OBVIOUS
  <1>6. x - 1 \in Nat /\ x - 1 < x
    BY <1>5
  <1>7. x - 1 \in S
    BY <1>3, <1>4, <1>5, <1>6
  <1> QED
    BY <1>5, <1>6, <1>7

\* s[k] is the sum of the first k of d, for k up to n.
Adds(s, d, n) == s[0] = 0 /\ \A k \in 1..n : s[k] = s[k-1] + d[k]

Same(d, e, n) == \A k \in 1..n : d[k] = e[k]

\* Any numbers in a row can be added up from the first to the last.
LEMMA SumExists ==
    ASSUME NEW n \in Nat, NEW d \in [1..n -> Int]
    PROVE  \E s \in [0..n -> Int] : Adds(s, d, n)
  <1> DEFINE S == {m \in Nat : m <= n => \E s \in [0..m -> Int] : Adds(s, d, m)}
  <1>1. 0 \in S
    <2>1. [k \in 0..0 |-> 0] \in [0..0 -> Int] /\ [k \in 0..0 |-> 0][0] = 0 /\ 1..0 = {}
      OBVIOUS
    <2> QED
      BY <2>1 DEF Adds
  <1>2. ASSUME NEW m \in Nat, m \in S PROVE m + 1 \in S
    <2> SUFFICES ASSUME m + 1 <= n
                 PROVE  \E s \in [0..m+1 -> Int] : Adds(s, d, m+1)
      OBVIOUS
    <2>1. PICK s \in [0..m -> Int] : Adds(s, d, m)
      BY <1>2
    <2> DEFINE t == [k \in 0..m+1 |-> IF k = m + 1 THEN s[m] + d[m+1] ELSE s[k]]
    <2>2. s[m] \in Int /\ d[m+1] \in Int
      OBVIOUS
    <2>3. t \in [0..m+1 -> Int]
      BY <2>2
    <2>4. t[0] = 0
      BY <2>1 DEF Adds
    <2>5. ASSUME NEW k \in 1..m+1 PROVE t[k] = t[k-1] + d[k]
      <3>1. CASE k = m + 1
        BY <3>1
      <3>2. CASE k \in 1..m
        BY <2>1, <3>2 DEF Adds
      <3> QED
        BY <3>1, <3>2
    <2> HIDE DEF t
    <2> QED
      BY <2>3, <2>4, <2>5 DEF Adds
  <1> HIDE DEF S
  <1>3. n \in S
    BY <1>1, <1>2, SetInduction
  <1> QED
    BY <1>3 DEF S

\* Two sums of what is the same up to m are the same up to m.
LEMMA SumUnique ==
    ASSUME NEW n \in Nat, NEW m \in Nat, m <= n, NEW d, NEW e, NEW s, NEW t,
           Adds(s, d, n), Adds(t, e, m), Same(d, e, m)
    PROVE  \A k \in 0..m : s[k] = t[k]
  <1> DEFINE S == {k \in Nat : k <= m => s[k] = t[k]}
  <1>1. 0 \in S
    BY DEF Adds
  <1>2. ASSUME NEW k \in Nat, k \in S PROVE k + 1 \in S
    <2> SUFFICES ASSUME k + 1 <= m PROVE s[k+1] = t[k+1]
      OBVIOUS
    <2>1. s[k] = t[k] /\ k + 1 \in 1..m /\ k + 1 \in 1..n /\ (k + 1) - 1 = k
      BY <1>2
    <2> QED
      BY <2>1 DEF Adds, Same
  <1>3. Nat \subseteq S
    <2> HIDE DEF S
    <2> QED
      BY <1>1, <1>2, SetInduction
  <1> QED
    BY <1>3

Dys(updates) == [k \in 1..Len(updates) |-> Dy(updates[k])]

\* Every update moves the cursor by a number, if by none then by 0.
LEMMA DyType == \A u \in Update : Dy(u) \in Int
  <1> TAKE u \in Update
  <1>1. CASE u \in [op : {"move"}, dy : Moves]
    BY <1>1, MouseAssumption DEF Dy
  <1>2. CASE u \in [op : {"follow"}] \cup [op : {"shape"}, to : {"arrow", "pointer"}]
    <2>1. u.op # "move"
      BY <1>2
    <2> QED
      BY <2>1 DEF Dy
  <1> QED
    BY <1>1, <1>2 DEF Update

\* Sums adds up what its recursive definition says it does.
LEMMA SumsAdds ==
    ASSUME NEW q \in Seq(Update)
    PROVE  Adds(Sums(q), Dys(q), Len(q)) /\ \A k \in 0..Len(q) : Sums(q)[k] \in Int
  <1> DEFINE P(s) == s = [k \in 0..Len(q) |-> IF k = 0 THEN 0 ELSE s[k-1] + Dy(q[k])]
  <1>1. Dys(q) \in [1..Len(q) -> Int] /\ Len(q) \in Nat
    BY DyType DEF Dys
  <1>2. PICK s \in [0..Len(q) -> Int] : Adds(s, Dys(q), Len(q))
    BY <1>1, SumExists
  <1>3. P(s)
    <2>1. ASSUME NEW k \in 0..Len(q) PROVE s[k] = IF k = 0 THEN 0 ELSE s[k-1] + Dy(q[k])
      <3>1. CASE k = 0
        BY <1>2, <3>1 DEF Adds
      <3>2. CASE k \in 1..Len(q)
        <4>1. s[k] = s[k-1] + Dys(q)[k] /\ Dys(q)[k] = Dy(q[k])
          BY <1>2, <3>2 DEF Adds, Dys
        <4> QED
          BY <3>2, <4>1
      <3> QED
        BY <1>1, <3>1, <3>2
    <2>2. s = [k \in 0..Len(q) |-> s[k]]
      BY <1>2
    <2> QED
      BY <2>1, <2>2
  <1>4. P(Sums(q))
    <2>1. Sums(q) = CHOOSE t : P(t)
      BY DEF Sums
    <2> HIDE DEF P
    <2> QED
      BY <1>3, <2>1
  <1>5. Adds(Sums(q), Dys(q), Len(q))
    BY <1>1, <1>4 DEF Adds, Dys
  <1>6. Same(Dys(q), Dys(q), Len(q))
    BY DEF Same
  <1> HIDE DEF P
  <1>7. \A k \in 0..Len(q) : Sums(q)[k] = s[k]
    BY <1>1, <1>2, <1>5, <1>6, SumUnique
  <1> QED
    BY <1>2, <1>5, <1>7

\* No updates, no moves.
LEMMA MovesInEmpty == MovesIn(<<>>) = 0
  <1>1. <<>> \in Seq(Update) /\ Len(<<>>) = 0
    OBVIOUS
  <1>2. Adds(Sums(<<>>), Dys(<<>>), Len(<<>>))
    BY <1>1, SumsAdds
  <1> QED
    BY <1>1, <1>2 DEF MovesIn, Adds

\* An update that is queued adds its own move to those waiting ...
LEMMA MovesInAppend ==
    ASSUME NEW q \in Seq(Update), NEW u \in Update
    PROVE  MovesIn(q) \in Int /\ MovesIn(Append(q, u)) = MovesIn(q) + Dy(u)
  <1> DEFINE a == Append(q, u)
  <1>1. /\ a \in Seq(Update) /\ Len(a) = Len(q) + 1 /\ Len(q) \in Nat
        /\ a[Len(q) + 1] = u /\ \A k \in 1..Len(q) : a[k] = q[k]
    OBVIOUS
  <1> HIDE DEF a
  <1>2. /\ Adds(Sums(q), Dys(q), Len(q)) /\ Sums(q)[Len(q)] \in Int
        /\ Adds(Sums(a), Dys(a), Len(q) + 1)
    BY <1>1, SumsAdds
  <1>3. Same(Dys(a), Dys(q), Len(q))
    BY <1>1 DEF Dys, Same
  <1>4. \A k \in 0..Len(q) : Sums(a)[k] = Sums(q)[k]
    BY <1>1, <1>2, <1>3, SumUnique
  <1>5. Sums(a)[Len(q) + 1] = Sums(a)[Len(q)] + Dys(a)[Len(q) + 1]
    BY <1>1, <1>2 DEF Adds
  <1>6. Dys(a)[Len(q) + 1] = Dy(u)
    BY <1>1 DEF Dys
  <1>7. MovesIn(a) = MovesIn(q) + Dy(u)
    BY <1>1, <1>4, <1>5, <1>6 DEF MovesIn
  <1> QED
    BY <1>2, <1>7 DEF MovesIn, a

\* ... and one that is taken, takes its move from them.
LEMMA MovesInTail ==
    ASSUME NEW q \in Seq(Update), q # <<>>
    PROVE  /\ MovesIn(Tail(q)) \in Int
           /\ MovesIn(q) = Dy(Head(q)) + MovesIn(Tail(q))
  <1> DEFINE b == Tail(q)
             n == Len(q) - 1
             d == Dy(Head(q))
             t == [k \in 0..n |-> Sums(q)[k+1] - d]
  <1>1. /\ b \in Seq(Update) /\ Len(b) = n /\ n \in Nat /\ Len(q) = n + 1 /\ Head(q) = q[1]
        /\ Head(q) \in Update /\ \A k \in 1..n : b[k] = q[k+1] /\ b[k] \in Update
    OBVIOUS
  <1>2. d \in Int
    BY <1>1, DyType
  <1> HIDE DEF b, n
  <1>3. /\ Adds(Sums(q), Dys(q), n + 1) /\ \A k \in 0..n+1 : Sums(q)[k] \in Int
        /\ Adds(Sums(b), Dys(b), n) /\ \A k \in 0..n : Sums(b)[k] \in Int
    BY <1>1, SumsAdds
  <1>4. t[0] = 0
    <2>1. Sums(q)[1] = Sums(q)[0] + Dys(q)[1] /\ Sums(q)[0] = 0 /\ Dys(q)[1] = d
      BY <1>1, <1>3 DEF Adds, Dys
    <2> HIDE DEF d
    <2>2. t[0] = Sums(q)[1] - d
      BY <1>1
    <2> QED
      BY <1>2, <2>1, <2>2
  <1>5. ASSUME NEW k \in 1..n PROVE t[k] = t[k-1] + Dys(b)[k]
    <2>1. Sums(q)[k+1] = Sums(q)[k] + Dys(q)[k+1]
      <3>1. k + 1 \in 1..n+1 /\ (k + 1) - 1 = k
        BY <1>1
      <3> QED
        BY <1>3, <3>1 DEF Adds
    <2>2. Dys(q)[k+1] = Dys(b)[k] /\ Dys(b)[k] \in Int
      BY <1>1, DyType DEF Dys
    <2>3. Sums(q)[k] \in Int /\ Sums(q)[k+1] \in Int
      BY <1>1, <1>3
    <2> HIDE DEF d
    <2>4. t[k] = Sums(q)[k+1] - d /\ t[k-1] = Sums(q)[k] - d
      BY <1>1
    <2> QED
      BY <1>2, <2>1, <2>2, <2>3, <2>4
  <1>6. Adds(t, Dys(b), n) /\ Same(Dys(b), Dys(b), n)
    <2> HIDE DEF t
    <2> QED
      BY <1>4, <1>5 DEF Adds, Same
  <1>7. t[n] = Sums(q)[n+1] - d
    BY <1>1
  <1> HIDE DEF t, d
  <1>8. t[n] = Sums(b)[n]
    BY <1>1, <1>3, <1>6, SumUnique
  <1>9. MovesIn(b) = Sums(b)[n] /\ MovesIn(q) = Sums(q)[n+1]
    BY <1>1 DEF MovesIn
  <1>10. Sums(b)[n] \in Int /\ Sums(q)[n+1] \in Int
    BY <1>1, <1>3
  <1>11. MovesIn(b) \in Int /\ MovesIn(q) = d + MovesIn(b)
    BY <1>2, <1>7, <1>8, <1>9, <1>10
  <1> QED
    BY <1>11 DEF b, d

-----------------------------------------------------------------------------
(* No move is lost *)

EventOf == [type : {"move"}, left : BOOLEAN, dy : Moves]
           \cup [type : {"press", "release"}, left : BOOLEAN, dy : {0}]

TypeInv ==
    /\ TypeOK
    /\ todo \in Seq(EventOf) /\ event \in EventOf
    /\ cursor \in Int /\ oldCursor \in Int /\ moved \in Int /\ clipped \in BOOLEAN
    /\ dpc \in {"clamp", "follow"} => batch = <<>>

\* What is still to be added to the cursor; a batch is merged, and then added.
Conserved ==
    ~clipped =>
        cursor + MovesIn(queue) + MovesIn(batch)
               + (IF dpc \in {"clamp", "follow"} THEN 0 ELSE merged.dy) = (ScreenH \div 2) + moved

MovesInv == TypeInv /\ Conserved

\* An update is appended to the queue and the display does nothing.
LEMMA UpdatePushed ==
    ASSUME MovesInv, NEW u \in Update, Push(u), UNCHANGED displayVars,
           moved' = moved + Dy(u)
    PROVE  Conserved' /\ queue' \in Seq(Update)
  <1>1. queue' = Append(queue, u) /\ queue \in Seq(Update) /\ batch \in Seq(Update)
    BY DEF Push, MovesInv, TypeInv, TypeOK
  <1>2. MovesIn(queue) \in Int /\ MovesIn(queue') = MovesIn(queue) + Dy(u) /\ MovesIn(batch) \in Int
    BY <1>1, MovesInAppend
  <1>3. Dy(u) \in Int
    BY DyType
  <1>4. UNCHANGED <<dpc, batch, merged, cursor, clipped>>
    BY DEF displayVars
  <1>5. cursor \in Int /\ moved \in Int /\ merged.dy \in Int /\ (ScreenH \div 2) \in Int
    BY MouseAssumption DEF MovesInv, TypeInv, TypeOK
  <1>6. ASSUME ~clipped'
        PROVE  cursor' + MovesIn(queue') + MovesIn(batch')
                 + (IF dpc' \in {"clamp", "follow"} THEN 0 ELSE merged'.dy) = (ScreenH \div 2) + moved'
    <2> DEFINE rest == IF dpc \in {"clamp", "follow"} THEN 0 ELSE merged.dy
    <2>1. cursor + MovesIn(queue) + MovesIn(batch) + rest = (ScreenH \div 2) + moved
      BY <1>4, <1>6 DEF MovesInv, Conserved
    <2>2. rest \in Int
      BY <1>5
    <2>3. (IF dpc' \in {"clamp", "follow"} THEN 0 ELSE merged'.dy) = rest /\ cursor' = cursor
          /\ batch' = batch
      BY <1>4
    <2> HIDE DEF rest
    <2> QED
      BY <1>2, <1>3, <1>5, <2>1, <2>2, <2>3
  <1> QED
    BY <1>1, <1>6 DEF Conserved

\* The types hold at the beginning.
LEMMA TypeInit == Init => TypeInv
  <1> SUFFICES ASSUME Init PROVE TypeInv
    OBVIOUS
  <1>1. (ScreenH \div 2) \in 0..(ScreenH - 1)
    BY MouseAssumption
  <1>2. event \in EventOf
    BY DEF Init, EventOf
  <1>3. merged \in [dy : Int, follow : BOOLEAN, shape : {None, "arrow", "pointer"}]
        /\ merged = NoUpdates
    BY DEF Init, NoUpdates
  <1>4. queue = <<>> /\ batch = <<>> /\ todo = <<>>
    BY DEF Init
  <1>5. queue \in Seq(Update) /\ batch \in Seq(Update) /\ todo \in Seq(EventOf)
    BY <1>4
  <1>6. cursor \in 0..(ScreenH - 1) /\ oldCursor \in Int /\ cursor \in Int /\ winY \in Int
    BY <1>1 DEF Init
  <1>7. TypeOK
    BY <1>3, <1>4, <1>5, <1>6 DEF Init, TypeOK
  <1>8. moved \in Int /\ clipped \in BOOLEAN
    <2>1. moved = 0 /\ moved \in Int
      BY DEF Init
    <2>2. clipped \in BOOLEAN
      BY DEF Init
    <2> QED
      BY <2>1, <2>2
  <1> QED
    BY <1>2, <1>4, <1>5, <1>6, <1>7, <1>8 DEF TypeInv

\* What is pushed are updates ...
LEMMA UpdateIs ==
    /\ \A dy \in Moves : [op |-> "move", dy |-> dy] \in Update
    /\ [op |-> "follow"] \in Update
    /\ \A to \in {"arrow", "pointer"} : [op |-> "shape", to |-> to] \in Update
  BY DEF Update

\* ... and the moves in them are as named.
LEMMA DyIs ==
    /\ \A dy : Dy([op |-> "move", dy |-> dy]) = dy
    /\ Dy([op |-> "follow"]) = 0
    /\ \A to : Dy([op |-> "shape", to |-> to]) = 0
  BY DEF Dy

\* A sequence of one or of two is a sequence.
LEMMA TupleIsSeq ==
    ASSUME NEW S, NEW a \in S, NEW b \in S
    PROVE  <<a>> \in Seq(S) /\ <<a, b>> \in Seq(S)
  OBVIOUS

\* The mouse moves nothing, for it only queues events.
LEMMA MouseTypes == MovesInv /\ Mouse => MovesInv'
  <1> SUFFICES ASSUME MovesInv, Mouse PROVE MovesInv'
    OBVIOUS
  <1>1. PICK es \in Seq(EventOf) : Make(es) /\ left' \in BOOLEAN
    <2>1. ASSUME NEW dy \in Moves, Move(dy)
          PROVE <<Event("move", left, dy)>> \in Seq(EventOf) /\ left' \in BOOLEAN
      BY <2>1 DEF Move, Event, EventOf, MovesInv, TypeInv, TypeOK
    <2>2. \A l \in BOOLEAN : Event("press", l, 0) \in EventOf /\ Event("release", l, 0) \in EventOf
      BY DEF Event, EventOf
    <2>3. left \in BOOLEAN
      BY DEF MovesInv, TypeInv, TypeOK
    <2> DEFINE press(l) == Event("press", l, 0)
               release(l) == Event("release", l, 0)
    <2>4. ASSUME NEW l \in BOOLEAN
          PROVE  /\ <<press(l)>> \in Seq(EventOf) /\ <<release(l)>> \in Seq(EventOf)
                 /\ <<press(l), release(l)>> \in Seq(EventOf)
      <3>1. press(l) \in EventOf /\ release(l) \in EventOf
        BY <2>2
      <3> HIDE DEF press, release
      <3> QED
        BY <3>1, TupleIsSeq
    <2>5. ASSUME NEW f \in {1, 2}, Tap(f)
          PROVE  \E es \in Seq(EventOf) : Make(es) /\ left' \in BOOLEAN
      <3>1. PICK l \in BOOLEAN : l = (f = 1)
        OBVIOUS
      <3>2. left' = l /\ Make(<<press(l), release(l)>>)
        BY <2>5, <3>1 DEF Tap
      <3> HIDE DEF press, release
      <3> QED
        BY <2>4, <3>2
    <2>6. CASE PressLeft \/ PressRight \/ Release
      <3>1. \/ Make(<<press(TRUE)>>) \/ Make(<<press(FALSE)>>) \/ Make(<<release(left)>>)
        BY <2>6 DEF PressLeft, PressRight, Release
      <3>2. left' \in BOOLEAN
        BY <2>3, <2>6 DEF PressLeft, PressRight, Release
      <3> HIDE DEF press, release
      <3> QED
        BY <2>3, <2>4, <3>1, <3>2
    <2> QED
      BY <2>1, <2>5, <2>6 DEF Mouse, Move
  <1>2. UNCHANGED <<queue, displayVars, event, draggable, grabbed, moved, ipc, under, targets>>
        /\ todo' = es
    BY <1>1 DEF Make
  <1>3. TypeInv'
    BY <1>1, <1>2 DEF MovesInv, TypeInv, TypeOK, displayVars, Update, EventOf
  <1>4. Conserved'
    BY <1>2 DEF MovesInv, Conserved, displayVars
  <1> QED
    BY <1>3, <1>4 DEF MovesInv

\* The dispatcher queues the moves of the event it has taken, all of them.
LEMMA DispatchMoves == MovesInv /\ Dispatch => MovesInv'
  <1> SUFFICES ASSUME MovesInv, Dispatch PROVE MovesInv'
    OBVIOUS
  <1> USE DEF MovesInv
  <1>0. UNCHANGED <<left, displayVars>>
    BY DEF Dispatch, StartDispatch, GetWidgets, Handlers, MouseExit, MouseEnter, inputVars
  <1>1. \/ UNCHANGED <<queue, moved>>
        \/ \E u \in Update : Push(u) /\ moved' = moved + Dy(u)
    <2>0. moved \in Int /\ moved = moved + 0
      BY DEF TypeInv
    <2>1. CASE StartDispatch
      <3>1. Head(todo) \in EventOf
        BY <2>1 DEF StartDispatch, TypeInv
      <3>2. CASE Head(todo).type = "move"
        <4>1. Head(todo).dy \in Moves
          BY <3>1, <3>2 DEF EventOf
        <4> QED
          BY <2>1, <3>2, <4>1, UpdateIs, DyIs DEF StartDispatch
      <3> QED
        BY <2>1, <3>2 DEF StartDispatch
    <2>2. CASE GetWidgets
      BY <2>2 DEF GetWidgets
    <2>3. CASE Handlers
      <3>1. UNCHANGED queue \/ Push([op |-> "follow"])
        BY <2>3 DEF Handlers
      <3>2. UNCHANGED moved
        BY <2>3 DEF Handlers
      <3> QED
        BY <2>0, <3>1, <3>2, UpdateIs, DyIs
    <2>4. CASE MouseExit
      BY <2>0, <2>4, UpdateIs, DyIs DEF MouseExit
    <2>5. CASE MouseEnter
      BY <2>0, <2>5, UpdateIs, DyIs DEF MouseEnter
    <2> QED
      BY <2>1, <2>2, <2>3, <2>4, <2>5 DEF Dispatch
  <1>2. Conserved' /\ queue' \in Seq(Update) /\ moved' \in Int
    <2>1. CASE UNCHANGED <<queue, moved>>
      BY <1>0, <2>1 DEF Conserved, TypeInv, TypeOK, displayVars
    <2>2. CASE \E u \in Update : Push(u) /\ moved' = moved + Dy(u)
      BY <1>0, <2>2, UpdatePushed, DyType DEF TypeInv
    <2> QED
      BY <1>1, <2>1, <2>2
  <1>3. todo' \in Seq(EventOf) /\ event' \in EventOf
    <2>1. CASE StartDispatch
      BY <2>1 DEF StartDispatch, TypeInv
    <2>2. CASE ~StartDispatch
      BY <2>2 DEF Dispatch, GetWidgets, Handlers, MouseExit, MouseEnter, TypeInv
    <2> QED
      BY <2>1, <2>2
  <1>4. /\ ipc' \in {"idle", "hit", "act", "exit", "enter"}
        /\ draggable' \in BOOLEAN /\ grabbed' \in BOOLEAN
    BY DEF Dispatch, StartDispatch, GetWidgets, Handlers, MouseExit, MouseEnter, TypeInv, TypeOK
  <1> QED
    BY <1>0, <1>2, <1>3, <1>4 DEF TypeInv, TypeOK, displayVars

\* The display thread keeps the types: what it merges are numbers and shapes.
LEMMA DisplayTypes == TypeInv /\ Display => TypeInv'
  <1> SUFFICES ASSUME TypeInv, Display PROVE TypeInv'
    OBVIOUS
  <1> USE DEF TypeInv, TypeOK, inputVars
  <1>1. CASE PopUpdates
    BY <1>1 DEF PopUpdates
  <1>2. CASE RunUpdate
    <2>1. Head(batch) \in Update /\ Tail(batch) \in Seq(Update)
      BY <1>2 DEF RunUpdate
    <2>2. merged' \in [dy : Int, follow : BOOLEAN, shape : {None, "arrow", "pointer"}]
      <3>1. CASE Head(batch).op = "move"
        <4>1. Head(batch).dy \in Int
          BY <2>1, <3>1, DyType DEF Dy
        <4>2. merged' = [merged EXCEPT !.dy = @ + Head(batch).dy]
          BY <1>2, <3>1 DEF RunUpdate, Merge
        <4>3. merged \in [dy : Int, follow : BOOLEAN, shape : {None, "arrow", "pointer"}]
          OBVIOUS
        <4> QED
          BY ONLY <4>1, <4>2, <4>3
      <3>2. CASE Head(batch).op = "follow"
        BY <1>2, <3>2 DEF RunUpdate, Merge
      <3>3. CASE Head(batch).op = "shape"
        BY <1>2, <2>1, <3>3 DEF RunUpdate, Merge, Update
      <3> QED
        BY <2>1, <3>1, <3>2, <3>3 DEF Update
    <2> QED
      BY <1>2, <2>1, <2>2 DEF RunUpdate
  <1>3. CASE MoveCursor
    <2>1. merged.dy \in Int /\ merged.shape \in {None, "arrow", "pointer"}
      OBVIOUS
    <2> QED
      BY <1>3, <2>1 DEF MoveCursor
  <1>4. CASE KeepCursorOnScreen
    <2>1. OnScreen(cursor) \in 0..(ScreenH - 1)
      BY MouseAssumption DEF OnScreen
    <2>2. clipped' \in BOOLEAN
      BY <1>4 DEF KeepCursorOnScreen
    <2>3. cursor' \in 0..(ScreenH - 1) /\ cursor' \in Int
      BY <1>4, <2>1, MouseAssumption DEF KeepCursorOnScreen
    <2> QED
      BY <1>4, <2>2, <2>3 DEF KeepCursorOnScreen
  <1>5. CASE MoveFollowers
    <2>1. merged' = NoUpdates
          /\ NoUpdates \in [dy : Int, follow : BOOLEAN, shape : {None, "arrow", "pointer"}]
      BY <1>5 DEF MoveFollowers, NoUpdates
    <2>2. winY' \in Int
      BY <1>5 DEF MoveFollowers
    <2>3. dpc = "follow" /\ cursor \in 0..(ScreenH - 1)
      BY <1>5 DEF MoveFollowers
    <2>4. batch = <<>>
      BY <2>3
    <2> QED
      BY <1>5, <2>1, <2>2, <2>3, <2>4 DEF MoveFollowers
  <1> QED
    BY <1>1, <1>2, <1>3, <1>4, <1>5 DEF Display

\* What is popped, merged and added to the cursor is what was queued.
LEMMA DisplayConserves == MovesInv /\ Display => Conserved'
  <1> SUFFICES ASSUME MovesInv, Display, ~clipped' PROVE Conserved'
    BY DEF Conserved
  <1> DEFINE total == (ScreenH \div 2) + moved
             qs == MovesIn(queue)
             bs == MovesIn(batch)
  <1>1. /\ queue \in Seq(Update) /\ batch \in Seq(Update) /\ merged.dy \in Int
        /\ cursor \in Int /\ total \in Int /\ qs \in Int /\ bs \in Int
    BY MouseAssumption, SumsAdds DEF MovesInv, TypeInv, TypeOK, MovesIn
  <1>2. ~clipped /\ UNCHANGED moved
    <2>1. CASE KeepCursorOnScreen
      BY <2>1 DEF KeepCursorOnScreen, inputVars
    <2>2. CASE ~KeepCursorOnScreen
      BY <2>2 DEF Display, PopUpdates, RunUpdate, MoveCursor, MoveFollowers, inputVars
    <2> QED
      BY <2>1, <2>2
  <1>3. cursor + qs + bs + (IF dpc \in {"clamp", "follow"} THEN 0 ELSE merged.dy) = total
    BY <1>2 DEF MovesInv, Conserved
  <1>4. total' = total
    BY <1>2
  <1>5. CASE PopUpdates
    <2>1. dpc = "wait" /\ dpc' = "run" /\ batch' = queue /\ queue' = <<>> /\ cursor' = cursor
          /\ batch = <<>> /\ merged.dy = 0 /\ merged' = merged
      BY <1>5 DEF PopUpdates, MovesInv, TypeInv, TypeOK, NoUpdates
    <2>2. qs' = 0 /\ bs = 0 /\ bs' = qs
      BY <2>1, MovesInEmpty
    <2> HIDE DEF total, qs, bs
    <2>3. cursor' + qs' + bs' + merged'.dy = total'
      BY <1>1, <1>3, <1>4, <2>1, <2>2
    <2> QED
      BY <2>1, <2>3 DEF Conserved, total, qs, bs
  <1>6. CASE RunUpdate
    <2>1. dpc = "run" /\ dpc' = "run" /\ batch' = Tail(batch) /\ queue' = queue /\ cursor' = cursor
          /\ batch # <<>>
      BY <1>6 DEF RunUpdate
    <2>2. qs' = qs /\ bs' \in Int /\ bs = Dy(Head(batch)) + bs'
      BY <1>1, <2>1, MovesInTail
    <2>3. Head(batch) \in Update
      BY <1>1, <2>1
    <2>4. merged'.dy = merged.dy + Dy(Head(batch)) /\ Dy(Head(batch)) \in Int
      <3>1. merged \in [dy : Int, follow : BOOLEAN, shape : {None, "arrow", "pointer"}]
        BY DEF MovesInv, TypeInv, TypeOK
      <3>2. Dy(Head(batch)) \in Int
        BY <2>3, DyType
      <3>3. CASE Head(batch).op = "move"
        BY <1>6, <3>1, <3>2, <3>3 DEF RunUpdate, Merge, Dy
      <3>4. CASE Head(batch).op \in {"follow", "shape"}
        BY <1>6, <3>1, <3>2, <3>4 DEF RunUpdate, Merge, Dy
      <3> QED
        BY <2>3, <3>2, <3>3, <3>4 DEF Update
    <2> HIDE DEF total, qs, bs
    <2>5. cursor + qs + bs + merged.dy = total
      BY <1>3, <2>1
    <2>6. cursor' + qs' + bs' + merged'.dy = total'
      <3>1. \A c, q, b, m, b1, m1, d, t \in Int :
                c + q + b + m = t /\ b = d + b1 /\ m1 = m + d => c + q + b1 + m1 = t
        OBVIOUS
      <3>2. merged'.dy \in Int
        BY <1>1, <2>4
      <3>3. cursor + qs + bs' + merged'.dy = total
        <4>1. cursor \in Int /\ qs \in Int /\ bs \in Int /\ merged.dy \in Int /\ total \in Int
          BY <1>1
        <4>2. bs' \in Int
          BY <2>2
        <4>3. bs = Dy(Head(batch)) + bs'
          BY <2>2
        <4>4. merged'.dy = merged.dy + Dy(Head(batch)) /\ Dy(Head(batch)) \in Int
          BY <2>4
        <4>5. cursor + qs + bs + merged.dy = total
          BY <2>5
        <4> QED
        BY <3>1, <3>2, <4>1, <4>2, <4>3, <4>4, <4>5
      <3> QED
        BY <1>4, <2>1, <2>2, <3>3
    <2> QED
      BY <2>1, <2>6 DEF Conserved, total, qs, bs
  <1>7. CASE MoveCursor
    <2>1. dpc = "run" /\ dpc' = "clamp" /\ batch' = batch /\ queue' = queue
          /\ cursor' = cursor + merged.dy
      BY <1>7 DEF MoveCursor
    <2>2. qs' = qs /\ bs' = bs
      BY <2>1
    <2> HIDE DEF total, qs, bs
    <2>3. cursor' + qs' + bs' + 0 = total'
      <3>1. cursor + qs + bs + merged.dy = total
        BY <1>3, <2>1
      <3>2. cursor \in Int /\ qs \in Int /\ bs \in Int /\ merged.dy \in Int
        BY <1>1
      <3>3. (cursor + merged.dy) + qs + bs + 0 = total
        BY ONLY <3>1, <3>2
      <3> QED
        BY ONLY <1>4, <2>1, <2>2, <3>3
    <2> QED
      BY <2>1, <2>3 DEF Conserved, total, qs, bs
  <1>8. CASE KeepCursorOnScreen
    <2>1. dpc = "clamp" /\ dpc' = "follow" /\ batch' = batch /\ queue' = queue /\ cursor' = cursor
      BY <1>8 DEF KeepCursorOnScreen
    <2>2. qs' = qs /\ bs' = bs
      BY <2>1
    <2> HIDE DEF total, qs, bs
    <2>3. cursor' + qs' + bs' + 0 = total'
      BY <1>1, <1>3, <1>4, <2>1, <2>2
    <2> QED
      BY <2>1, <2>3 DEF Conserved, total, qs, bs
  <1>9. CASE MoveFollowers
    <2>1. dpc = "follow" /\ dpc' = "wait" /\ batch' = batch /\ queue' = queue /\ cursor' = cursor
          /\ merged'.dy = 0
      BY <1>9 DEF MoveFollowers, NoUpdates
    <2>2. qs' = qs /\ bs' = bs
      BY <2>1
    <2> HIDE DEF total, qs, bs
    <2>3. cursor' + qs' + bs' + merged'.dy = total'
      BY <1>1, <1>3, <1>4, <2>1, <2>2
    <2> QED
      BY <2>1, <2>3 DEF Conserved, total, qs, bs
  <1> QED
    BY <1>5, <1>6, <1>7, <1>8, <1>9 DEF Display

\* The cursor begins in the middle, with nothing to come.
LEMMA MovesInit == Init => MovesInv
  <1> SUFFICES ASSUME Init PROVE MovesInv
    OBVIOUS
  <1>1. queue = <<>> /\ batch = <<>> /\ merged.dy = 0 /\ cursor = ScreenH \div 2 /\ moved = 0
        /\ dpc = "wait"
    BY DEF Init, NoUpdates
  <1>2. (ScreenH \div 2) \in Int
    BY MouseAssumption
  <1>3. Conserved
    BY <1>1, <1>2, MovesInEmpty DEF Conserved
  <1> QED
    BY <1>3, TypeInit DEF MovesInv

\* Every step keeps what is moved in all.
LEMMA MovesStep == MovesInv /\ [Next]_vars => MovesInv'
  <1>1. CASE UNCHANGED vars
    BY <1>1 DEF vars, inputVars, displayVars, MovesInv, TypeInv, TypeOK, Conserved, Update, EventOf
  <1>2. CASE Next
    BY <1>2, MouseTypes, DispatchMoves, DisplayTypes, DisplayConserves DEF Next, MovesInv
  <1> QED
    BY <1>1, <1>2

\* Every move dispatched reaches the cursor, once, whatever batches the display
\* thread takes them in - until the edge of the screen cuts one.
THEOREM MovesAreConserved == Spec => []MovesConserved
  <1>1. MovesInv => MovesConserved
    BY DEF MovesInv, TypeInv, Conserved, MovesConserved
  <1> QED
    BY <1>1, MovesInit, MovesStep, PTL DEF Spec

-----------------------------------------------------------------------------
(* The shape of the cursor *)

LastIn(updates, i) == /\ i \in DOMAIN updates /\ updates[i].op = "shape"
                      /\ \A j \in DOMAIN updates : j > i => updates[j].op # "shape"
NoShape(updates) == \A i \in DOMAIN updates : updates[i].op # "shape"

\* What the dispatcher has asked for: between exit and enter, what was left.
Wanted == IF under = "button" /\ ~(ipc = "enter" /\ Target # under) THEN "pointer" ELSE "arrow"

\* The last shape on its way is the one wanted: in the queue, else in the batch,
\* else among the merged updates, else on the screen.
ShapeInv ==
    /\ \A i : LastIn(queue, i) => queue[i].to = Wanted
    /\ NoShape(queue) => \A i : LastIn(batch, i) => batch[i].to = Wanted
    /\ NoShape(queue) /\ NoShape(batch) =>
          (IF merged.shape # None THEN merged.shape ELSE shape) = Wanted
    /\ dpc \in {"clamp", "follow"} /\ merged.shape # None => shape = merged.shape

\* Which update of a shape is last in a queue, after one more ...
LEMMA LastAppended ==
    ASSUME NEW q \in Seq(Update), NEW u \in Update
    PROVE  /\ u.op = "shape" =>
                /\ ~NoShape(Append(q, u))
                /\ \A i : LastIn(Append(q, u), i) => Append(q, u)[i] = u
           /\ u.op # "shape" =>
                /\ NoShape(Append(q, u)) <=> NoShape(q)
                /\ \A i : LastIn(Append(q, u), i) => LastIn(q, i) /\ Append(q, u)[i] = q[i]
  <1> DEFINE a == Append(q, u)
             n == Len(q)
  <1>1. /\ n \in Nat /\ DOMAIN q = 1..n /\ DOMAIN a = 1..(n + 1)
        /\ a[n + 1] = u /\ \A i \in 1..n : a[i] = q[i]
    OBVIOUS
  <1> HIDE DEF a, n
  <1>2. ASSUME u.op = "shape"
        PROVE  ~NoShape(a) /\ \A i : LastIn(a, i) => a[i] = u
    <2>1. n + 1 \in DOMAIN a /\ a[n + 1].op = "shape"
      BY <1>1, <1>2
    <2>2. ASSUME NEW i, LastIn(a, i) PROVE i = n + 1
      BY <1>1, <2>1, <2>2 DEF LastIn
    <2> QED
      BY <1>1, <2>1, <2>2 DEF NoShape
  <1>3. ASSUME u.op # "shape"
        PROVE  /\ NoShape(a) <=> NoShape(q)
               /\ \A i : LastIn(a, i) => LastIn(q, i) /\ a[i] = q[i]
    <2>1. NoShape(a) <=> NoShape(q)
      BY <1>1, <1>3 DEF NoShape
    <2>2. ASSUME NEW i, LastIn(a, i) PROVE LastIn(q, i) /\ a[i] = q[i]
      <3>1. i \in 1..n
        BY <1>1, <1>3, <2>2 DEF LastIn
      <3> QED
        BY <1>1, <2>2, <3>1 DEF LastIn
    <2> QED
      BY <2>1, <2>2
  <1> QED
    BY <1>2, <1>3 DEF a

\* ... and after one less.
LEMMA LastTaken ==
    ASSUME NEW q \in Seq(Update), q # <<>>
    PROVE  /\ \A i : LastIn(Tail(q), i) =>
                 i \in Nat /\ LastIn(q, i + 1) /\ q[i + 1] = Tail(q)[i]
           /\ ~NoShape(Tail(q)) => ~NoShape(q)
           /\ NoShape(Tail(q)) /\ Head(q).op = "shape" => LastIn(q, 1) /\ q[1] = Head(q)
           /\ NoShape(Tail(q)) /\ Head(q).op # "shape" => NoShape(q)
  <1> DEFINE b == Tail(q)
             n == Len(q) - 1
  <1>1. /\ n \in Nat /\ DOMAIN q = 1..(n + 1) /\ DOMAIN b = 1..n
        /\ Head(q) = q[1] /\ \A i \in 1..n : b[i] = q[i + 1]
    OBVIOUS
  <1> HIDE DEF b, n
  <1>2. ASSUME NEW i, LastIn(b, i)
        PROVE  i \in Nat /\ LastIn(q, i + 1) /\ q[i + 1] = b[i]
    <2>1. i \in 1..n /\ b[i].op = "shape" /\ i + 1 \in 1..(n + 1)
      BY <1>1, <1>2 DEF LastIn
    <2>2. ASSUME NEW j \in 1..(n + 1), j > i + 1 PROVE q[j].op # "shape"
      <3>1. j - 1 \in 1..n /\ j - 1 > i /\ (j - 1) + 1 = j
        BY <1>1, <2>1, <2>2
      <3>2. b[j - 1].op # "shape" /\ b[j - 1] = q[j]
        BY <1>1, <1>2, <3>1 DEF LastIn
      <3> QED
        BY <3>2
    <2> QED
      BY <1>1, <2>1, <2>2 DEF LastIn
  <1>3. ASSUME ~NoShape(b) PROVE ~NoShape(q)
    <2>1. PICK i \in 1..n : b[i].op = "shape"
      BY <1>1, <1>3 DEF NoShape
    <2>2. i + 1 \in DOMAIN q /\ q[i + 1].op = "shape"
      BY <1>1, <2>1
    <2> QED
      BY <2>2 DEF NoShape
  <1>4. ASSUME NoShape(b), NEW j \in 1..(n + 1), j > 1 PROVE q[j].op # "shape"
    <2>1. j - 1 \in 1..n /\ (j - 1) + 1 = j
      BY <1>1, <1>4
    <2>2. b[j - 1].op # "shape" /\ b[j - 1] = q[j]
      BY <1>1, <1>4, <2>1 DEF NoShape
    <2> QED
      BY <2>2
  <1>5. ASSUME NoShape(b), Head(q).op = "shape" PROVE LastIn(q, 1) /\ q[1] = Head(q)
    BY <1>1, <1>4, <1>5 DEF LastIn
  <1>6. ASSUME NoShape(b), Head(q).op # "shape" PROVE NoShape(q)
    BY <1>1, <1>4, <1>6 DEF NoShape
  <1> QED
    BY <1>2, <1>3, <1>5, <1>6 DEF b

\* A step of the input thread that queues no shape and wants none.
LEMMA SameShape ==
    ASSUME TypeInv, ShapeInv, UNCHANGED displayVars, Wanted' = Wanted,
           \/ UNCHANGED queue
           \/ \E u \in Update : Push(u) /\ u.op # "shape"
    PROVE  ShapeInv'
  <1>1. UNCHANGED <<batch, merged, shape, dpc>>
    BY DEF displayVars
  <1>2. CASE UNCHANGED queue
    BY <1>1, <1>2 DEF ShapeInv
  <1>3. CASE \E u \in Update : Push(u) /\ u.op # "shape"
    <2>1. PICK u \in Update : queue' = Append(queue, u) /\ u.op # "shape"
      BY <1>3 DEF Push
    <2>2. queue \in Seq(Update)
      BY DEF TypeInv, TypeOK
    <2>3. /\ NoShape(queue') <=> NoShape(queue)
          /\ \A i : LastIn(queue', i) => LastIn(queue, i) /\ queue'[i] = queue[i]
      BY <2>1, <2>2, LastAppended
    <2> QED
      BY <1>1, <2>3 DEF ShapeInv
  <1> QED
    BY <1>2, <1>3

\* One that queues a shape queues the one wanted from then on.
LEMMA NewShape ==
    ASSUME TypeInv, ShapeInv, UNCHANGED displayVars, NEW to \in {"arrow", "pointer"},
           Push([op |-> "shape", to |-> to]), Wanted' = to
    PROVE  ShapeInv'
  <1> DEFINE u == [op |-> "shape", to |-> to]
  <1>1. u \in Update /\ u.op = "shape" /\ u.to = to
    BY UpdateIs
  <1>2. queue \in Seq(Update) /\ queue' = Append(queue, u)
    BY DEF TypeInv, TypeOK, Push
  <1> HIDE DEF u
  <1>3. ~NoShape(queue') /\ \A i : LastIn(queue', i) => queue'[i] = u
    BY <1>1, <1>2, LastAppended
  <1>4. UNCHANGED <<merged, shape, dpc>>
    BY DEF displayVars
  <1> QED
    BY <1>1, <1>3, <1>4 DEF ShapeInv

\* The dispatcher asks for the shape of what it takes to be under the mouse ...
LEMMA ShapeDispatch == TypeInv /\ ShapeInv /\ (Mouse \/ Dispatch) => ShapeInv'
  <1> SUFFICES ASSUME TypeInv, ShapeInv, Mouse \/ Dispatch PROVE ShapeInv'
    OBVIOUS
  <1>0. UNCHANGED displayVars
    BY DEF Mouse, Move, PressLeft, PressRight, Release, Tap, Make,
           Dispatch, StartDispatch, GetWidgets, Handlers, MouseExit, MouseEnter
  <1>1. CASE Mouse
    <2>1. UNCHANGED <<ipc, targets, under, queue>>
      BY <1>1 DEF Mouse, Move, PressLeft, PressRight, Release, Tap, Make
    <2> QED
      BY <1>0, <2>1, SameShape DEF Wanted, Target
  <1>2. CASE StartDispatch
    <2>1. ipc = "idle" /\ ipc' = "hit" /\ UNCHANGED under
      BY <1>2 DEF StartDispatch
    <2>2. Wanted' = Wanted
      BY <2>1 DEF Wanted
    <2>3. UNCHANGED queue \/ \E u \in Update : Push(u) /\ u.op # "shape"
      <3>1. Head(todo) \in EventOf
        BY <1>2 DEF StartDispatch, TypeInv
      <3>2. CASE Head(todo).type = "move"
        <4>1. Head(todo).dy \in Moves
          BY <3>1, <3>2 DEF EventOf
        <4>2. [op |-> "move", dy |-> Head(todo).dy].op = "move"
          OBVIOUS
        <4> QED
          BY <1>2, <3>2, <4>1, <4>2, UpdateIs DEF StartDispatch
      <3> QED
        BY <1>2, <3>2 DEF StartDispatch
    <2> QED
      BY <1>0, <2>2, <2>3, SameShape
  <1>3. CASE GetWidgets
    <2>1. ipc = "hit" /\ ipc' = "act" /\ UNCHANGED <<under, queue>>
      BY <1>3 DEF GetWidgets
    <2>2. Wanted' = Wanted
      BY <2>1 DEF Wanted
    <2> QED
      BY <1>0, <2>1, <2>2, SameShape
  <1>4. CASE Handlers
    <2>1. ipc = "act" /\ ipc' # "enter" /\ UNCHANGED under
      BY <1>4 DEF Handlers
    <2>2. Wanted' = Wanted
      BY <2>1 DEF Wanted
    <2>3. UNCHANGED queue \/ Push([op |-> "follow"])
      BY <1>4 DEF Handlers
    <2>4. [op |-> "follow"] \in Update /\ [op |-> "follow"].op # "shape"
      BY UpdateIs
    <2> QED
      BY <1>0, <2>2, <2>3, <2>4, SameShape
  <1>5. CASE MouseExit
    <2>1. ipc = "exit" /\ ipc' = "enter" /\ UNCHANGED <<under, targets>> /\ Target' = Target
      BY <1>5 DEF MouseExit, Target
    <2>2. CASE Target # under /\ under = "button"
      <3>1. Wanted' = "arrow" /\ Push([op |-> "shape", to |-> "arrow"])
        BY <1>5, <2>1, <2>2 DEF MouseExit, Wanted
      <3> QED
        BY <1>0, <3>1, NewShape
    <2>3. CASE ~(Target # under /\ under = "button")
      <3>1. Wanted' = Wanted /\ UNCHANGED queue
        BY <1>5, <2>1, <2>3 DEF MouseExit, Wanted
      <3> QED
        BY <1>0, <3>1, SameShape
    <2> QED
      BY <2>2, <2>3
  <1>6. CASE MouseEnter
    <2>1. ipc = "enter" /\ ipc' = "idle" /\ under' = Target
      BY <1>6 DEF MouseEnter
    <2>2. CASE Target # under /\ Target = "button"
      <3>1. Wanted' = "pointer" /\ Push([op |-> "shape", to |-> "pointer"])
        BY <1>6, <2>1, <2>2 DEF MouseEnter, Wanted
      <3> QED
        BY <1>0, <3>1, NewShape
    <2>3. CASE ~(Target # under /\ Target = "button")
      <3>1. UNCHANGED queue
        BY <1>6, <2>3 DEF MouseEnter
      <3>2. Wanted' = Wanted
        BY <2>1, <2>3 DEF Wanted
      <3> QED
        BY <1>0, <3>1, <3>2, SameShape
    <2> QED
      BY <2>2, <2>3
  <1> QED
    BY <1>1, <1>2, <1>3, <1>4, <1>5, <1>6 DEF Dispatch

\* ... and the display thread gives the cursor the last shape asked for.
LEMMA ShapeDisplay == TypeInv /\ ShapeInv /\ Display => ShapeInv'
  <1> SUFFICES ASSUME TypeInv, ShapeInv, Display PROVE ShapeInv'
    OBVIOUS
  <1>0. UNCHANGED <<ipc, targets, under>> /\ Wanted' = Wanted
    BY DEF Display, PopUpdates, RunUpdate, MoveCursor, KeepCursorOnScreen, MoveFollowers, inputVars,
           Wanted, Target
  <1>1. CASE PopUpdates
    <2>1. batch = <<>> /\ merged = NoUpdates /\ batch' = queue /\ queue' = <<>>
          /\ UNCHANGED <<merged, shape>>
      BY <1>1 DEF PopUpdates, TypeInv, TypeOK
    <2>2. NoShape(batch) /\ NoShape(queue') /\ \A i : ~LastIn(queue', i)
      BY <2>1 DEF NoShape, LastIn
    <2>3. dpc' = "run"
      BY <1>1 DEF PopUpdates
    <2> QED
      BY <1>0, <2>1, <2>2, <2>3 DEF ShapeInv
  <1>2. CASE RunUpdate
    <2>1. batch \in Seq(Update) /\ batch # <<>> /\ batch' = Tail(batch) /\ UNCHANGED <<queue, shape>>
          /\ merged' = Merge(Head(batch)) /\ Head(batch) \in Update
      BY <1>2 DEF RunUpdate, TypeInv, TypeOK
    <2>2. merged \in [dy : Int, follow : BOOLEAN, shape : {None, "arrow", "pointer"}]
      BY DEF TypeInv, TypeOK
    <2>3. \A i : LastIn(queue', i) => queue'[i].to = Wanted'
      BY <1>0, <2>1 DEF ShapeInv
    <2>4. ASSUME NoShape(queue'), NEW i, LastIn(batch', i) PROVE batch'[i].to = Wanted'
      <3>1. LastIn(batch, i + 1) /\ batch[i + 1] = batch'[i]
        BY <2>1, <2>4, LastTaken
      <3> QED
        BY <1>0, <2>1, <2>4, <3>1 DEF ShapeInv
    <2>5. ASSUME NoShape(queue'), NoShape(batch')
          PROVE  (IF merged'.shape # None THEN merged'.shape ELSE shape') = Wanted'
      <3>1. CASE Head(batch).op = "shape"
        <4>1. LastIn(batch, 1) /\ batch[1] = Head(batch)
          BY <2>1, <2>5, <3>1, LastTaken
        <4>2. Head(batch).to = Wanted
          BY <2>1, <2>5, <4>1 DEF ShapeInv
        <4>3. merged'.shape = Head(batch).to
          BY <2>1, <2>2, <3>1 DEF Merge
        <4>4. Wanted # None
          BY DEF Wanted, None
        <4> QED
          BY <1>0, <4>2, <4>3, <4>4
      <3>2. CASE Head(batch).op # "shape"
        <4>1. NoShape(batch)
          BY <2>1, <2>5, <3>2, LastTaken
        <4>2. merged'.shape = merged.shape
          <5>1. CASE Head(batch).op = "move"
            BY <2>1, <2>2, <5>1 DEF Merge
          <5>2. CASE Head(batch).op = "follow"
            BY <2>1, <2>2, <5>2 DEF Merge
          <5> QED
            BY <2>1, <3>2, <5>1, <5>2 DEF Update
        <4> QED
          BY <1>0, <2>1, <2>5, <4>1, <4>2 DEF ShapeInv
      <3> QED
        BY <3>1, <3>2
    <2>6. dpc' = "run"
      BY <1>2 DEF RunUpdate
    <2> QED
      BY <2>3, <2>4, <2>5, <2>6 DEF ShapeInv
  <1>3. CASE MoveCursor
    BY <1>0, <1>3 DEF MoveCursor, ShapeInv
  <1>4. CASE KeepCursorOnScreen
    BY <1>0, <1>4 DEF KeepCursorOnScreen, ShapeInv
  <1>5. CASE MoveFollowers
    <2>1. UNCHANGED <<queue, batch, shape>> /\ merged'.shape = None /\ dpc' = "wait"
      BY <1>5 DEF MoveFollowers, NoUpdates
    <2>2. merged.shape # None => shape = merged.shape
      BY <1>5 DEF MoveFollowers, ShapeInv
    <2> QED
      BY <1>0, <2>1, <2>2 DEF ShapeInv
  <1> QED
    BY <1>1, <1>2, <1>3, <1>4, <1>5 DEF Display

\* With nothing on its way, the shape is that of what is under the mouse.
LEMMA ShapeSettled == TypeInv /\ ShapeInv => ShapeIsRight
  <1> SUFFICES ASSUME TypeInv, ShapeInv, Settled
               PROVE  shape = IF under = "button" THEN "pointer" ELSE "arrow"
    BY DEF ShapeIsRight
  <1>1. queue = <<>> /\ batch = <<>> /\ merged.shape = None /\ ipc = "idle"
    BY DEF Settled, TypeInv, TypeOK, NoUpdates
  <1>2. NoShape(queue) /\ NoShape(batch)
    BY <1>1 DEF NoShape
  <1> QED
    BY <1>1, <1>2 DEF ShapeInv, Wanted

\* Whenever every update has been carried out the cursor is the hand exactly
\* when the widget last entered is the button, however enter, exit and move
\* updates were batched and merged on the way.
THEOREM ShapeIsAlwaysRight == Spec => []ShapeIsRight
  <1>1. Init => MovesInv /\ ShapeInv
    <2> SUFFICES ASSUME Init PROVE MovesInv /\ ShapeInv
      OBVIOUS
    <2>1. MovesInv
      BY MovesInit
    <2>2. queue = <<>> /\ batch = <<>> /\ merged.shape = None /\ shape = "arrow"
          /\ under = None /\ dpc = "wait"
      BY DEF Init, NoUpdates
    <2>3. \A i : ~LastIn(queue, i) /\ ~LastIn(batch, i)
      BY <2>2 DEF LastIn
    <2> QED
      BY <2>1, <2>2, <2>3 DEF ShapeInv, Wanted, None
  <1>2. MovesInv /\ ShapeInv /\ [Next]_vars => ShapeInv'
    <2>1. CASE UNCHANGED vars
      <3>1. UNCHANGED <<queue, batch, merged, shape, dpc>> /\ Wanted' = Wanted
        BY <2>1 DEF vars, inputVars, displayVars, Wanted, Target
      <3> QED
        BY <3>1 DEF ShapeInv
    <2> QED
      BY <2>1, ShapeDispatch, ShapeDisplay DEF Next, MovesInv
  <1>3. MovesInv /\ ShapeInv => ShapeIsRight
    BY ShapeSettled DEF MovesInv
  <1> QED
    BY <1>1, <1>2, <1>3, MovesStep, PTL DEF Spec

=============================================================================
