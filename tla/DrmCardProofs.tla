----------------------------- MODULE DrmCardProofs -----------------------------
(***************************************************************************)
(* Proofs about DisplayRepaint and DrmCard, for any number of clients,     *)
(* windows, connectors and CRTCs and any number of changes of the stack.   *)
(***************************************************************************)
EXTENDS DrmCard, WellFoundedInduction, TLAPS

-----------------------------------------------------------------------------
(* What std::remove and erase leave of the stack *)

\* Induction over the numbers, for a set of them.
LEMMA SetInduction ==
    ASSUME NEW S, 0 \in S, \A n \in Nat : n \in S => n + 1 \in S
    PROVE  Nat \subseteq S
  <1> DEFINE R == OpToRel(<, Nat)
             T == Nat \ S
  <1>1. SUFFICES ASSUME T # {} PROVE FALSE
    OBVIOUS
  <1>2. IsWellFoundedOn(R, Nat)
    BY NatLessThanWellFounded
  <1>3. PICK x \in T : \A y \in T : <<y, x>> \notin R
    <2>1. T \subseteq Nat
      OBVIOUS
    <2> HIDE DEF R, T
    <2> QED
      BY <1>1, <1>2, <2>1, WFMin
  <1>4. ASSUME NEW m \in Nat, NEW n \in Nat, m < n PROVE <<m, n>> \in R
    BY <1>4 DEF OpToRel
  <1> HIDE DEF R
  <1>5. x \in Nat /\ x \notin S /\ x # 0
    OBVIOUS
  <1>6. x - 1 \in Nat /\ x - 1 < x
    BY <1>5
  <1>7. x - 1 \in S
    BY <1>3, <1>4, <1>5, <1>6
  <1> QED
    BY <1>5, <1>6, <1>7

\* f starts with a and goes on by g, up to n.
Follows(f, a, g, n) == f[0] = a /\ \A k \in 1..n : f[k] = g[<<f[k-1], k>>]

\* A function defined from each number to the next exists, up to n.
LEMMA RecursionExists ==
    ASSUME NEW S, NEW a \in S, NEW n \in Nat, NEW g \in [S \X (1..n) -> S]
    PROVE  \E f \in [0..n -> S] : Follows(f, a, g, n)
  <1> DEFINE I == {m \in Nat : m <= n => \E f \in [0..m -> S] : Follows(f, a, g, m)}
  <1>1. 0 \in I
    <2>1. [k \in 0..0 |-> a] \in [0..0 -> S] /\ [k \in 0..0 |-> a][0] = a /\ 1..0 = {}
      OBVIOUS
    <2> QED
      BY <2>1 DEF Follows
  <1>2. ASSUME NEW m \in Nat, m \in I PROVE m + 1 \in I
    <2> SUFFICES ASSUME m + 1 <= n
                 PROVE  \E f \in [0..m+1 -> S] : Follows(f, a, g, m+1)
      OBVIOUS
    <2>1. PICK f \in [0..m -> S] : Follows(f, a, g, m)
      BY <1>2
    <2> DEFINE last == g[<<f[m], m+1>>]
               h == [k \in 0..m+1 |-> IF k = m + 1 THEN last ELSE f[k]]
    <2>2. last \in S
      <3>1. <<f[m], m+1>> \in S \X (1..n)
        OBVIOUS
      <3>2. \A x \in S \X (1..n) : g[x] \in S
        OBVIOUS
      <3> QED
        BY <3>1, <3>2
    <2>3. h \in [0..m+1 -> S]
      BY <2>2
    <2>4. h[0] = a
      BY <2>1 DEF Follows
    <2>5. ASSUME NEW k \in 1..m+1 PROVE h[k] = g[<<h[k-1], k>>]
      <3>1. CASE k = m + 1
        <4>1. h[m + 1] = g[<<f[m], m + 1>>] /\ h[m] = f[m] /\ (m + 1) - 1 = m
          OBVIOUS
        <4> HIDE DEF h
        <4> QED
          BY <3>1, <4>1
      <3>2. CASE k \in 1..m
        <4>1. h[k] = f[k] /\ h[k-1] = f[k-1]
          BY <3>2
        <4> HIDE DEF h
        <4> QED
          BY <2>1, <3>2, <4>1 DEF Follows
      <3> QED
        BY <3>1, <3>2
    <2> HIDE DEF h
    <2> QED
      BY <2>3, <2>4, <2>5 DEF Follows
  <1> HIDE DEF I
  <1>3. n \in I
    BY <1>1, <1>2, SetInduction
  <1> QED
    BY <1>3 DEF I

\* What the recursion in Without(w) computes, up to i.
KeptUpTo(f, w, n) ==
    /\ f[0] = <<>>
    /\ \A i \in 1..n : f[i] = IF stack[i] = w THEN f[i-1] ELSE Append(f[i-1], stack[i])

\* Kept is what its definition says, element after element.
LEMMA KeptIs ==
    ASSUME stack \in Seq(Window), NEW w
    PROVE  KeptUpTo(Kept(w), w, Len(stack))
  <1> DEFINE n == Len(stack)
             P(f) == f = [i \in 0..n |-> IF i = 0 THEN <<>>
                                         ELSE IF stack[i] = w THEN f[i-1]
                                         ELSE Append(f[i-1], stack[i])]
             g == [x \in Seq(Window) \X (1..n) |->
                      IF stack[x[2]] = w THEN x[1] ELSE Append(x[1], stack[x[2]])]
  <1>1. n \in Nat /\ g \in [Seq(Window) \X (1..n) -> Seq(Window)] /\ <<>> \in Seq(Window)
    OBVIOUS
  <1>2. PICK f \in [0..n -> Seq(Window)] : Follows(f, <<>>, g, n)
    <2> HIDE DEF g, n
    <2> QED
      BY <1>1, RecursionExists
  <1>3. KeptUpTo(f, w, n)
    <2>1. ASSUME NEW i \in 1..n
          PROVE f[i] = IF stack[i] = w THEN f[i-1] ELSE Append(f[i-1], stack[i])
      <3>1. f[i] = g[<<f[i-1], i>>]
        <4> HIDE DEF g
        <4> QED
          BY <1>2 DEF Follows
      <3>2. f[i-1] \in Seq(Window)
        OBVIOUS
      <3> QED
        BY <3>1, <3>2
    <2> QED
      BY <1>2, <2>1 DEF Follows, KeptUpTo
  <1>4. P(f)
    <2>1. ASSUME NEW i \in 0..n
          PROVE f[i] = IF i = 0 THEN <<>> ELSE IF stack[i] = w THEN f[i-1]
                       ELSE Append(f[i-1], stack[i])
      <3>1. CASE i = 0
        BY <1>3, <3>1 DEF KeptUpTo
      <3>2. CASE i \in 1..n
        BY <1>3, <3>2 DEF KeptUpTo
      <3> QED
        BY <3>1, <3>2
    <2>2. f = [i \in 0..n |-> f[i]]
      OBVIOUS
    <2> QED
      BY <2>1, <2>2
  <1>5. P(Kept(w))
    <2>1. Kept(w) = CHOOSE f_1 : P(f_1)
      BY DEF Kept
    <2> HIDE DEF P
    <2> QED
      BY <1>4, <2>1
  <1>6. Kept(w)[0] = <<>>
    BY <1>1, <1>5
  <1>7. ASSUME NEW i \in 1..n
        PROVE Kept(w)[i] = IF stack[i] = w THEN Kept(w)[i-1] ELSE Append(Kept(w)[i-1], stack[i])
    <2>1. i \in 0..n /\ i # 0
      BY <1>1
    <2> QED
      BY <1>5, <2>1
  <1> QED
    BY <1>6, <1>7 DEF KeptUpTo

\* What is left of the stack has no w in it, and nothing twice.
LEMMA WithoutIs ==
    ASSUME stack \in Seq(Window), IsInjective(stack), NEW w
    PROVE  Without(w) \in Seq(Window) /\ IsInjective(Without(w)) /\ w \notin ToSet(Without(w))
  <1> DEFINE n == Len(stack)
             k == Kept(w)
             Good(t, m) == /\ t \in Seq(Window) /\ IsInjective(t) /\ w \notin ToSet(t)
                           /\ ToSet(t) \subseteq {stack[j] : j \in 1..m}
             S == {m \in Nat : m <= n => Good(k[m], m)}
  <1>1. k[0] = <<>> /\ \A i \in 1..n : k[i] = IF stack[i] = w THEN k[i-1] ELSE Append(k[i-1], stack[i])
    BY KeptIs DEF KeptUpTo
  <1>2. n \in Nat /\ \A i \in 1..n : stack[i] \in Window
    OBVIOUS
  <1>3. \A i, j \in 1..n : stack[i] = stack[j] => i = j
    BY DEF IsInjective
  <1> HIDE DEF n, k
  <1>4. 0 \in S
    <2>1. <<>> \in Seq(Window) /\ DOMAIN <<>> = {}
      OBVIOUS
    <2>2. Good(<<>>, 0)
      BY <2>1 DEF IsInjective, ToSet
    <2> HIDE DEF Good
    <2> QED
      BY <1>1, <1>2, <2>2
  <1>5. ASSUME NEW m \in Nat, m \in S PROVE m + 1 \in S
    <2> SUFFICES ASSUME m + 1 <= n PROVE Good(k[m+1], m+1)
      OBVIOUS
    <2>1. Good(k[m], m) /\ m + 1 \in 1..n /\ (m + 1) - 1 = m
      BY <1>2, <1>5
    <2>2. CASE stack[m+1] = w
      <3>1. k[m+1] = k[m]
        BY <1>1, <2>1, <2>2
      <3>2. {stack[j] : j \in 1..m} \subseteq {stack[j] : j \in 1..m+1}
        BY <2>1
      <3> QED
        BY <2>1, <3>1, <3>2
    <2>3. CASE stack[m+1] # w
      <3> DEFINE v == stack[m+1]
                 t == k[m]
                 u == Append(t, v)
      <3>1. k[m+1] = u
        BY <1>1, <2>1, <2>3
      <3>2. v \notin ToSet(t)
        <4>1. v \notin {stack[j] : j \in 1..m}
          BY <1>2, <1>3, <2>1
        <4> QED
          BY <2>1, <4>1
      <3>3. v \in Window /\ v # w
        BY <1>2, <2>1, <2>3
      <3>4. t \in Seq(Window) /\ IsInjective(t) /\ w \notin ToSet(t)
        BY <2>1
      <3> HIDE DEF v, t
      <3>5. /\ u \in Seq(Window) /\ DOMAIN u = 1..Len(t)+1 /\ DOMAIN t = 1..Len(t) /\ Len(t) \in Nat
            /\ u[Len(t)+1] = v /\ \A i \in 1..Len(t) : u[i] = t[i]
        BY <3>3, <3>4
      <3> HIDE DEF u
      <3>6. IsInjective(u)
        BY <3>2, <3>4, <3>5 DEF IsInjective, ToSet
      <3>7. \A x : x \in ToSet(u) => x = v \/ x \in ToSet(t)
        BY <3>5 DEF ToSet
      <3>8. v \in {stack[j] : j \in 1..m+1}
        BY <2>1 DEF v
      <3>9. ToSet(t) \subseteq {stack[j] : j \in 1..m+1}
        BY <2>1 DEF t
      <3> QED
        BY <3>1, <3>3, <3>4, <3>5, <3>6, <3>7, <3>8, <3>9
    <2> QED
      BY <2>2, <2>3
  <1> HIDE DEF S
  <1>6. n \in S
    BY <1>2, <1>4, <1>5, SetInduction
  <1> QED
    BY <1>2, <1>6 DEF S, Without, n, k

-----------------------------------------------------------------------------
(* Repaints *)

\* The windows below the next one have been painted on the back buffer.
Painted(t) ==
    /\ end[t] = Len(stack) /\ next[t] \in 1..Len(stack) + 1
    /\ Len(bufs[Back]) = next[t] - 1
    /\ \A i \in 1..next[t] - 1 : bufs[Back][i] = stack[i]

\* How far a thread has come with a repaint that no other has met.
AloneAt(t) ==
    /\ \A u \in Thread \ {t} : pc[u] = "idle"
    /\ pc[t] = "paint" => Painted(t)
    /\ pc[t] = "show" => flip[t] = Back /\ bufs[Back] = stack
    /\ pc[t] = "swap" => shown = flip[t] /\ bufs[shown] = stack

CleanIdle == clean => bufs[shown] = stack /\ \A t \in Thread : pc[t] = "idle"

\* As long as repaints have not met, each is alone, and only the one that is
\* about to swap the buffers shows the back one.
NeverMet ==
    ~met => \A t \in Thread :
        /\ pc[t] # "idle" => alone[t]
        /\ pc[t] = "show" => flip[t] = Back
        /\ pc[t] = "swap" => shown = Back
OneShown == ~met /\ (\A t \in Thread : pc[t] # "swap") => shown = front

RepaintInv ==
    /\ TypeOK /\ next \in [Thread -> Nat] /\ end \in [Thread -> Nat]
    /\ \A t \in Thread : alone[t] => AloneAt(t)
    /\ CleanIdle /\ NeverMet /\ OneShown

\* The invariant of the display holds at the beginning.
LEMMA RepaintInit == Init => RepaintInv
  <1> SUFFICES ASSUME Init PROVE RepaintInv
    OBVIOUS
  <1> USE DEF Init
  <1>1. stack \in Seq(Window) /\ IsInjective(stack) /\ bufs \in [0..1 -> Seq(Window)]
    <2>1. <<>> \in Seq(Window) /\ IsInjective(<<>>)
      BY DEF IsInjective
    <2> QED
      BY <2>1
  <1>2. /\ front \in 0..1 /\ shown \in 0..1 /\ flip \in [Thread -> 0..1]
        /\ pc \in [Thread -> {"idle", "clear", "paint", "show", "swap"}]
        /\ changes \in 0..MaxChanges
    BY RepaintAssumption
  <1>3. alone \in [Thread -> BOOLEAN] /\ clean \in BOOLEAN /\ met \in BOOLEAN
    OBVIOUS
  <1>4. TypeOK
    BY <1>1, <1>2, <1>3 DEF TypeOK
  <1>5. \A t \in Thread : ~alone[t] /\ pc[t] = "idle"
    OBVIOUS
  <1>6. CleanIdle /\ NeverMet /\ OneShown
    BY <1>5 DEF CleanIdle, NeverMet, OneShown
  <1>7. next \in [Thread -> Nat] /\ end \in [Thread -> Nat]
    OBVIOUS
  <1> QED
    BY <1>4, <1>5, <1>6, <1>7 DEF RepaintInv

\* A change is the beginning of a repaint, alone unless another thread is at one.
LEMMA ChangeInv ==
    ASSUME RepaintInv, NEW t \in Thread, NEW s \in Seq(Window), IsInjective(s), Change(t, s)
    PROVE  RepaintInv'
  <1>1. /\ pc[t] = "idle" /\ pc' = [pc EXCEPT ![t] = "clear"] /\ stack' = s
        /\ changes' = changes + 1 /\ changes < MaxChanges /\ clean' = FALSE
        /\ UNCHANGED <<bufs, front, shown, next, end, flip>>
    BY DEF Change
  <1>2. /\ alone' \in [Thread -> BOOLEAN] /\ met' \in BOOLEAN
        /\ \A u \in Thread : alone'[u] <=> u = t /\ \A v \in Thread \ {t} : pc[v] = "idle"
    BY DEF Change, Disturb, RepaintInv, TypeOK
  <1>3. met' <=> met \/ ~alone'[t]
    BY DEF Change
  <1>4. pc' \in [Thread -> {"idle", "clear", "paint", "show", "swap"}]
        /\ pc'[t] = "clear" /\ \A u \in Thread \ {t} : pc'[u] = pc[u]
    BY <1>1 DEF RepaintInv, TypeOK
  <1>5. changes' \in 0..MaxChanges
    BY <1>1, RepaintAssumption DEF RepaintInv, TypeOK
  <1>6. TypeOK' /\ (next \in [Thread -> Nat] /\ end \in [Thread -> Nat])'
    BY <1>1, <1>2, <1>4, <1>5 DEF RepaintInv, TypeOK
  <1>7. ASSUME NEW u \in Thread, alone'[u] PROVE AloneAt(u)'
    <2>1. u = t /\ \A v \in Thread \ {t} : pc[v] = "idle"
      BY <1>2, <1>7
    <2> QED
      BY <1>4, <2>1 DEF AloneAt
  <1>8. CleanIdle'
    BY <1>1 DEF CleanIdle
  <1>9. ASSUME ~met' PROVE ~met /\ alone'[t] /\ \A v \in Thread \ {t} : pc[v] = "idle"
    BY <1>2, <1>3, <1>9
  <1>10. NeverMet'
    BY <1>4, <1>9 DEF NeverMet
  <1>11. OneShown'
    <2> SUFFICES ASSUME ~met' PROVE shown' = front'
      BY DEF OneShown
    <2>1. \A v \in Thread : pc[v] = "idle"
      BY <1>1, <1>9
    <2> QED
      BY <1>1, <1>9, <2>1 DEF RepaintInv, OneShown
  <1> QED
    BY <1>6, <1>7, <1>8, <1>10, <1>11 DEF RepaintInv

\* The invariant is kept by what changes the windows ...
LEMMA ChangesInv ==
    ASSUME RepaintInv, NEW t \in Thread, ChangeStep(t)
    PROVE  RepaintInv'
  <1>1. stack \in Seq(Window) /\ IsInjective(stack)
    BY DEF RepaintInv, TypeOK
  <1>2. ASSUME NEW s \in Seq(Window), IsInjective(s), NEW w \in Window, w \notin ToSet(s)
        PROVE  Append(s, w) \in Seq(Window) /\ IsInjective(Append(s, w))
    BY <1>2 DEF IsInjective, ToSet
  <1>3. ASSUME NEW w \in Window, Open(t, w) PROVE RepaintInv'
    <2>1. CASE w \in ToSet(stack)
      BY <1>1, <1>3, <2>1, ChangeInv DEF Open
    <2>2. CASE w \notin ToSet(stack)
      <3>1. Append(stack, w) \in Seq(Window) /\ IsInjective(Append(stack, w))
        BY <1>1, <1>2, <2>2
      <3> QED
        BY <1>3, <2>2, <3>1, ChangeInv DEF Open
    <2> QED
      BY <2>1, <2>2
  <1>4. ASSUME NEW w \in Window, Close(t, w) PROVE RepaintInv'
    BY <1>1, <1>4, WithoutIs, ChangeInv DEF Close
  <1>5. ASSUME NEW w \in Window, Bump(t, w) PROVE RepaintInv'
    <2>1. Append(Without(w), w) \in Seq(Window) /\ IsInjective(Append(Without(w), w))
      BY <1>1, <1>2, WithoutIs
    <2> QED
      BY <1>5, <2>1, ChangeInv DEF Bump
  <1>6. ASSUME Repaint(t) PROVE RepaintInv'
    BY <1>1, <1>6, ChangeInv DEF Repaint
  <1> QED
    BY <1>3, <1>4, <1>5, <1>6 DEF ChangeStep

\* What a step of one thread's repaint leaves to show: the rest is unchanged.
LEMMA StepInv ==
    ASSUME RepaintInv, NEW t \in Thread, pc[t] # "idle", UNCHANGED <<stack, alone, met, changes>>,
           NEW p \in {"idle", "clear", "paint", "show", "swap"}, pc' = [pc EXCEPT ![t] = p],
           TypeOK', next' \in [Thread -> Nat], end' \in [Thread -> Nat],
           clean' => bufs'[shown'] = stack' /\ alone[t] /\ p = "idle",
           alone[t] => AloneAt(t)',
           ~met => /\ p = "show" => flip'[t] = Back'
                   /\ p = "swap" => shown' = Back'
                   /\ p # "swap" => shown' = front'
    PROVE  RepaintInv'
  <1>1. pc'[t] = p /\ \A u \in Thread \ {t} : pc'[u] = pc[u]
    BY DEF RepaintInv, TypeOK
  <1>2. ASSUME NEW u \in Thread \ {t} PROVE ~alone'[u]
    BY <1>2 DEF RepaintInv, AloneAt
  <1>3. \A u \in Thread : alone'[u] => AloneAt(u)'
    BY <1>2
  <1>4. alone[t] => \A u \in Thread \ {t} : pc[u] = "idle"
    BY DEF RepaintInv, AloneAt
  <1>5. CleanIdle'
    BY <1>1, <1>4 DEF CleanIdle
  <1>6. ~met => alone[t]
    BY DEF RepaintInv, NeverMet
  <1>7. NeverMet'
    BY <1>1, <1>4, <1>6 DEF NeverMet
  <1>8. OneShown'
    BY <1>1 DEF OneShown
  <1> QED
    BY <1>3, <1>5, <1>7, <1>8 DEF RepaintInv

\* ... and by what repaints them,
LEMMA RepaintsInv ==
    ASSUME RepaintInv, NEW t \in Thread, RepaintStep(t)
    PROVE  RepaintInv'
  <1>0. /\ TypeOK /\ next \in [Thread -> Nat] /\ end \in [Thread -> Nat]
        /\ front \in 0..1 /\ Back \in 0..1 /\ Back # front
    BY DEF RepaintInv, TypeOK, Back
  <1>a. pc[t] # "idle" => ~clean
    BY DEF RepaintInv, CleanIdle
  <1>b. alone[t] => AloneAt(t)
    BY DEF RepaintInv
  <1>c. ~met /\ pc[t] # "idle" => alone[t] /\ \A u \in Thread \ {t} : pc[u] = "idle"
    BY <1>b DEF RepaintInv, NeverMet, AloneAt
  <1>d. ~met /\ pc[t] \notin {"idle", "swap"} => shown = front
    BY <1>c DEF RepaintInv, OneShown
  <1>1. CASE Clear(t)
    <2>1. /\ pc[t] = "clear" /\ pc' = [pc EXCEPT ![t] = "paint"]
          /\ bufs' = [bufs EXCEPT ![Back] = <<>>]
          /\ next' = [next EXCEPT ![t] = 1] /\ end' = [end EXCEPT ![t] = Len(stack)]
          /\ UNCHANGED <<stack, front, shown, flip, alone, clean, met, changes>>
      BY <1>1 DEF Clear
    <2>2. stack \in Seq(Window) /\ Len(stack) \in Nat
      BY <1>0 DEF TypeOK
    <2>3. bufs' \in [0..1 -> Seq(Window)] /\ bufs'[Back] = <<>>
      BY <1>0, <2>1 DEF TypeOK
    <2>4. TypeOK' /\ next' \in [Thread -> Nat] /\ end' \in [Thread -> Nat]
      BY <1>0, <2>1, <2>2, <2>3 DEF TypeOK
    <2>5. Painted(t)'
      BY <1>0, <2>1, <2>2, <2>3 DEF Painted, Back
    <2>6. pc'[t] = "paint" /\ \A u \in Thread \ {t} : pc'[u] = pc[u]
      BY <1>0, <2>1 DEF TypeOK
    <2>7. alone[t] => AloneAt(t)'
      BY <1>b, <2>5, <2>6 DEF AloneAt
    <2> QED
      BY <1>a, <1>d, <2>1, <2>4, <2>7, StepInv
  <1>2. CASE Paint(t)
    <2>1. PICK w \in IF next[t] \in DOMAIN stack THEN {stack[next[t]]} ELSE Window :
              bufs' = [bufs EXCEPT ![Back] = Append(@, w)]
      BY <1>2 DEF Paint
    <2>2. /\ pc[t] = "paint" /\ next[t] <= end[t] /\ next' = [next EXCEPT ![t] = @ + 1]
          /\ UNCHANGED <<stack, front, shown, pc, end, flip, alone, clean, met, changes>>
      BY <1>2 DEF Paint
    <2>3. w \in Window /\ stack \in Seq(Window) /\ bufs[Back] \in Seq(Window)
      BY <1>0, <2>1 DEF TypeOK
    <2>4. bufs' \in [0..1 -> Seq(Window)] /\ bufs'[Back] = Append(bufs[Back], w)
      BY <1>0, <2>1, <2>3 DEF TypeOK
    <2>5. TypeOK' /\ next' \in [Thread -> Nat] /\ end' \in [Thread -> Nat]
      BY <1>0, <2>2, <2>4 DEF TypeOK
    <2>6. pc' = [pc EXCEPT ![t] = "paint"]
      BY <1>0, <2>2 DEF TypeOK
    <2>7. ASSUME alone[t] PROVE AloneAt(t)'
      <3>1. Painted(t) /\ \A u \in Thread \ {t} : pc[u] = "idle"
        BY <1>b, <2>2, <2>7 DEF AloneAt
      <3>2. next[t] \in 1..Len(stack) /\ w = stack[next[t]] /\ Len(stack) \in Nat
        BY <2>1, <2>2, <2>3, <3>1 DEF Painted
      <3>3. next'[t] = next[t] + 1 /\ end'[t] = end[t]
        BY <1>0, <2>2
      <3>4. Len(bufs'[Back]) = next[t] /\ \A i \in 1..next[t] : bufs'[Back][i] = stack[i]
        <4>1. Len(bufs[Back]) = next[t] - 1 /\ \A i \in 1..next[t] - 1 : bufs[Back][i] = stack[i]
          BY <3>1 DEF Painted
        <4> DEFINE b == bufs[Back]
        <4>2. b \in Seq(Window)
          BY <2>3
        <4>3. /\ Len(Append(b, w)) = Len(b) + 1 /\ Append(b, w)[Len(b) + 1] = w
              /\ \A i \in 1..Len(b) : Append(b, w)[i] = b[i]
          <5> HIDE DEF b
          <5> QED
            BY <2>3, <4>2
        <4> QED
          BY <2>4, <3>2, <4>1, <4>3
      <3>5. Painted(t)'
        BY <2>2, <3>1, <3>2, <3>3, <3>4 DEF Painted, Back
      <3> QED
        BY <2>2, <3>1, <3>5 DEF AloneAt
    <2> QED
      BY <1>a, <1>d, <2>2, <2>5, <2>6, <2>7, StepInv
  <1>3. CASE ChooseBuffer(t)
    <2>1. /\ pc[t] = "paint" /\ next[t] > end[t]
          /\ flip' = [flip EXCEPT ![t] = Back] /\ pc' = [pc EXCEPT ![t] = "show"]
          /\ UNCHANGED <<stack, bufs, front, shown, next, end, alone, clean, met, changes>>
      BY <1>3 DEF ChooseBuffer
    <2>2. TypeOK' /\ flip'[t] = Back
      BY <1>0, <2>1 DEF TypeOK
    <2>3. pc'[t] = "show" /\ \A u \in Thread \ {t} : pc'[u] = pc[u]
      BY <1>0, <2>1 DEF TypeOK
    <2>4. ASSUME alone[t] PROVE AloneAt(t)'
      <3>1. Painted(t)
        BY <1>b, <2>1, <2>4 DEF AloneAt
      <3>2. bufs[Back] \in Seq(Window) /\ stack \in Seq(Window)
        BY <1>0 DEF TypeOK
      <3>3. Len(bufs[Back]) = Len(stack) /\ \A i \in 1..Len(stack) : bufs[Back][i] = stack[i]
        BY <1>0, <2>1, <3>1, <3>2 DEF Painted
      <3>4. bufs[Back] = stack
        <4> DEFINE b == bufs[Back]
        <4> HIDE DEF b
        <4>1. b \in Seq(Window) /\ Len(b) = Len(stack) /\ \A i \in 1..Len(stack) : b[i] = stack[i]
          BY <3>2, <3>3 DEF b
        <4>2. b = stack
          BY <3>2, <4>1
        <4> QED
          BY <4>2 DEF b
      <3> QED
        BY <1>b, <2>1, <2>2, <2>3, <2>4, <3>4 DEF AloneAt, Back
    <2>5. Back' = Back
      BY <2>1 DEF Back
    <2> QED
      BY <1>0, <1>a, <1>d, <2>1, <2>2, <2>4, <2>5, StepInv
  <1>4. CASE SetCrtc(t)
    <2>1. /\ pc[t] = "show" /\ shown' = flip[t] /\ pc' = [pc EXCEPT ![t] = "swap"]
          /\ UNCHANGED <<stack, bufs, front, next, end, flip, alone, clean, met, changes>>
      BY <1>4 DEF SetCrtc
    <2>2. TypeOK' /\ Back' = Back
      BY <1>0, <2>1 DEF TypeOK, Back
    <2>3. pc'[t] = "swap" /\ \A u \in Thread \ {t} : pc'[u] = pc[u]
      BY <1>0, <2>1 DEF TypeOK
    <2>4. alone[t] => AloneAt(t)'
      BY <1>b, <2>1, <2>3 DEF AloneAt
    <2>5. ~met => flip[t] = Back
      BY <2>1 DEF RepaintInv, NeverMet
    <2> QED
      BY <1>0, <1>a, <2>1, <2>2, <2>4, <2>5, StepInv
  <1>5. CASE Swap(t)
    <2>1. /\ pc[t] = "swap" /\ front' = 1 - front /\ pc' = [pc EXCEPT ![t] = "idle"]
          /\ clean' = alone[t]
          /\ UNCHANGED <<stack, bufs, shown, next, end, flip, alone, met, changes>>
      BY <1>5 DEF Swap
    <2>2. clean' \in BOOLEAN
      BY <1>0, <2>1 DEF TypeOK
    <2>3. TypeOK'
      BY <1>0, <2>1, <2>2 DEF TypeOK
    <2>4. pc'[t] = "idle" /\ \A u \in Thread \ {t} : pc'[u] = pc[u]
      BY <1>0, <2>1 DEF TypeOK
    <2>5. alone[t] => AloneAt(t)' /\ bufs[shown] = stack
      BY <1>b, <2>1, <2>4 DEF AloneAt
    <2>6. clean' => bufs'[shown'] = stack' /\ alone[t]
      BY <2>1, <2>5
    <2>7. ~met => shown' = front'
      BY <2>1 DEF RepaintInv, NeverMet, Back
    <2> QED
      BY <1>0, <2>1, <2>3, <2>5, <2>6, <2>7, StepInv
  <1> QED
    BY <1>1, <1>2, <1>3, <1>4, <1>5 DEF RepaintStep

\* so by every step of the display.
LEMMA RepaintNextInv == RepaintInv /\ [Next]_vars => RepaintInv'
  <1> SUFFICES ASSUME RepaintInv, [Next]_vars PROVE RepaintInv'
    OBVIOUS
  <1>1. CASE UNCHANGED vars
    BY <1>1 DEF vars, RepaintInv, TypeOK, AloneAt, Painted, Back, CleanIdle, NeverMet, OneShown
  <1> QED
    BY <1>1, ChangesInv, RepaintsInv DEF Next

\* A repaint that no other thread's has met shows exactly the windows that are
\* open, in their order, whatever overlapping repaints before it have left.
THEOREM CleanAlwaysShowsStack == Spec => []CleanShowsStack
  <1>1. RepaintInv => CleanShowsStack
    BY DEF RepaintInv, CleanIdle, CleanShowsStack
  <1> QED
    BY <1>1, RepaintInit, RepaintNextInv, PTL DEF Spec

\* Until two repaints overlap, none paints on the buffer that is being shown.
THEOREM PaintsAreOutOfSight == Spec => PaintsOutOfSight
  <1>1. RepaintInv /\ [Next]_vars => [met' \/ bufs'[shown] = bufs[shown]]_vars
    <2> SUFFICES ASSUME RepaintInv, Next, ~met' PROVE bufs'[shown] = bufs[shown]
      BY DEF vars
    <2>1. PICK t \in Thread : ChangeStep(t) \/ RepaintStep(t)
      BY DEF Next
    <2>2. CASE ChangeStep(t) \/ ChooseBuffer(t) \/ SetCrtc(t) \/ Swap(t)
      BY <2>2 DEF ChangeStep, Open, Close, Bump, Repaint, Change, ChooseBuffer, SetCrtc, Swap
    <2>3. CASE Clear(t) \/ Paint(t)
      <3>1. pc[t] \in {"clear", "paint"} /\ ~met
        BY <2>3 DEF Clear, Paint
      <3>2. \A u \in Thread : pc[u] # "swap"
        BY <3>1 DEF RepaintInv, NeverMet, AloneAt
      <3>3. shown = front /\ front \in 0..1 /\ bufs \in [0..1 -> Seq(Window)]
        BY <3>1, <3>2 DEF RepaintInv, OneShown, TypeOK
      <3>4. Back # shown /\ Back \in 0..1 /\ shown \in 0..1
        BY <3>3 DEF Back
      <3>5. \E b : bufs' = [bufs EXCEPT ![Back] = b]
        BY <2>3 DEF Clear, Paint
      <3> QED
        BY <3>3, <3>4, <3>5
    <2> QED
      BY <2>1, <2>2, <2>3 DEF RepaintStep
  <1> QED
    BY <1>1, RepaintInit, RepaintNextInv, PTL DEF Spec, PaintsOutOfSight

-----------------------------------------------------------------------------
(* The card *)

\* What the card does to the screens leaves the repaints as they are: with the
\* card or without it, the theorems above hold.
THEOREM CardRepaints == CardSpec => Spec
  <1>1. CardInit => Init
    BY DEF CardInit
  <1>2. [CardNext]_<<vars, card>> => [Next]_vars
    BY DEF CardNext, RepaintNext
  <1> QED
    BY <1>1, <1>2, PTL DEF Spec, CardSpec

Owner == Connector \cup {"cursors"}
Building == phase \in {"dumb", "fb", "map", "find", "set", "planes", "show"}
Over == phase \in {"closed", "aborted"}
Wholes == {<<cur, i>> : i \in 0..made - 1}
Used == IF conn = None \/ Over THEN {} ELSE Of(conn.id)
Cursors == IF phase = "ready" THEN Of("cursors") ELSE {}
Here(phases) == IF phase \in phases THEN {<<cur, made>>} ELSE {}

\* Who is being built, how far, and that it is neither in use nor to come.
StageInv ==
    /\ Building <=> cur # None
    /\ cur = "cursors" => todo = {} /\ phase \notin {"find", "set", "planes"}
    /\ phase = "show" => cur = "cursors"
    /\ phase \in {"dumb", "fb", "map"} => made \in 0..1
    /\ phase \in {"find", "set", "planes", "show"} => made = 2
    /\ ~Building => made = 0
    /\ phase \in {"set", "planes"} => taken # None
    /\ phase = "ready" => conn # None
    /\ conn # None => conn.id \notin todo /\ conn.id # cur
    /\ cur \notin todo
    /\ phase = "open" => conn = None

\* The buffers that could not be undone belong to connectors given up.
SpiltInv == \A b \in spilt : b[1] \notin todo /\ b[1] # cur /\ (conn # None => b[1] # conn.id)

HeldInv ==
    /\ handles \ spilt = Wholes \cup Used \cup Cursors \cup Here({"fb", "map"})
    /\ fbs \ spilt = Wholes \cup Used \cup Cursors \cup Here({"map"})

\* What is on the screen; no CRTC is taken twice.
ScanInv ==
    /\ scan \in [Crtc -> (Owner \cup Crtc) \X (0..1) \cup {None}]
    /\ \A k \in Crtc : scan[k] \in fbs \cup {None, Before[k]}
    /\ conn # None /\ ~Over => scan[conn.crtc] = <<conn.id, shown>>
    /\ conn # None => conn.crtc # taken
    /\ phase = "planes" => scan[taken] = <<cur, 0>>
    /\ phase # "ready" /\ ~Over => shown = 0

CardInv == CardTypeOK /\ StageInv /\ SpiltInv /\ HeldInv /\ ScanInv

\* The buffers of the owner under construction that are whole.
LEMMA WholesIs ==
    /\ made = 0 => Wholes = {}
    /\ made = 1 => Wholes = {<<cur, 0>>}
    /\ made = 2 => Wholes = Of(cur)
  <1>1. 0..0 - 1 = {} /\ 0..1 - 1 = {0} /\ 0..2 - 1 = 0..1
    OBVIOUS
  <1>2. {<<cur, i>> : i \in {0}} = {<<cur, 0>>} /\ {<<cur, i>> : i \in {}} = {}
    OBVIOUS
  <1>3. {<<cur, i>> : i \in 0..1} = Of(cur)
    BY DEF Of
  <1> QED
    BY <1>1, <1>2, <1>3 DEF Wholes

\* The process gives the card up: everything it held is gone.
LEMMA CloseInv ==
    ASSUME CardInv, NEW how \in {"closed", "aborted"}, CloseCard(how)
    PROVE  CardInv'
  <1> USE CardAssumption
  <1>1. /\ phase' = how /\ cur' = None /\ made' = 0 /\ taken' = None
        /\ handles' = {} /\ fbs' = {} /\ scan' = Dark(fbs)
        /\ UNCHANGED <<todo, conn, spilt>>
    BY DEF CloseCard
  <1>2. /\ scan' \in [Crtc -> (Owner \cup Crtc) \X (0..1) \cup {None}]
        /\ \A k \in Crtc : scan'[k] \in {None, Before[k]}
    BY <1>1 DEF Dark, CardInv, ScanInv
  <1>3. CardTypeOK'
    BY <1>1, <1>2 DEF CardTypeOK, CardInv, Before
  <1>4. StageInv'
    BY <1>1 DEF StageInv, CardInv, Building, CardTypeOK
  <1>5. SpiltInv'
    BY <1>1 DEF SpiltInv, CardInv, CardTypeOK
  <1>6. Wholes' = {} /\ Used' = {} /\ Cursors' = {} /\ Here({"fb", "map"})' = {} /\ Here({"map"})' = {}
    BY <1>1 DEF Wholes, Used, Over, Cursors, Here
  <1>7. HeldInv'
    BY <1>1, <1>6 DEF HeldInv
  <1>8. conn # None => conn.crtc # None
    BY DEF CardInv, CardTypeOK
  <1>9. ScanInv'
    BY <1>1, <1>2, <1>8 DEF ScanInv, Over, Before
  <1> QED
    BY <1>3, <1>4, <1>5, <1>7, <1>9 DEF CardInv

\* A connector is given up: but for what is spilt, the card holds what is in use.
LEMMA UnwindInv ==
    ASSUME CardInv, Building, NEW left, NEW leftFbs, Unwind(left, leftFbs),
           left \subseteq (IF made \in 0..1 THEN {<<cur, made>>} ELSE {}), leftFbs \subseteq left,
           UNCHANGED vars
    PROVE  CardInv'
  <1> USE CardAssumption
  <1>1. CASE cur = "cursors"
    BY <1>1, CloseInv DEF Unwind
  <1>2. CASE cur # "cursors"
    <2>1. /\ phase' = "next" /\ cur' = None /\ made' = 0 /\ taken' = None
          /\ handles' = (handles \ Of(cur)) \cup left
          /\ fbs' = (fbs \ Of(cur)) \cup leftFbs
          /\ scan' = Dark(Of(cur)) /\ spilt' = spilt \cup left
          /\ UNCHANGED <<todo, conn>>
      BY <1>2 DEF Unwind
    <2>2. cur \in Connector /\ ~Over /\ phase # "ready" /\ phase # "open"
      BY <1>2 DEF CardInv, CardTypeOK, StageInv, Building, Over
    <2>3. left \subseteq Of(cur) /\ left \subseteq Connector \X (0..1)
      BY <2>2 DEF Of
    <2>4. /\ scan' \in [Crtc -> (Owner \cup Crtc) \X (0..1) \cup {None}]
          /\ \A k \in Crtc : scan'[k] = IF scan[k] \in Of(cur) THEN None ELSE scan[k]
      BY <2>1 DEF Dark, CardInv, ScanInv
    <2>5. \A k \in Crtc : scan'[k] \in fbs' \cup {None, Before[k]}
      BY <2>1, <2>4 DEF CardInv, ScanInv
    <2>6. CardTypeOK'
      BY <2>1, <2>3, <2>5 DEF CardTypeOK, CardInv, Before
    <2>7. StageInv'
      BY <2>1, <2>2 DEF StageInv, CardInv, Building, CardTypeOK
    <2>8. SpiltInv'
      <3>1. \A b \in left : b[1] = cur
        BY <2>3 DEF Of
      <3> QED
        BY <2>1, <2>2, <3>1 DEF SpiltInv, CardInv, CardTypeOK, StageInv
    <2>9. Used' = Used /\ Wholes' = {} /\ Cursors' = {} /\ Cursors = {}
          /\ Here({"fb", "map"})' = {} /\ Here({"map"})' = {}
      BY <2>1, <2>2 DEF Wholes, Used, Over, Cursors, Here
    <2>10. Wholes \subseteq Of(cur) /\ Used \cap Of(cur) = {}
           /\ Here({"fb", "map"}) \subseteq Of(cur) /\ Here({"map"}) \subseteq Of(cur)
      <3>1. made \in 0..2
        BY DEF CardInv, CardTypeOK
      <3>2. Wholes \subseteq Of(cur)
        BY <3>1 DEF Wholes, Of
      <3>3. Used \cap Of(cur) = {}
        BY DEF Used, Of, CardInv, StageInv
      <3>4. \A P : P \subseteq {"fb", "map"} => Here(P) \subseteq Of(cur)
        BY DEF Here, Of, CardInv, StageInv
      <3> QED
        BY <3>2, <3>3, <3>4
    <2>11. handles' \ spilt' = Used /\ fbs' \ spilt' = Used
      BY <2>1, <2>3, <2>9, <2>10 DEF CardInv, HeldInv
    <2>12. HeldInv'
      BY <2>9, <2>11 DEF HeldInv
    <2>13. ScanInv'
      <3>1. conn # None => conn.crtc \in Crtc /\ scan[conn.crtc] = <<conn.id, shown>> /\ conn.id # cur
        BY <2>2 DEF CardInv, CardTypeOK, ScanInv, StageInv
      <3>2. conn # None => scan'[conn.crtc] = <<conn.id, shown>>
        BY <2>4, <3>1 DEF Of
      <3>3. shown' = shown /\ shown = 0
        BY <2>2 DEF vars, CardInv, ScanInv
      <3> QED
        BY <2>1, <2>4, <2>5, <3>1, <3>2, <3>3 DEF ScanInv, Over, Before
    <2> QED
      BY <2>6, <2>7, <2>8, <2>12, <2>13 DEF CardInv
  <1> QED
    BY <1>1, <1>2

\* Before its construction a card holds nothing, and nothing is spilt.
LEMMA CardInitInv == CardInit => CardInv
  <1> SUFFICES ASSUME CardInit PROVE CardInv
    OBVIOUS
  <1> USE CardAssumption DEF CardInit
  <1>1. \A k \in Crtc : scan[k] = Before[k] /\ Before[k] = <<k, 0>>
    BY DEF Before
  <1>2. scan \in [Crtc -> (Owner \cup Crtc) \X (0..1) \cup {None}]
    BY DEF Before
  <1>3. shown = 0
    BY DEF Init
  <1>4. CardTypeOK /\ StageInv /\ SpiltInv
    BY <1>1 DEF CardTypeOK, StageInv, SpiltInv, Building
  <1>5. Wholes = {} /\ Used = {} /\ Cursors = {} /\ Here({"fb", "map"}) = {} /\ Here({"map"}) = {}
    BY DEF Wholes, Used, Cursors, Here
  <1> QED
    BY <1>1, <1>2, <1>3, <1>4, <1>5 DEF CardInv, HeldInv, ScanInv

\* What the card is building changes only the buffers of the one being built.
LEMMA BuildInv ==
    ASSUME CardInv, Construct, UNCHANGED vars
    PROVE  CardInv'
  <1> USE CardAssumption
  <1>0. UNCHANGED shown
    BY DEF vars
  <1>a. CardTypeOK /\ StageInv /\ SpiltInv /\ HeldInv /\ ScanInv
    BY DEF CardInv
  <1>1. CASE OpenCard
    <2>1. /\ phase = "open" /\ phase' \in {"next", "closed"} /\ made = 0
          /\ UNCHANGED <<todo, cur, made, taken, conn, handles, fbs, scan, spilt>>
      BY <1>1, <1>a DEF OpenCard, StageInv, Building
    <2>2. CardTypeOK' /\ StageInv' /\ SpiltInv'
      BY <1>a, <2>1 DEF CardTypeOK, StageInv, SpiltInv, Building, Before
    <2>3. conn = None /\ Used = {} /\ Used' = {} /\ Cursors = {} /\ Cursors' = {}
      BY <1>a, <2>1 DEF Used, Cursors, StageInv
    <2>4. HeldInv'
      BY <1>a, <2>1, <2>3 DEF HeldInv, Wholes, Here
    <2>5. ScanInv'
      BY <1>0, <1>a, <2>1, <2>3 DEF ScanInv, Over, Before
    <2> QED
      BY <2>2, <2>4, <2>5 DEF CardInv
  <1>2. CASE CardThrows
    BY <1>2, CloseInv DEF CardThrows
  <1>3. CASE NextConnector
    <2>1. PICK c \in todo :
              /\ phase = "next" /\ todo' = todo \ {c}
              /\ \/ UNCHANGED <<phase, cur>>
                 \/ phase' = "dumb" /\ cur' = c
      BY <1>3 DEF NextConnector
    <2>2. UNCHANGED <<made, taken, conn, handles, fbs, scan, spilt>>
      BY <1>3 DEF NextConnector
    <2>3. cur = None /\ made = 0 /\ c \in Connector /\ c # None /\ c # "cursors"
      BY <1>a, <2>1 DEF CardTypeOK, StageInv, Building
    <2>4. CardTypeOK' /\ StageInv' /\ SpiltInv'
      BY <1>a, <2>1, <2>2, <2>3 DEF CardTypeOK, StageInv, SpiltInv, Building, Before
    <2>5. Wholes = {} /\ Wholes' = {}
      BY <2>2, <2>3 DEF Wholes
    <2>6. HeldInv'
      BY <1>a, <2>1, <2>2, <2>5 DEF HeldInv, Used, Over, Cursors, Here
    <2>7. ScanInv'
      BY <1>0, <1>a, <2>1, <2>2 DEF ScanInv, Over, Before
    <2> QED
      BY <2>4, <2>6, <2>7 DEF CardInv
  <1>4. CASE CreateDumb \/ AddFb \/ Map
    <2>1. /\ phase \in {"dumb", "fb", "map"} /\ made \in 0..1 /\ made' \in {made, made + 1}
          /\ phase' \in {"dumb", "fb", "map", "find", "show"} /\ cur # None /\ cur \in Owner
          /\ UNCHANGED <<todo, cur, taken, conn, scan, spilt>>
      BY <1>4, <1>a DEF CreateDumb, AddFb, Map, CardTypeOK, StageInv, Building, Owner
    <2>2. StageInv'
      <3>1. CASE CreateDumb \/ AddFb
        <4>1. phase' \in {"fb", "map"} /\ made' = made
          BY <3>1 DEF CreateDumb, AddFb
        <4> QED
          BY <1>a, <2>1, <4>1 DEF StageInv, Building
      <3>2. CASE Map
        <4>1. made' = made + 1
              /\ phase' = IF made = 0 THEN "dumb" ELSE IF cur = "cursors" THEN "show" ELSE "find"
          BY <3>2 DEF Map
        <4>2. CASE made = 0
          BY <1>a, <2>1, <4>1, <4>2 DEF StageInv, Building
        <4>3. CASE made = 1 /\ cur = "cursors"
          BY <1>a, <2>1, <4>1, <4>3 DEF StageInv, Building
        <4>4. CASE made = 1 /\ cur # "cursors"
          BY <1>a, <2>1, <4>1, <4>4 DEF StageInv, Building
        <4> QED
          BY <2>1, <4>2, <4>3, <4>4
      <3> QED
        BY <1>4, <3>1, <3>2
    <2>3. fbs \subseteq fbs'
      BY <1>4 DEF CreateDumb, AddFb, Map
    <2>4. CardTypeOK' /\ SpiltInv' /\ ScanInv'
      <3>1. SpiltInv'
        BY <1>a, <2>1 DEF SpiltInv
      <3>2. \A k \in Crtc : scan'[k] \in fbs' \cup {None, Before[k]}
        BY <1>a, <2>1, <2>3 DEF ScanInv
      <3>3. CardTypeOK'
        BY <1>a, <2>1, <3>2 DEF CardTypeOK, Before
      <3>4. ScanInv'
        BY <1>0, <1>a, <2>1, <3>2 DEF ScanInv, Over, Before
      <3> QED
        BY <3>1, <3>3, <3>4
    <2>5. Used' = Used /\ Cursors' = {} /\ Cursors = {}
      BY <2>1 DEF Used, Over, Cursors
    <2>6. <<cur, made>> \notin spilt
      BY <1>a DEF SpiltInv
    <2>7. HeldInv'
      <3>1. CASE CreateDumb
        BY <1>a, <2>1, <2>5, <2>6, <3>1 DEF HeldInv, CreateDumb, Wholes, Here
      <3>2. CASE AddFb
        BY <1>a, <2>1, <2>5, <2>6, <3>2 DEF HeldInv, AddFb, Wholes, Here
      <3>3. CASE Map
        <4>1. /\ phase = "map" /\ phase' \notin {"fb", "map"} /\ made' = made + 1
              /\ UNCHANGED <<cur, handles, fbs, spilt>>
          BY <3>3 DEF Map
        <4>2. Here({"fb", "map"}) = {<<cur, made>>} /\ Here({"map"}) = {<<cur, made>>}
              /\ Here({"fb", "map"})' = {} /\ Here({"map"})' = {}
          BY <4>1 DEF Here
        <4>3. Wholes' = Wholes \cup {<<cur, made>>}
          BY <2>1, <4>1 DEF Wholes
        <4> QED
          BY <1>a, <2>5, <4>1, <4>2, <4>3 DEF HeldInv
      <3> QED
        BY <1>4, <3>1, <3>2, <3>3
    <2> QED
      BY <2>2, <2>4, <2>7 DEF CardInv
  <1>5. CASE SetSizeThrows
    <2>1. phase \in {"dumb", "fb", "map"} /\ made \in 0..1 /\ Building
      BY <1>5, <1>a DEF SetSizeThrows, StageInv, Building
    <2>2. PICK left \in {{}, {<<cur, made>>}}, leftFbs \in {{}, {<<cur, made>>}} :
              leftFbs \subseteq left /\ Unwind(left, leftFbs)
      BY <1>5 DEF SetSizeThrows, Throw
    <2> QED
      BY <2>1, <2>2, UnwindInv
  <1>6. CASE FindCrtc
    <2>1. phase = "find" /\ cur # None
      BY <1>6, <1>a DEF FindCrtc, StageInv, Building
    <2>2. CASE Throw
      <3>1. Building
        BY <2>1 DEF Building
      <3> QED
        BY <2>2, <3>1, UnwindInv DEF Throw
    <2>3. CASE ~Throw
      <3>1. /\ taken' \in Crtc /\ UseCrtcIfFree(taken') /\ phase' = "set"
            /\ UNCHANGED <<todo, cur, made, conn, handles, fbs, scan, spilt>>
        BY <1>6, <2>3 DEF FindCrtc
      <3>2. CardTypeOK' /\ StageInv' /\ SpiltInv'
        BY <1>a, <2>1, <3>1 DEF CardTypeOK, StageInv, SpiltInv, Building, Before
      <3>3. HeldInv'
        BY <1>a, <2>1, <3>1 DEF HeldInv, Used, Over, Cursors, Here, Wholes
      <3>4. ScanInv'
        BY <1>0, <1>a, <2>1, <3>1 DEF ScanInv, Over, UseCrtcIfFree, Before
      <3> QED
        BY <3>2, <3>3, <3>4 DEF CardInv
    <2> QED
      BY <2>2, <2>3
  <1>7. CASE SetFirst
    <2>1. /\ phase = "set" /\ phase' = "planes" /\ scan' = [scan EXCEPT ![taken] = <<cur, 0>>]
          /\ UNCHANGED <<todo, cur, made, taken, conn, handles, fbs, spilt>>
      BY <1>7 DEF SetFirst
    <2>2. taken \in Crtc /\ cur \in Owner /\ made = 2 /\ cur # None
      BY <1>a, <2>1 DEF StageInv, CardTypeOK, Building, Owner
    <2>3. scan' \in [Crtc -> (Owner \cup Crtc) \X (0..1) \cup {None}] /\ scan'[taken] = <<cur, 0>>
          /\ \A k \in Crtc \ {taken} : scan'[k] = scan[k]
      BY <1>a, <2>1, <2>2 DEF ScanInv
    <2>4. <<cur, 0>> \in fbs
      BY <1>a, <2>2, WholesIs DEF HeldInv, Of
    <2>5. \A k \in Crtc : scan'[k] \in fbs' \cup {None, Before[k]}
      BY <1>a, <2>1, <2>3, <2>4 DEF ScanInv
    <2>6. CardTypeOK' /\ StageInv' /\ SpiltInv'
      BY <1>a, <2>1, <2>2, <2>5 DEF CardTypeOK, StageInv, SpiltInv, Building, Before
    <2>7. HeldInv'
      BY <1>a, <2>1 DEF HeldInv, Used, Over, Cursors, Here, Wholes
    <2>8. ScanInv'
      BY <1>0, <1>a, <2>1, <2>3, <2>5 DEF ScanInv, Over, Before, CardTypeOK
    <2> QED
      BY <2>6, <2>7, <2>8 DEF CardInv
  <1>8. CASE ConnThrows
    <2>1. Building /\ Unwind({}, {})
      BY <1>8 DEF ConnThrows, Throw, Building
    <2> QED
      BY <2>1, UnwindInv
  <1>9. CASE Emplace
    <2>1. CASE conn # None
      BY <1>9, <2>1, CloseInv DEF Emplace
    <2>2. CASE conn = None
      <3>1. /\ phase = "planes" /\ phase' = "next" /\ conn' = [id |-> cur, crtc |-> taken]
            /\ cur' = None /\ made' = 0 /\ taken' = None
            /\ UNCHANGED <<todo, handles, fbs, scan, spilt>>
        BY <1>9, <2>2 DEF Emplace
      <3>2. taken \in Crtc /\ cur \in Connector /\ made = 2 /\ cur \notin todo
        BY <1>a, <3>1 DEF StageInv, CardTypeOK, Building
      <3>3. conn' # None /\ conn' \in [id : Connector, crtc : Crtc] /\ conn'.id = cur
            /\ conn'.crtc = taken
        BY <3>1, <3>2
      <3>4. CardTypeOK' /\ StageInv' /\ SpiltInv'
        BY <1>a, <3>1, <3>2, <3>3 DEF CardTypeOK, StageInv, SpiltInv, Building, Before
      <3>5. Wholes = Used' /\ Wholes' = {} /\ Used = {} /\ Cursors = {} /\ Cursors' = {}
        BY <2>2, <3>1, <3>2, <3>3, WholesIs DEF Used, Over, Cursors, Wholes
      <3>6. HeldInv'
        BY <1>a, <3>1, <3>5 DEF HeldInv, Here
      <3>7. ScanInv'
        BY <1>0, <1>a, <3>1, <3>2, <3>3 DEF ScanInv, Over, Before
      <3> QED
        BY <3>4, <3>6, <3>7 DEF CardInv
    <2> QED
      BY <2>1, <2>2
  <1>10. CASE MakeCursors
    <2>1. /\ phase = "next" /\ todo = {} /\ phase' = "dumb" /\ cur' = "cursors"
          /\ UNCHANGED <<todo, made, taken, conn, handles, fbs, scan, spilt>>
      BY <1>10 DEF MakeCursors
    <2>2. made = 0 /\ cur = None
      BY <1>a, <2>1 DEF StageInv, Building
    <2>3. CardTypeOK' /\ StageInv'
      BY <1>a, <2>1, <2>2 DEF CardTypeOK, StageInv, Building, Before
    <2>4. SpiltInv'
      BY <1>a, <2>1 DEF CardTypeOK, SpiltInv
    <2>5. Wholes = {} /\ Wholes' = {}
      BY <2>1, <2>2 DEF Wholes
    <2>6. HeldInv'
      BY <1>a, <2>1, <2>5 DEF HeldInv, Used, Over, Cursors, Here
    <2>7. ScanInv'
      BY <1>0, <1>a, <2>1 DEF ScanInv, Over, Before
    <2> QED
      BY <2>3, <2>4, <2>6, <2>7 DEF CardInv
  <1>11. CASE ShowCursor
    <2>1. CASE CloseCard("aborted") \/ CloseCard("closed")
      BY <2>1, CloseInv
    <2>2. CASE ~CloseCard("aborted") /\ ~CloseCard("closed")
      <3>1. /\ phase = "show" /\ conn # None /\ phase' = "ready" /\ cur' = None /\ made' = 0
            /\ UNCHANGED <<todo, taken, conn, handles, fbs, scan, spilt>>
        BY <1>11, <2>2 DEF ShowCursor
      <3>2. cur = "cursors" /\ made = 2
        BY <1>a, <3>1 DEF StageInv
      <3>3. CardTypeOK' /\ StageInv' /\ SpiltInv'
        <4>1. CardTypeOK' /\ SpiltInv'
          BY <1>a, <3>1, <3>2 DEF CardTypeOK, SpiltInv, Before
        <4>2. conn.id \notin todo /\ conn.id # None /\ None \notin todo
          BY <1>a, <3>1 DEF CardTypeOK, StageInv
        <4>3. StageInv'
          BY <3>1, <4>2 DEF StageInv, Building
        <4> QED
          BY <4>1, <4>3
      <3>4. Wholes = Cursors' /\ Wholes' = {} /\ Cursors = {}
        BY <3>1, <3>2, WholesIs DEF Cursors, Wholes
      <3>5. HeldInv'
        BY <1>a, <3>1, <3>4 DEF HeldInv, Used, Over, Here
      <3>6. ScanInv'
        BY <1>0, <1>a, <3>1 DEF ScanInv, Over, Before
      <3> QED
        BY <3>3, <3>5, <3>6 DEF CardInv
    <2> QED
      BY <2>1, <2>2
  <1> QED
    BY <1>1, <1>2, <1>3, <1>4, <1>5, <1>6, <1>7, <1>8, <1>9, <1>10, <1>11 DEF Construct

\* A repaint shows another buffer of the connector in use, and nothing else.
LEMMA ShowInv ==
    ASSUME CardInv, shown' \in 0..1, RepaintNext
    PROVE  CardInv'
  <1> USE CardAssumption
  <1>1. /\ phase = "ready" /\ made = 0
        /\ scan' = [scan EXCEPT ![conn.crtc] =
                        IF shown' = shown THEN @ ELSE <<conn.id, shown'>>]
        /\ UNCHANGED <<phase, todo, cur, made, taken, conn, handles, fbs, spilt>>
    BY DEF RepaintNext, CardInv, StageInv, Building
  <1>2. conn # None /\ conn.crtc \in Crtc /\ conn.id \in Connector
        /\ scan[conn.crtc] = <<conn.id, shown>>
    BY <1>1 DEF CardInv, StageInv, CardTypeOK, ScanInv, Over
  <1>3. /\ scan' \in [Crtc -> (Owner \cup Crtc) \X (0..1) \cup {None}]
        /\ scan'[conn.crtc] = <<conn.id, shown'>>
        /\ \A k \in Crtc \ {conn.crtc} : scan'[k] = scan[k]
    BY <1>1, <1>2 DEF CardInv, ScanInv, Owner
  <1>4. <<conn.id, shown'>> \in fbs
    BY <1>1, <1>2 DEF CardInv, HeldInv, Used, Over, Of
  <1>5. \A k \in Crtc : scan'[k] \in fbs' \cup {None, Before[k]}
    BY <1>1, <1>3, <1>4 DEF CardInv, ScanInv
  <1>6. CardTypeOK' /\ StageInv' /\ SpiltInv'
    BY <1>1, <1>5 DEF CardInv, CardTypeOK, StageInv, SpiltInv, Building, Before
  <1>7. HeldInv'
    BY <1>1 DEF CardInv, HeldInv, Used, Over, Cursors, Here, Wholes
  <1>8. ScanInv'
    BY <1>1, <1>2, <1>3, <1>5 DEF CardInv, ScanInv, Over, Before
  <1> QED
    BY <1>6, <1>7, <1>8 DEF CardInv

\* However setting up the connectors fails, and however repaints interleave, the
\* card holds the buffers of objects that exist and no others, but for those
\* that could not be undone; a CRTC never shows a framebuffer that is gone; and
\* that of the connector in use shows what its repaints have shown last.
THEOREM ScreenIsAlwaysHeld == CardSpec => []ScreenIsHeld
  <1>1. CardInit => CardInv /\ RepaintInv
    BY CardInitInv, RepaintInit DEF CardInit
  <1>2. RepaintInv /\ [CardNext]_<<vars, card>> => RepaintInv'
    BY RepaintNextInv DEF CardNext, RepaintNext
  <1>3. CardInv /\ RepaintInv /\ RepaintInv' /\ [CardNext]_<<vars, card>> => CardInv'
    <2> SUFFICES ASSUME CardInv, RepaintInv', [CardNext]_<<vars, card>> PROVE CardInv'
      OBVIOUS
    <2>1. CASE UNCHANGED <<vars, card>>
      BY <2>1 DEF vars, card, CardInv, CardTypeOK, StageInv, SpiltInv, HeldInv, ScanInv,
                  Building, Over, Wholes, Used, Cursors, Here, Before
    <2>2. CASE Construct /\ UNCHANGED vars
      BY <2>2, BuildInv
    <2>3. CASE Destroy /\ UNCHANGED vars
      BY <2>3, CloseInv DEF Destroy
    <2>4. CASE RepaintNext
      BY <2>4, ShowInv DEF RepaintInv, TypeOK
    <2> QED
      BY <2>1, <2>2, <2>3, <2>4 DEF CardNext
  <1>4. CardInv => ScreenIsHeld
    <2> SUFFICES ASSUME CardInv PROVE ScreenIsHeld
      OBVIOUS
    <2>1. CardTypeOK /\ (conn # None /\ phase \notin {"closed", "aborted"} =>
              scan[conn.crtc] = <<conn.id, shown>>)
      BY DEF CardInv, ScanInv, Over
    <2>2. phase \notin {"fb", "map"} =>
              handles \ spilt = Wholes \cup Used \cup Cursors /\ fbs \ spilt = handles \ spilt
      BY DEF CardInv, HeldInv, Here
    <2> QED
      BY <2>1, <2>2 DEF ScreenIsHeld, Wholes, Used, Over, Cursors
  <1> QED
    BY <1>1, <1>2, <1>3, <1>4, PTL DEF CardSpec

=============================================================================
