-------------------------- MODULE EventDispatchProofs --------------------------
(***************************************************************************)
(* Proofs about WidgetTree and EventDispatch, for any windows, panels,     *)
(* leaves and handlers, and any number of updates on their way.  The first *)
(* parts are about WidgetTree, the last three about EventDispatch, whose   *)
(* steps change the tree by WidgetTree's.                                  *)
(***************************************************************************)
EXTENDS EventDispatch, FiniteSetTheorems, WellFoundedInduction, TLAPS

-----------------------------------------------------------------------------
(* Recursion and sequences *)

\* There are finitely many widgets at a time, so nothing is infinitely deep.
LEMMA FiniteNode == IsFiniteSet(Node)
  BY TreeAssumption DEF OwnAddresses

\* Induction over the numbers, for a set of them.
LEMMA SetInduction ==
    ASSUME NEW S, 0 \in S, \A n \in Nat : n \in S => n + 1 \in S
    PROVE  Nat \subseteq S
  <1> DEFINE R == OpToRel(<, Nat)
             T == Nat \ S
  <1>1. SUFFICES ASSUME T # {} PROVE FALSE
    OBVIOUS
  <1>2. IsWellFoundedOn(R, Nat)
    BY NatLessThanWellFounded
  <1>3. PICK x \in T : \A y \in T : <<y, x>> \notin R
    <2>1. T \subseteq Nat
      OBVIOUS
    <2> HIDE DEF R, T
    <2> QED
      BY <1>1, <1>2, <2>1, WFMin
  <1>4. ASSUME NEW m \in Nat, NEW n \in Nat, m < n PROVE <<m, n>> \in R
    BY <1>4 DEF OpToRel
  <1> HIDE DEF R
  <1>5. x \in Nat /\ x \notin S /\ x # 0
    OBVIOUS
  <1>6. x - 1 \in Nat /\ x - 1 < x
    BY <1>5
  <1>7. x - 1 \in S
    BY <1>3, <1>4, <1>5, <1>6
  <1> QED
    BY <1>5, <1>6, <1>7

\* f starts with a and goes on by g, up to n.
Follows(f, a, g, n) == f[0] = a /\ \A k \in 1..n : f[k] = g[<<f[k-1], k>>]

\* A function defined from each number to the next exists, up to n.
LEMMA RecursionExists ==
    ASSUME NEW S, NEW a \in S, NEW n \in Nat, NEW g \in [S \X (1..n) -> S]
    PROVE  \E f \in [0..n -> S] : Follows(f, a, g, n)
  <1> DEFINE I == {m \in Nat : m <= n => \E f \in [0..m -> S] : Follows(f, a, g, m)}
  <1>1. 0 \in I
    <2>1. [k \in 0..0 |-> a] \in [0..0 -> S] /\ [k \in 0..0 |-> a][0] = a /\ 1..0 = {}
      OBVIOUS
    <2> QED
      BY <2>1 DEF Follows
  <1>2. ASSUME NEW m \in Nat, m \in I PROVE m + 1 \in I
    <2> SUFFICES ASSUME m + 1 <= n
                 PROVE  \E f \in [0..m+1 -> S] : Follows(f, a, g, m+1)
      OBVIOUS
    <2>1. PICK f \in [0..m -> S] : Follows(f, a, g, m)
      BY <1>2
    <2> DEFINE last == g[<<f[m], m+1>>]
               h == [k \in 0..m+1 |-> IF k = m + 1 THEN last ELSE f[k]]
    <2>2. last \in S
      <3>1. <<f[m], m+1>> \in S \X (1..n)
        OBVIOUS
      <3>2. \A x \in S \X (1..n) : g[x] \in S
        OBVIOUS
      <3> QED
        BY <3>1, <3>2
    <2>3. h \in [0..m+1 -> S]
      BY <2>2
    <2>4. h[0] = a
      BY <2>1 DEF Follows
    <2>5. ASSUME NEW k \in 1..m+1 PROVE h[k] = g[<<h[k-1], k>>]
      <3>1. CASE k = m + 1
        <4>1. h[m + 1] = g[<<f[m], m + 1>>] /\ h[m] = f[m] /\ (m + 1) - 1 = m
          OBVIOUS
        <4> HIDE DEF h
        <4> QED
          BY <3>1, <4>1
      <3>2. CASE k \in 1..m
        <4>1. h[k] = f[k] /\ h[k-1] = f[k-1]
          BY <3>2
        <4> HIDE DEF h
        <4> QED
          BY <2>1, <3>2, <4>1 DEF Follows
      <3> QED
        BY <3>1, <3>2
    <2> HIDE DEF h
    <2> QED
      BY <2>3, <2>4, <2>5 DEF Follows
  <1> HIDE DEF I
  <1>3. n \in I
    BY <1>1, <1>2, SetInduction
  <1> QED
    BY <1>3 DEF I

\* What the recursion in Without(s, e) computes, up to i.
KeptUpTo(f, s, e, n) ==
    /\ f[0] = <<>>
    /\ \A i \in 1..n : f[i] = IF s[i] = e THEN f[i-1] ELSE Append(f[i-1], s[i])

\* Kept is what its definition says, element after element.
LEMMA KeptIs ==
    ASSUME NEW T, NEW s \in Seq(T), NEW e
    PROVE  KeptUpTo(Kept(s, e), s, e, Len(s))
  <1> DEFINE n == Len(s)
             P(f) == f = [i \in 0..n |-> IF i = 0 THEN <<>>
                                         ELSE IF s[i] = e THEN f[i-1]
                                         ELSE Append(f[i-1], s[i])]
             g == [y \in Seq(T) \X (1..n) |->
                      IF s[y[2]] = e THEN y[1] ELSE Append(y[1], s[y[2]])]
  <1>1. n \in Nat /\ g \in [Seq(T) \X (1..n) -> Seq(T)] /\ <<>> \in Seq(T)
    OBVIOUS
  <1>2. PICK f \in [0..n -> Seq(T)] : Follows(f, <<>>, g, n)
    <2> HIDE DEF g, n
    <2> QED
      BY <1>1, RecursionExists
  <1>3. KeptUpTo(f, s, e, n)
    <2>1. ASSUME NEW i \in 1..n
          PROVE f[i] = IF s[i] = e THEN f[i-1] ELSE Append(f[i-1], s[i])
      <3>1. f[i] = g[<<f[i-1], i>>]
        <4> HIDE DEF g
        <4> QED
          BY <1>2 DEF Follows
      <3>2. f[i-1] \in Seq(T)
        OBVIOUS
      <3> QED
        BY <3>1, <3>2
    <2> QED
      BY <1>2, <2>1 DEF Follows, KeptUpTo
  <1>4. P(f)
    <2>1. ASSUME NEW i \in 0..n
          PROVE f[i] = IF i = 0 THEN <<>> ELSE IF s[i] = e THEN f[i-1]
                       ELSE Append(f[i-1], s[i])
      <3>1. CASE i = 0
        BY <1>3, <3>1 DEF KeptUpTo
      <3>2. CASE i \in 1..n
        BY <1>3, <3>2 DEF KeptUpTo
      <3> QED
        BY <3>1, <3>2
    <2>2. f = [i \in 0..n |-> f[i]]
      OBVIOUS
    <2> QED
      BY <2>1, <2>2
  <1>5. P(Kept(s, e))
    <2>1. Kept(s, e) = CHOOSE f_1 : P(f_1)
      BY DEF Kept
    <2> HIDE DEF P
    <2> QED
      BY <1>4, <2>1
  <1>6. Kept(s, e)[0] = <<>>
    BY <1>1, <1>5
  <1>7. ASSUME NEW i \in 1..n
        PROVE Kept(s, e)[i] = IF s[i] = e THEN Kept(s, e)[i-1]
                              ELSE Append(Kept(s, e)[i-1], s[i])
    <2>1. i \in 0..n /\ i # 0
      BY <1>1
    <2> QED
      BY <1>5, <2>1
  <1> QED
    BY <1>6, <1>7 DEF KeptUpTo

\* std::remove and erase take just e out of a list, and leave the others distinct.
LEMMA WithoutIs ==
    ASSUME NEW T, NEW s \in Seq(T), IsInjective(s), NEW e
    PROVE  /\ Without(s, e) \in Seq(T) /\ IsInjective(Without(s, e))
           /\ ToSet(Without(s, e)) = ToSet(s) \ {e}
  <1> DEFINE n == Len(s)
             k == Kept(s, e)
             Upto(m) == {s[j] : j \in 1..m}
             Good(t, m) == t \in Seq(T) /\ IsInjective(t) /\ ToSet(t) = Upto(m) \ {e}
             S == {m \in Nat : m <= n => Good(k[m], m)}
  <1>1. k[0] = <<>> /\ \A i \in 1..n : k[i] = IF s[i] = e THEN k[i-1] ELSE Append(k[i-1], s[i])
    BY KeptIs DEF KeptUpTo
  <1>2. n \in Nat /\ \A i \in 1..n : s[i] \in T
    OBVIOUS
  <1>3. \A i, j \in 1..n : s[i] = s[j] => i = j
    BY DEF IsInjective
  <1> HIDE DEF n, k
  <1>4. 0 \in S
    <2>1. <<>> \in Seq(T) /\ DOMAIN <<>> = {}
      OBVIOUS
    <2>2. Good(<<>>, 0)
      BY <2>1 DEF IsInjective, ToSet
    <2> HIDE DEF Good
    <2> QED
      BY <1>1, <1>2, <2>2
  <1>5. ASSUME NEW m \in Nat, m \in S PROVE m + 1 \in S
    <2> SUFFICES ASSUME m + 1 <= n PROVE Good(k[m+1], m+1)
      OBVIOUS
    <2> DEFINE v == s[m+1]
               t == k[m]
               u == Append(t, v)
    <2>1. Good(t, m) /\ m + 1 \in 1..n /\ (m + 1) - 1 = m
      BY <1>2, <1>5
    <2>2. Upto(m+1) = Upto(m) \cup {v}
      <3>1. 1..m+1 = (1..m) \cup {m+1}
        OBVIOUS
      <3> QED
        BY <3>1
    <2>3. CASE v = e
      <3>1. k[m+1] = t
        BY <1>1, <2>1, <2>3
      <3> HIDE DEF Upto, v, t
      <3> QED
        BY <2>1, <2>2, <2>3, <3>1
    <2>4. CASE v # e
      <3>1. k[m+1] = u
        BY <1>1, <2>1, <2>4
      <3>2. v \notin Upto(m)
        BY <1>2, <1>3, <2>1
      <3>3. v \in T
        BY <1>2, <2>1
      <3>4. t \in Seq(T) /\ IsInjective(t) /\ ToSet(t) = Upto(m) \ {e}
        BY <2>1
      <3> HIDE DEF v, t, Upto
      <3>5. /\ u \in Seq(T) /\ DOMAIN u = 1..Len(t)+1 /\ DOMAIN t = 1..Len(t) /\ Len(t) \in Nat
            /\ u[Len(t)+1] = v /\ \A i \in 1..Len(t) : u[i] = t[i]
        BY <3>3, <3>4
      <3> HIDE DEF u
      <3>6. v \notin ToSet(t)
        BY <3>2, <3>4
      <3>7. IsInjective(u)
        BY <3>4, <3>5, <3>6 DEF IsInjective, ToSet
      <3>8. ToSet(u) = ToSet(t) \cup {v}
        BY <3>5 DEF ToSet
      <3>9. ToSet(u) = Upto(m+1) \ {e}
        BY <2>2, <2>4, <3>4, <3>8
      <3> QED
        BY <3>1, <3>5, <3>7, <3>9
    <2> QED
      BY <2>3, <2>4
  <1> HIDE DEF S
  <1>6. n \in S
    BY <1>2, <1>4, <1>5, SetInduction
  <1>7. Upto(n) = ToSet(s)
    BY DEF n, ToSet
  <1> QED
    BY <1>2, <1>6, <1>7 DEF S, Without, n, k

\* A sequence with one more element, that was not in it.
LEMMA Longer ==
    ASSUME NEW T, NEW s \in Seq(T), IsInjective(s), NEW e \in T, e \notin ToSet(s)
    PROVE  Append(s, e) \in Seq(T) /\ IsInjective(Append(s, e)) /\ ToSet(Append(s, e)) = ToSet(s) \cup {e}
  <1> DEFINE u == Append(s, e)
  <1>1. /\ u \in Seq(T) /\ DOMAIN u = 1..Len(s)+1 /\ DOMAIN s = 1..Len(s) /\ Len(s) \in Nat
        /\ u[Len(s)+1] = e /\ \A i \in 1..Len(s) : u[i] = s[i]
    OBVIOUS
  <1> HIDE DEF u
  <1>2. IsInjective(u)
    BY <1>1 DEF IsInjective, ToSet
  <1>3. ToSet(u) = ToSet(s) \cup {e}
    BY <1>1 DEF ToSet
  <1> QED
    BY <1>1, <1>2, <1>3 DEF u

\* One more element is one more member.
LEMMA AppendHas ==
    ASSUME NEW T, NEW s \in Seq(T), NEW e, NEW x \in ToSet(Append(s, e))
    PROVE  x \in ToSet(s) \/ x = e
  BY DEF ToSet

-----------------------------------------------------------------------------
(* WidgetTree: containers and their children *)

Lists == [Container -> Seq(Node)]
Parents == [Node -> Container \cup {None}]
Roots == [Node -> Window \cup {None}]

Within(s, n) == n \in ToSet(s)

\* Of the nodes in A, lists and parents say the same; the others are in no list.
Linked(lists, parents, A) ==
    /\ \A p \in Container : IsInjective(lists[p])
    /\ \A p \in Container, c \in Node :
          Within(lists[p], c) => p \in A /\ c \in A /\ parents[c] = p
    /\ \A c \in Node : parents[c] \notin {None, c} => Within(lists[parents[c]], c)
    /\ \A c \in Node \ A : parents[c] = None
    /\ \A w \in Window, c \in Node : Within(lists[w], c) => c \in Parts(w)

\* c is in no list.
Loose(lists, c) == \A p \in Container : ~Within(lists[p], c)

\* What is in a list of children is a node.
LEMMA SequenceOf ==
    ASSUME NEW s \in Seq(Node)
    PROVE  \A c : Within(s, c) => c \in Node
  BY DEF Within, ToSet

\* A child is taken from its container.
LEMMA Unlink ==
    ASSUME NEW lists \in Lists, NEW parents \in Parents, NEW A, Linked(lists, parents, A),
           NEW p \in Container, NEW c \in Node, Within(lists[p], c)
    PROVE  LET after == [lists EXCEPT ![p] = Without(@, c)] IN
           /\ after \in Lists /\ [parents EXCEPT ![c] = None] \in Parents
           /\ Linked(after, [parents EXCEPT ![c] = None], A) /\ Loose(after, c)
  <1> DEFINE l == Without(lists[p], c)
             after == [lists EXCEPT ![p] = Without(@, c)]
             up == [parents EXCEPT ![c] = None]
  <1>1. lists[p] \in Seq(Node) /\ IsInjective(lists[p])
    BY DEF Linked, Lists
  <1>2. l \in Seq(Node) /\ IsInjective(l) /\ \A d : Within(l, d) <=> Within(lists[p], d) /\ d # c
    <2>1. l \in Seq(Node) /\ IsInjective(l) /\ ToSet(l) = ToSet(lists[p]) \ {c}
      BY <1>1, WithoutIs
    <2> QED
      BY <2>1 DEF Within
  <1>3. after \in Lists /\ \A q \in Container : after[q] = IF q = p THEN l ELSE lists[q]
    BY <1>2 DEF Lists
  <1>4. up \in Parents /\ \A d \in Node : up[d] = IF d = c THEN None ELSE parents[d]
    BY DEF Parents
  <1> HIDE DEF l, after, up
  <1>5. \A q \in Container, d \in Node : Within(after[q], d) <=> Within(lists[q], d) /\ d # c
    BY <1>2, <1>3 DEF Linked
  <1>6. \A q \in Container : IsInjective(after[q])
    BY <1>2, <1>3 DEF Linked
  <1>7. \A d \in Node : up[d] \notin {None, d} => Within(after[up[d]], d)
    <2> SUFFICES ASSUME NEW d \in Node, up[d] \notin {None, d} PROVE Within(after[up[d]], d)
      OBVIOUS
    <2>1. d # c /\ up[d] = parents[d] /\ up[d] \in Container
      BY <1>4 DEF Parents
    <2> QED
      BY <1>5, <2>1 DEF Linked
  <1>8. Linked(after, up, A)
    <2>1. \A q \in Container, d \in Node : Within(after[q], d) => q \in A /\ d \in A /\ up[d] = q
      BY <1>4, <1>5 DEF Linked
    <2>2. \A w \in Window, d \in Node : Within(after[w], d) => d \in Parts(w)
      BY <1>5 DEF Linked, Container
    <2>3. \A d \in Node \ A : up[d] = None
      BY <1>4 DEF Linked
    <2> QED
      BY <1>6, <1>7, <2>1, <2>2, <2>3 DEF Linked
  <1>9. Loose(after, c)
    BY <1>5 DEF Loose
  <1> QED
    BY <1>3, <1>4, <1>8, <1>9 DEF after, up

\* A node that is in no list is put at the end of one.
LEMMA Link ==
    ASSUME NEW lists \in Lists, NEW parents \in Parents, NEW A, Linked(lists, parents, A),
           NEW p \in Container, NEW c \in Node, Loose(lists, c),
           p \in A, c \in A, p \in Window => c \in Parts(p)
    PROVE  /\ [lists EXCEPT ![p] = Append(@, c)] \in Lists /\ [parents EXCEPT ![c] = p] \in Parents
           /\ Linked([lists EXCEPT ![p] = Append(@, c)], [parents EXCEPT ![c] = p], A)
  <1> DEFINE l == Append(lists[p], c)
             after == [lists EXCEPT ![p] = Append(@, c)]
             up == [parents EXCEPT ![c] = p]
  <1>1. lists[p] \in Seq(Node) /\ IsInjective(lists[p]) /\ ~Within(lists[p], c)
    BY DEF Linked, Lists, Loose
  <1>2. l \in Seq(Node) /\ IsInjective(l) /\ \A d : Within(l, d) <=> Within(lists[p], d) \/ d = c
    BY <1>1, Longer DEF Within
  <1>3. after \in Lists /\ \A q \in Container : after[q] = IF q = p THEN l ELSE lists[q]
    BY <1>2 DEF Lists
  <1>4. up \in Parents /\ \A d \in Node : up[d] = IF d = c THEN p ELSE parents[d]
    BY DEF Parents
  <1> HIDE DEF l, after, up
  <1>5. \A q \in Container, d \in Node :
            Within(after[q], d) <=> IF d = c THEN q = p ELSE Within(lists[q], d)
    BY <1>2, <1>3 DEF Loose
  <1>6. \A q \in Container : IsInjective(after[q])
    BY <1>2, <1>3 DEF Linked
  <1>7. \A d \in Node : up[d] \notin {None, d} => Within(after[up[d]], d)
    <2> SUFFICES ASSUME NEW d \in Node, up[d] \notin {None, d} PROVE Within(after[up[d]], d)
      OBVIOUS
    <2>1. CASE d = c
      BY <1>4, <1>5, <2>1
    <2>2. CASE d # c
      <3>1. up[d] = parents[d] /\ up[d] \in Container
        BY <1>4, <2>2 DEF Parents
      <3> QED
        BY <1>5, <2>2, <3>1 DEF Linked
    <2> QED
      BY <2>1, <2>2
  <1>8. \A q \in Container, d \in Node : Within(after[q], d) => q \in A /\ d \in A /\ up[d] = q
    BY <1>4, <1>5 DEF Linked
  <1>9. \A w \in Window, d \in Node : Within(after[w], d) => d \in Parts(w)
    <2>1. Window \subseteq Container
      BY DEF Container
    <2> QED
      BY <1>5, <2>1 DEF Linked
  <1>10. \A d \in Node \ A : up[d] = None
    BY <1>4 DEF Linked
  <1>11. Linked(after, up, A)
    BY <1>6, <1>7, <1>8, <1>9, <1>10 DEF Linked
  <1> QED
    BY <1>3, <1>4, <1>11 DEF after, up

\* A container lets go of its children.
LEMMA Emptied ==
    ASSUME NEW lists \in Lists, NEW parents \in Parents, NEW A, Linked(lists, parents, A),
           NEW n \in Container
    PROVE  LET after == [lists EXCEPT ![n] = <<>>]
               up == [m \in Node |-> IF m \in ToSet(lists[n]) THEN None ELSE parents[m]]
           IN  after \in Lists /\ up \in Parents /\ Linked(after, up, A)
  <1> DEFINE after == [lists EXCEPT ![n] = <<>>]
             up == [m \in Node |-> IF m \in ToSet(lists[n]) THEN None ELSE parents[m]]
  <1>1. <<>> \in Seq(Node) /\ IsInjective(<<>>) /\ \A d : ~Within(<<>>, d)
    BY DEF IsInjective, Within, ToSet
  <1>2. after \in Lists /\ \A q \in Container : after[q] = IF q = n THEN <<>> ELSE lists[q]
    BY <1>1 DEF Lists
  <1>3. up \in Parents /\ \A d \in Node : up[d] = IF Within(lists[n], d) THEN None ELSE parents[d]
    BY DEF Parents, Within
  <1> HIDE DEF after, up
  <1>4. \A q \in Container, d \in Node : Within(after[q], d) <=> Within(lists[q], d) /\ q # n
    BY <1>1, <1>2
  <1>5. \A q \in Container : IsInjective(after[q])
    BY <1>1, <1>2 DEF Linked
  <1>6. \A d \in Node : up[d] \notin {None, d} => Within(after[up[d]], d)
    <2> SUFFICES ASSUME NEW d \in Node, up[d] \notin {None, d} PROVE Within(after[up[d]], d)
      OBVIOUS
    <2>1. up[d] = parents[d] /\ up[d] \in Container /\ ~Within(lists[n], d)
      BY <1>3 DEF Parents
    <2>2. Within(lists[up[d]], d)
      BY <2>1 DEF Linked
    <2> QED
      BY <1>4, <2>1, <2>2
  <1>7. \A q \in Container, d \in Node : Within(after[q], d) => q \in A /\ d \in A /\ up[d] = q
    BY <1>3, <1>4 DEF Linked
  <1>8. Linked(after, up, A)
    BY <1>3, <1>4, <1>5, <1>6, <1>7 DEF Linked, Container
  <1> QED
    BY <1>2, <1>3, <1>8 DEF after, up

\* A node in no list, with an empty one if any, is there no more.
LEMMA Dropped ==
    ASSUME NEW lists \in Lists, NEW parents \in Parents, NEW A, Linked(lists, parents, A),
           NEW c \in Node, Loose(lists, c), c \in Container => lists[c] = <<>>
    PROVE  [parents EXCEPT ![c] = None] \in Parents /\ Linked(lists, [parents EXCEPT ![c] = None], A \ {c})
  <1> DEFINE up == [parents EXCEPT ![c] = None]
  <1>1. up \in Parents /\ \A d \in Node : up[d] = IF d = c THEN None ELSE parents[d]
    BY DEF Parents
  <1> HIDE DEF up
  <1>2. \A d : ~Within(<<>>, d)
    BY DEF Within, ToSet
  <1>3. \A q \in Container, d \in Node :
            Within(lists[q], d) => q \in A \ {c} /\ d \in A \ {c} /\ up[d] = q
    BY <1>1, <1>2 DEF Linked, Loose
  <1>4. \A d \in Node : up[d] \notin {None, d} => Within(lists[up[d]], d)
    BY <1>1 DEF Linked
  <1>5. Linked(lists, up, A \ {c})
    BY <1>1, <1>3, <1>4 DEF Linked
  <1> QED
    BY <1>1, <1>5 DEF up

-----------------------------------------------------------------------------
(* WidgetTree: what the server does to the tree *)

Trees == [children : Lists, parent : Parents, root : Roots]
Sound(t, A) == t \in Trees /\ Linked(t.children, t.parent, A)

\* Containers without c among their children are left alone.
Spared(t, u, c) ==
    \A q \in Container : ~Within(t.children[q], c) => u.children[q] = t.children[q]

\* A widget that exists has an address of its own, and so do a window's parts.
LEMMA Addresses ==
    /\ Window \subseteq Container /\ Container \subseteq Node
    /\ Widget \subseteq Node
    /\ None \notin Node /\ None \notin Container
    /\ \A w \in Window : /\ Title(w) \in Container \ Widget
                         /\ Frame(w) \in Container \ Widget
                         /\ Title(w) # Frame(w) /\ Parts(w) = {Title(w), Frame(w)}
    /\ \A v, w \in Window : v # w => Parts(v) \cap Parts(w) = {}
  BY TreeAssumption DEF OwnAddresses, Container, Node, Widget, Parts,
                        Title, Frame

\* set_root() leaves lists and parents alone.
LEMMA SetRootIs ==
    ASSUME NEW t \in Trees, NEW n, NEW r \in Window \cup {None}
    PROVE  /\ SetRoot(t, n, r) \in Trees
           /\ SetRoot(t, n, r).children = t.children /\ SetRoot(t, n, r).parent = t.parent
  <1> DEFINE below == Subtree(t, n)
             root == [m \in Node |-> IF m \in below THEN r ELSE t.root[m]]
  <1>1. SetRoot(t, n, r) = [t EXCEPT !.root = root]
    BY DEF SetRoot
  <1>2. root \in Roots
    BY DEF Trees, Roots
  <1> HIDE DEF root
  <1> QED
    BY <1>1, <1>2 DEF Trees

\* Container::rm: a child is out of every list, and nothing else is.
LEMMA RemovedSound ==
    ASSUME NEW t, NEW A, Sound(t, A), NEW p \in Container, NEW c \in Node
    PROVE  /\ Sound(Removed(t, p, c), A) /\ Spared(t, Removed(t, p, c), c)
           /\ Within(t.children[p], c) => Loose(Removed(t, p, c).children, c)
           /\ ~Within(t.children[p], c) => Removed(t, p, c) = t
  <1>1. t \in Trees /\ t.children \in Lists /\ t.parent \in Parents /\ t.children[p] \in Seq(Node)
    BY DEF Sound, Trees, Lists
  <1>2. Contains(t.children[p], c) <=> Within(t.children[p], c)
    BY <1>1 DEF Contains, Within, ToSet
  <1>3. CASE ~Within(t.children[p], c)
    BY <1>2, <1>3 DEF Removed, Spared
  <1>4. CASE Within(t.children[p], c)
    <2> DEFINE r == SetRoot(t, c, None)
               u == Removed(t, p, c)
               after == [t.children EXCEPT ![p] = Without(@, c)]
               up == [t.parent EXCEPT ![c] = None]
    <2>1. r \in Trees /\ r.children = t.children /\ r.parent = t.parent
      BY <1>1, SetRootIs
    <2>2. u = [r EXCEPT !.children[p] = Without(@, c), !.parent[c] = None]
      BY <1>2, <1>4 DEF Removed
    <2>3. after \in Lists /\ up \in Parents /\ Linked(after, up, A) /\ Loose(after, c)
      BY <1>1, <1>4, Unlink DEF Sound
    <2>4. u = [r EXCEPT !.children = after, !.parent = up]
      BY <2>1, <2>2
    <2>5. \A q \in Container : q # p => after[q] = t.children[q]
      BY <1>1 DEF Lists
    <2> HIDE DEF r, u, after, up
    <2>6. u \in Trees /\ u.children = after /\ u.parent = up
      BY <2>1, <2>3, <2>4 DEF Trees
    <2> QED
      BY <1>4, <2>3, <2>5, <2>6 DEF Sound, Spared, u
  <1> QED
    BY <1>3, <1>4

\* Window::rm passes on to the frame what is not one of the window's parts.
LEMMA RmSound ==
    ASSUME NEW t, NEW A, Sound(t, A), NEW p \in Container, NEW c \in Node
    PROVE  /\ Sound(Rm(t, p, c), A) /\ Spared(t, Rm(t, p, c), c)
           /\ t.parent[c] = p => Loose(Rm(t, p, c).children, c)
  <1> DEFINE target == IF p \in Window /\ c \notin Parts(p) THEN Frame(p) ELSE p
  <1>1. target \in Container /\ Rm(t, p, c) = Removed(t, target, c)
    BY Addresses DEF Rm
  <1>2. ASSUME t.parent[c] = p, ~Within(t.children[target], c) PROVE Loose(t.children, c)
    <2> SUFFICES ASSUME NEW q \in Container, Within(t.children[q], c) PROVE FALSE
      BY DEF Loose
    <2>1. q = p /\ (p \in Window => c \in Parts(p))
      BY <1>2 DEF Sound, Linked
    <2> QED
      BY <1>2, <2>1
  <1> HIDE DEF target
  <1> QED
    BY <1>1, <1>2, RemovedSound

\* rm_child, with an index that may be past the end.
LEMMA RmAtSound ==
    ASSUME NEW t, NEW A, Sound(t, A), NEW p \in Container, NEW i \in Nat \ {0}
    PROVE  Sound(RmAt(t, p, i), A)
  <1>1. t.children[p] \in Seq(Node)
    BY DEF Sound, Trees, Lists
  <1>2. CASE i <= Len(t.children[p])
    <2>1. t.children[p][i] \in Node
      BY <1>1, <1>2
    <2> QED
      BY <1>2, <2>1, RmSound DEF RmAt
  <1>3. CASE ~(i <= Len(t.children[p]))
    BY <1>3 DEF RmAt
  <1> QED
    BY <1>2, <1>3

\* A node without a parent is in no list.
LEMMA NobodysIsLoose ==
    ASSUME NEW t, NEW A, Sound(t, A), NEW c \in Node, t.parent[c] = None
    PROVE  Loose(t.children, c)
  BY Addresses DEF Sound, Linked, Loose

\* A node taken from its container, if it is in one, is in no list.
LEMMA DetachedSound ==
    ASSUME NEW t, NEW A, Sound(t, A), NEW c \in Node
    PROVE  Sound(Detached(t, c), A) /\ Loose(Detached(t, c).children, c)
  <1>1. CASE t.parent[c] = None
    BY <1>1, NobodysIsLoose DEF Detached
  <1>2. CASE t.parent[c] # None
    <2>1. t.parent[c] \in Container
      BY <1>2 DEF Sound, Trees, Parents
    <2> QED
      BY <1>2, <2>1, RmSound DEF Detached
  <1> QED
    BY <1>1, <1>2

\* What is added to a window goes into its frame.
LEMMA TargetIs ==
    ASSUME NEW p \in Container
    PROVE  Target(p) \in Container \ Window
  BY Addresses DEF Target, Widget

\* Container::add takes a child from where it is and puts it at the end.
LEMMA AddedSound ==
    ASSUME NEW t, NEW A, Sound(t, A), NEW p \in Container, NEW c \in Node,
           Target(p) \in A, c \in A
    PROVE  Sound(Added(t, p, c), A)
  <1> DEFINE d == Detached(t, c)
             q == Target(p)
             after == [d.children EXCEPT ![q] = Append(@, c)]
             up == [d.parent EXCEPT ![c] = q]
             u == Append2(d, q, c)
  <1>1. Sound(d, A) /\ Loose(d.children, c)
    BY DetachedSound
  <1>2. d \in Trees /\ d.children \in Lists /\ d.parent \in Parents /\ Linked(d.children, d.parent, A)
    BY <1>1 DEF Sound, Trees
  <1>3. q \in Container /\ q \notin Window
    BY TargetIs
  <1>4. after \in Lists /\ up \in Parents /\ Linked(after, up, A)
    BY <1>1, <1>2, <1>3, Link
  <1>5. u = [d EXCEPT !.children = after, !.parent = up]
    BY <1>2 DEF Append2
  <1>6. Added(t, p, c) = SetRoot(u, c, d.root[q])
    BY DEF Added
  <1>7. d.root[q] \in Window \cup {None}
    BY <1>2, <1>3, Addresses DEF Trees, Roots
  <1> HIDE DEF d, q, after, up, u
  <1>8. u \in Trees /\ u.children = after /\ u.parent = up
    BY <1>2, <1>4, <1>5 DEF Trees
  <1> QED
    BY <1>4, <1>6, <1>7, <1>8, SetRootIs DEF Sound

\* ~Container leaves its children without a parent.
LEMMA OrphanedSound ==
    ASSUME NEW t, NEW A, Sound(t, A), NEW n \in Container
    PROVE  Sound(Orphaned(t, n), A) /\ Orphaned(t, n).children[n] = <<>>
  <1> DEFINE after == [t.children EXCEPT ![n] = <<>>]
             up == [m \in Node |-> IF m \in ToSet(t.children[n]) THEN None ELSE t.parent[m]]
             below == UNION {Subtree(t, c) : c \in Children(t, n)}
             root == [m \in Node |-> IF m \in below THEN None ELSE t.root[m]]
  <1>1. t \in Trees /\ t.children \in Lists /\ t.parent \in Parents /\ t.root \in Roots
    BY DEF Sound, Trees
  <1>2. after \in Lists /\ up \in Parents /\ Linked(after, up, A)
    BY <1>1, Emptied DEF Sound
  <1>3. root \in Roots
    BY <1>1 DEF Roots
  <1>4. Orphaned(t, n) = [children |-> after, parent |-> up, root |-> root]
    BY DEF Orphaned, Children
  <1>5. after[n] = <<>>
    BY <1>1 DEF Lists
  <1> HIDE DEF after, up, root
  <1> QED
    BY <1>2, <1>3, <1>4, <1>5 DEF Sound, Trees

\* ~Container and ~Widget: nothing that stays names what goes.
LEMMA GoneSound ==
    ASSUME NEW t, NEW A, Sound(t, A), NEW n \in Node
    PROVE  Sound(Gone(t, n), A \ {n})
  <1> DEFINE u == IF n \in Container THEN Orphaned(t, n) ELSE t
             v == IF u.parent[n] \in {None, n} THEN u ELSE Rm(u, u.parent[n], n)
  <1>1. Sound(u, A) /\ (n \in Container => u.children[n] = <<>>)
    BY OrphanedSound
  <1>2. Gone(t, n) = [v EXCEPT !.parent[n] = None, !.root[n] = None]
    BY DEF Gone
  <1> HIDE DEF u
  <1>3. \A d : ~Within(<<>>, d)
    BY DEF Within, ToSet
  <1>4. Sound(v, A) /\ Loose(v.children, n) /\ (n \in Container => v.children[n] = <<>>)
    <2>1. CASE u.parent[n] = None
      BY <1>1, <2>1, NobodysIsLoose
    <2>2. CASE u.parent[n] = n
      <3>1. Loose(u.children, n)
        BY <1>1, <1>3, <2>2 DEF Sound, Linked, Loose
      <3> QED
        BY <1>1, <2>2, <3>1
    <2>3. CASE u.parent[n] \notin {None, n}
      <3>1. u.parent[n] \in Container
        BY <1>1, <2>3 DEF Sound, Trees, Parents
      <3>2. Sound(v, A) /\ Loose(v.children, n) /\ Spared(u, v, n)
        BY <1>1, <2>3, <3>1, RmSound
      <3> QED
        BY <1>1, <1>3, <3>2 DEF Spared
    <2> QED
      BY <2>1, <2>2, <2>3
  <1> HIDE DEF v
  <1> DEFINE up == [v.parent EXCEPT ![n] = None]
             root == [v.root EXCEPT ![n] = None]
  <1>5. v \in Trees /\ v.children \in Lists /\ v.parent \in Parents /\ v.root \in Roots
    BY <1>4 DEF Sound, Trees
  <1>6. up \in Parents /\ Linked(v.children, up, A \ {n})
    BY <1>4, <1>5, Dropped DEF Sound
  <1>7. root \in Roots
    BY <1>5 DEF Roots
  <1>8. Gone(t, n) = [v EXCEPT !.parent = up, !.root = root]
    BY <1>2
  <1> HIDE DEF up, root
  <1> QED
    BY <1>5, <1>6, <1>7, <1>8 DEF Sound, Trees

\* Window's constructor puts its two parts into it.
LEMMA MadeSound ==
    ASSUME NEW t, NEW A, Sound(t, A), NEW w \in Widget, w \notin A,
           w \in Window => Parts(w) \cap A = {}
    PROVE  Sound(Made(t, w), A \cup (IF w \in Window THEN {w} \cup Parts(w) ELSE {w}))
  <1>1. t \in Trees /\ t.children \in Lists /\ t.parent \in Parents /\ t.root \in Roots
        /\ Linked(t.children, t.parent, A)
    BY DEF Sound, Trees
  <1>2. CASE w \notin Window
    <2>1. Linked(t.children, t.parent, A \cup {w})
      BY <1>1 DEF Linked
    <2> QED
      BY <1>1, <1>2, <2>1 DEF Made, Sound
  <1>3. CASE w \in Window
    <2> DEFINE bar == Title(w)
               frame == Frame(w)
               B == A \cup ({w} \cup Parts(w))
               lists == [t.children EXCEPT ![w] = <<bar, frame>>]
               up == [t.parent EXCEPT ![w] = w, ![bar] = w, ![frame] = w]
               root == [t.root EXCEPT ![w] = w, ![bar] = w, ![frame] = w]
    <2>1. Made(t, w) = [t EXCEPT !.children = lists, !.parent = up, !.root = root]
      BY <1>3 DEF Made
    <2>2. /\ w \in Container /\ bar \in Container \ Widget
          /\ frame \in Container \ Widget
          /\ w \in Node /\ bar \in Node /\ frame \in Node
          /\ bar # frame /\ w # bar /\ w # frame /\ Parts(w) = {bar, frame}
          /\ bar \notin A /\ frame \notin A
      BY <1>3, Addresses
    <2> HIDE DEF bar, frame
    <2>3. <<bar, frame>> \in Seq(Node) /\ IsInjective(<<bar, frame>>)
          /\ \A d : Within(<<bar, frame>>, d) <=> d \in {bar, frame}
      BY <2>2 DEF IsInjective, Within, ToSet
    <2>4. lists \in Lists /\ \A q \in Container : lists[q] = IF q = w THEN <<bar, frame>> ELSE t.children[q]
      BY <1>1, <2>3 DEF Lists
    <2>5. up \in Parents /\ \A d \in Node : up[d] = IF d \in {w, bar, frame} THEN w ELSE t.parent[d]
      BY <1>1, <2>2 DEF Parents
    <2>6. root \in Roots
      BY <1>1, <1>3, <2>2 DEF Roots
    <2> HIDE DEF lists, up, root
    <2>7. \A q \in Container, d \in Node :
              Within(lists[q], d) <=> IF q = w THEN d \in {bar, frame} ELSE Within(t.children[q], d)
      BY <2>3, <2>4
    <2>8. \A q \in Container, d \in Node : Within(t.children[q], d) => d \notin {w, bar, frame} /\ q # w
      BY <1>1, <2>2 DEF Linked
    <2>9. \A q \in Container : IsInjective(lists[q])
      BY <1>1, <2>3, <2>4 DEF Linked
    <2>10. \A q \in Container, d \in Node : Within(lists[q], d) => q \in B /\ d \in B /\ up[d] = q
      BY <1>1, <2>2, <2>5, <2>7, <2>8 DEF Linked
    <2>11. \A d \in Node : up[d] \notin {None, d} => Within(lists[up[d]], d)
      <3> SUFFICES ASSUME NEW d \in Node, up[d] \notin {None, d} PROVE Within(lists[up[d]], d)
        OBVIOUS
      <3>1. CASE d \in {w, bar, frame}
        BY <2>2, <2>5, <2>7, <3>1
      <3>2. CASE d \notin {w, bar, frame}
        <4>1. up[d] = t.parent[d] /\ up[d] \in Container /\ Within(t.children[up[d]], d)
          BY <1>1, <2>5, <3>2 DEF Linked, Parents
        <4> QED
          BY <2>7, <2>8, <4>1
      <3> QED
        BY <3>1, <3>2
    <2>12. \A d \in Node \ B : up[d] = None
      BY <1>1, <2>2, <2>5 DEF Linked
    <2>13. \A v \in Window, d \in Node : Within(lists[v], d) => d \in Parts(v)
      BY <1>1, <2>2, <2>7, Addresses DEF Linked
    <2>14. Linked(lists, up, B)
      BY <2>9, <2>10, <2>11, <2>12, <2>13 DEF Linked
    <2> HIDE DEF B
    <2>15. Sound(Made(t, w), B)
      BY <1>1, <2>1, <2>4, <2>5, <2>6, <2>14 DEF Sound, Trees
    <2> QED
      BY <1>3, <2>15 DEF B
  <1> QED
    BY <1>2, <1>3

-----------------------------------------------------------------------------
(* WidgetTree: what is below a node *)

ClosedIn(lists, S) == \A p \in Container, c \in Node : p \in S /\ Within(lists[p], c) => c \in S

\* S is the least set with n and the children of its members in it.
Below(lists, n, S) ==
    /\ n \in S /\ S \subseteq Node /\ ClosedIn(lists, S)
    /\ \A Y : n \in Y /\ ClosedIn(lists, Y) => S \subseteq Y

\* One step down.
Reach(t, S) == S \cup UNION {Children(t, m) : m \in S}
ReachUpTo(f, t, n, last) == f[0] = {n} /\ \A k \in 1..last : f[k] = Reach(t, f[k-1])

\* A level holds the nodes above it, and their children.
LEMMA ReachIs ==
    ASSUME NEW t \in Trees, NEW S \in SUBSET Node
    PROVE  /\ Reach(t, S) \in SUBSET Node /\ S \subseteq Reach(t, S)
           /\ \A c \in Node : c \in Reach(t, S)
                              <=> c \in S \/ \E p \in Container : p \in S /\ Within(t.children[p], c)
  <1>1. \A p \in Container : t.children[p] \in Seq(Node)
    BY DEF Trees, Lists
  <1>2. \A m, c : c \in Children(t, m) <=> m \in Container /\ Within(t.children[m], c)
    BY DEF Children, Within
  <1>3. \A m, c : c \in Children(t, m) => c \in Node
    BY <1>1, <1>2, SequenceOf
  <1> QED
    BY <1>2, <1>3 DEF Reach

\* Subtree does what its definition says, level after level.
LEMMA LevelsAre ==
    ASSUME NEW t \in Trees, NEW n \in Node
    PROVE  \E f \in [0..Depth -> SUBSET Node] :
               ReachUpTo(f, t, n, Depth) /\ Subtree(t, n) = f[Depth]
  <1> DEFINE S == SUBSET Node
             P(f) == f = [k \in 0..Depth |->
                             IF k = 0 THEN {n} ELSE LET above == f[k-1]
                                                    IN above \cup UNION {Children(t, m) : m \in above}]
             g == [y \in S \X (1..Depth) |-> Reach(t, y[1])]
  <1>1. Depth \in Nat
    BY FiniteNode, FS_CardinalityType DEF Depth
  <1>2. g \in [S \X (1..Depth) -> S] /\ {n} \in S
    <2>1. \A y \in S \X (1..Depth) : Reach(t, y[1]) \in S
      BY ReachIs
    <2> QED
      BY <2>1
  <1>3. PICK f \in [0..Depth -> S] : Follows(f, {n}, g, Depth)
    <2> HIDE DEF g, S
    <2> QED
      BY <1>1, <1>2, RecursionExists
  <1>4. ReachUpTo(f, t, n, Depth)
    <2>1. ASSUME NEW k \in 1..Depth PROVE f[k] = Reach(t, f[k-1])
      <3>1. f[k] = g[<<f[k-1], k>>]
        <4> HIDE DEF g
        <4> QED
          BY <1>3 DEF Follows
      <3>2. f[k-1] \in S
        BY <1>1
      <3> QED
        BY <3>1, <3>2
    <2> QED
      BY <1>3, <2>1 DEF Follows, ReachUpTo
  <1>5. P(f)
    <2>1. ASSUME NEW k \in 0..Depth
          PROVE f[k] = IF k = 0 THEN {n} ELSE LET above == f[k-1]
                                              IN above \cup UNION {Children(t, m) : m \in above}
      <3>1. CASE k = 0
        BY <1>4, <3>1 DEF ReachUpTo
      <3>2. CASE k \in 1..Depth
        BY <1>4, <3>2 DEF ReachUpTo, Reach
      <3> QED
        BY <1>1, <3>1, <3>2
    <2>2. f = [k \in 0..Depth |-> f[k]]
      OBVIOUS
    <2> HIDE DEF S
    <2> QED
      BY <2>1, <2>2
  <1> DEFINE h == CHOOSE h : P(h)
  <1>6. P(h)
    <2> HIDE DEF P
    <2> QED
      BY <1>5
  <1>7. Subtree(t, n) = h[Depth]
    BY DEF Subtree
  <1> HIDE DEF h
  <1>8. h \in [0..Depth -> S] /\ ReachUpTo(h, t, n, Depth)
    <2> DEFINE I == {k \in Nat : k <= Depth => h[k] = f[k]}
    <2>1. 0 \in I
      BY <1>1, <1>5, <1>6
    <2>2. ASSUME NEW k \in Nat, k \in I PROVE k + 1 \in I
      <3> SUFFICES ASSUME k + 1 <= Depth PROVE h[k+1] = f[k+1]
        OBVIOUS
      <3>1. k + 1 \in 0..Depth /\ k + 1 # 0 /\ (k + 1) - 1 = k /\ h[k] = f[k]
        BY <1>1, <2>2
      <3>2. f[k+1] = Reach(t, f[k])
        BY <1>5, <3>1 DEF Reach
      <3>3. h[k+1] = Reach(t, h[k])
        BY <1>6, <3>1 DEF Reach
      <3> QED
        BY <3>1, <3>2, <3>3
    <2> HIDE DEF I
    <2>3. Nat \subseteq I
      BY <2>1, <2>2, SetInduction
    <2>4. \A k \in 0..Depth : h[k] = f[k]
      BY <1>1, <2>3 DEF I
    <2>5. h = [k \in 0..Depth |-> h[k]]
      BY <1>6
    <2>6. h = f
      <3> HIDE DEF S, P
      <3> QED
      BY <2>4, <2>5
    <2> QED
      BY <1>4, <2>6
  <1> QED
    BY <1>7, <1>8

\* So it has come to an end after as many levels as there are nodes.
LEMMA SubtreeIs ==
    ASSUME NEW t \in Trees, NEW n \in Node
    PROVE  Below(t.children, n, Subtree(t, n))
  <1> DEFINE d == Depth
             lists == t.children
  <1>1. PICK f \in [0..d -> SUBSET Node] : ReachUpTo(f, t, n, d) /\ Subtree(t, n) = f[d]
    BY LevelsAre
  <1>2. d \in Nat /\ IsFiniteSet(Node) /\ d = Cardinality(Node)
    BY FiniteNode, FS_CardinalityType DEF Depth
  <1> HIDE DEF d
  <1>3. f[0] = {n} /\ \A k \in Nat : k < d => /\ f[k] \in SUBSET Node /\ f[k+1] = Reach(t, f[k])
    BY <1>1, <1>2 DEF ReachUpTo
  <1>4. ASSUME NEW Y, n \in Y, ClosedIn(lists, Y) PROVE f[d] \subseteq Y
    <2> DEFINE I == {k \in Nat : k <= d => f[k] \subseteq Y}
    <2>1. 0 \in I
      BY <1>3, <1>4
    <2>2. ASSUME NEW k \in Nat, k \in I PROVE k + 1 \in I
      <3> SUFFICES ASSUME k + 1 <= d PROVE f[k+1] \subseteq Y
        OBVIOUS
      <3>1. f[k] \in SUBSET Node /\ f[k] \subseteq Y /\ f[k+1] = Reach(t, f[k])
        BY <1>2, <1>3, <2>2
      <3> HIDE DEF I
      <3> QED
        BY <1>4, <3>1, ReachIs DEF ClosedIn
    <2> HIDE DEF I
    <2>3. d \in I
      BY <1>2, <2>1, <2>2, SetInduction
    <2> QED
      BY <1>2, <2>3 DEF I
  <1>5. n \in f[d] /\ (ClosedIn(lists, f[d]) \/ Cardinality(f[d]) >= d + 1)
    <2> DEFINE I == {k \in Nat : k <= d => n \in f[k] /\ (ClosedIn(lists, f[k]) \/ Cardinality(f[k]) >= k + 1)}
    <2>1. 0 \in I
      <3>1. Cardinality({n}) = 1
        BY FS_Singleton
      <3>2. n \in f[0] /\ Cardinality(f[0]) = 1 /\ 1 >= 0 + 1
        BY <1>3, <3>1
      <3>3. n \in f[0] /\ Cardinality(f[0]) >= 0 + 1
        BY ONLY <3>2
      <3> QED
        BY ONLY <3>3
    <2>2. ASSUME NEW k \in Nat, k \in I PROVE k + 1 \in I
      <3> SUFFICES ASSUME k + 1 <= d
                   PROVE n \in f[k+1] /\ (ClosedIn(lists, f[k+1]) \/ Cardinality(f[k+1]) >= (k + 1) + 1)
        OBVIOUS
      <3>1. f[k] \in SUBSET Node /\ f[k+1] = Reach(t, f[k])
            /\ n \in f[k] /\ (ClosedIn(lists, f[k]) \/ Cardinality(f[k]) >= k + 1)
        BY <1>2, <1>3, <2>2
      <3> HIDE DEF I
      <3>2. f[k] \subseteq f[k+1] /\ f[k+1] \in SUBSET Node
        BY <3>1, ReachIs
      <3>3. CASE ClosedIn(lists, f[k])
        <4>1. f[k+1] \subseteq f[k]
          BY <3>1, <3>2, <3>3, ReachIs DEF ClosedIn
        <4>2. f[k+1] = f[k]
          BY <3>2, <4>1
        <4> QED
          BY <3>1, <3>3, <4>2
      <3>4. CASE ~ClosedIn(lists, f[k])
        <4>1. f[k+1] # f[k]
          BY <3>1, <3>4, ReachIs DEF ClosedIn
        <4>2. IsFiniteSet(f[k+1]) /\ IsFiniteSet(f[k])
          BY <1>2, <3>1, <3>2, FS_Subset
        <4>3. Cardinality(f[k]) <= Cardinality(f[k+1]) /\ Cardinality(f[k]) # Cardinality(f[k+1])
          BY <3>2, <4>1, <4>2, FS_Subset
        <4>4. Cardinality(f[k]) \in Nat /\ Cardinality(f[k+1]) \in Nat
          BY <4>2, FS_CardinalityType
        <4> QED
          BY <3>1, <3>2, <3>4, <4>3, <4>4
      <3> QED
        BY <3>3, <3>4
    <2> HIDE DEF I
    <2>3. d \in I
      BY <1>2, <2>1, <2>2, SetInduction
    <2> QED
      BY <1>2, <2>3 DEF I
  <1>6. f[d] \in SUBSET Node
    BY <1>2
  <1>7. Cardinality(f[d]) <= d /\ Cardinality(f[d]) \in Nat
    BY <1>2, <1>6, FS_Subset, FS_CardinalityType
  <1>8. ClosedIn(lists, f[d])
    BY <1>2, <1>5, <1>7
  <1> QED
    BY <1>1, <1>4, <1>5, <1>6, <1>8 DEF Below

-----------------------------------------------------------------------------
(* WidgetTree: roots *)

\* Whatever nodes one takes, one of them is under none of the others.
Founded(parents) == \A X \in SUBSET Node : X # {} => \E c \in X : parents[c] \notin X \ {c}

\* A root is that of the parent; a window that is in no container is its own.
Rooted(t) ==
    /\ Founded(t.parent)
    /\ \A p \in Container : ~Within(t.children[p], p)
    /\ \A c \in Node : /\ t.parent[c] = None => t.root[c] = None
                       /\ t.parent[c] = c => t.root[c] = c
                       /\ t.parent[c] \notin {None, c} => t.root[c] = t.root[t.parent[c]]
Fit(t, A) == Sound(t, A) /\ Rooted(t)

\* Roots are windows that exist, and are their own roots.
LEMMA RootIs ==
    ASSUME NEW t, NEW A, Fit(t, A), NEW c \in Node, t.root[c] # None
    PROVE  t.root[c] \in A
  <1> DEFINE w == t.root[c]
             X == {m \in Node : t.root[m] = w}
  <1>1. PICK m \in X : t.parent[m] \notin X \ {m}
    <2>1. X \in SUBSET Node /\ X # {}
      OBVIOUS
    <2> HIDE DEF X
    <2> QED
      BY <2>1 DEF Fit, Rooted, Founded
  <1>2. m \in Node /\ t.root[m] = w /\ w # None /\ t.parent[m] \in Container \cup {None}
    BY DEF Fit, Sound, Trees, Parents
  <1>3. t.parent[m] # None
    BY <1>2 DEF Fit, Rooted
  <1>4. t.parent[m] = m
    <2> SUFFICES ASSUME t.parent[m] # m PROVE FALSE
      OBVIOUS
    <2>1. t.root[t.parent[m]] = w /\ t.parent[m] \in Node
      BY <1>2, <1>3, Addresses DEF Fit, Rooted
    <2> QED
      BY <1>1, <2>1
  <1>5. w = m
    BY <1>2, <1>4 DEF Fit, Rooted
  <1>6. m \in A
    BY <1>2, <1>3 DEF Fit, Sound, Linked
  <1> QED
    BY <1>5, <1>6

\* Below c, everything but c has its parent there, and nothing else has.
LEMMA BelowParents ==
    ASSUME NEW t, NEW A, Fit(t, A), NEW c \in Node
    PROVE  LET S == Subtree(t, c) IN
           /\ c \in S /\ S \subseteq Node
           /\ \A m \in S \ {c} : t.parent[m] \in S \ {m}
           /\ \A m \in Node : t.parent[m] \in S => m \in S
  <1> DEFINE S == Subtree(t, c)
  <1>1. t \in Trees /\ Linked(t.children, t.parent, A) /\ Rooted(t)
    BY DEF Fit, Sound
  <1>2. Below(t.children, c, S)
    BY <1>1, SubtreeIs
  <1> HIDE DEF S
  <1>3. c \in S /\ S \subseteq Node /\ ClosedIn(t.children, S)
    BY <1>2 DEF Below
  <1>4. ASSUME NEW m \in S \ {c} PROVE t.parent[m] \in S \ {m}
    <2> DEFINE Y == S \ {m}
    <2>1. ~(S \subseteq Y) /\ c \in Y
      BY <1>3, <1>4
    <2>2. ~ClosedIn(t.children, Y)
      <3> HIDE DEF Y
      <3> QED
        BY <1>2, <2>1 DEF Below
    <2>3. PICK p \in Container, x \in Node : p \in Y /\ Within(t.children[p], x) /\ x \notin Y
      BY <2>2 DEF ClosedIn
    <2>4. x = m
      BY <1>3, <2>3 DEF ClosedIn
    <2>5. t.parent[m] = p
      BY <1>1, <2>3, <2>4 DEF Linked
    <2> QED
      BY <2>3, <2>5
  <1>5. ASSUME NEW m \in Node, t.parent[m] \in S PROVE m \in S
    <2>1. t.parent[m] # None /\ t.parent[m] \in Container
      BY <1>1, <1>3, <1>5, Addresses DEF Trees, Parents
    <2>2. CASE t.parent[m] = m
      BY <1>5, <2>2
    <2>3. CASE t.parent[m] # m
      BY <1>1, <1>3, <1>5, <2>1, <2>3 DEF Linked, ClosedIn
    <2> QED
      BY <2>2, <2>3
  <1> QED
    BY <1>3, <1>4, <1>5 DEF S

\* The nodes in D, and what is below them, all in S, are taken out of the tree.
TakenOut(t, u, D, S) ==
    /\ D \subseteq S /\ S \subseteq Node
    /\ \A m \in Node : u.parent[m] = IF m \in D THEN None ELSE t.parent[m]
    /\ \A m \in Node : u.root[m] = IF m \in S THEN None ELSE t.root[m]
    /\ \A q \in Container, m \in Node : Within(u.children[q], m) => Within(t.children[q], m)
    /\ \A m \in S \ D : t.parent[m] \in S \ {m}
    /\ \A m \in Node : t.parent[m] \in S => m \in S

\* What is below a node that is taken out loses its root with it.
LEMMA TakenOutRooted ==
    ASSUME NEW t \in Trees, Rooted(t), NEW u, NEW D, NEW S, TakenOut(t, u, D, S)
    PROVE  Rooted(u)
  <1>1. Founded(u.parent)
    <2> SUFFICES ASSUME NEW X \in SUBSET Node, X # {}
                 PROVE  \E c \in X : u.parent[c] \notin X \ {c}
      BY DEF Founded
    <2>1. PICK c \in X : t.parent[c] \notin X \ {c}
      BY DEF Rooted, Founded
    <2>2. u.parent[c] \in {None, t.parent[c]}
      BY DEF TakenOut
    <2> QED
      BY <2>1, <2>2, Addresses
  <1>2. \A p \in Container : ~Within(u.children[p], p)
    BY Addresses DEF Rooted, TakenOut
  <1>3. ASSUME NEW c \in Node
        PROVE  /\ u.parent[c] = None => u.root[c] = None
               /\ u.parent[c] = c => u.root[c] = c
               /\ u.parent[c] \notin {None, c} => u.root[c] = u.root[u.parent[c]]
    <2>1. CASE c \in D
      BY <2>1, Addresses DEF TakenOut
    <2>2. CASE c \in S \ D
      <3>1. u.root[c] = None /\ u.parent[c] = t.parent[c] /\ t.parent[c] \in S /\ t.parent[c] # c
        BY <2>2 DEF TakenOut
      <3>2. u.root[t.parent[c]] = None /\ t.parent[c] # None
        BY <3>1, Addresses DEF TakenOut
      <3> QED
        BY <3>1, <3>2
    <2>3. CASE c \notin S
      <3>1. u.root[c] = t.root[c] /\ u.parent[c] = t.parent[c] /\ t.parent[c] \notin S
        BY <2>3 DEF TakenOut
      <3>2. t.parent[c] \in Node => u.root[t.parent[c]] = t.root[t.parent[c]]
        BY <3>1 DEF TakenOut
      <3>3. t.parent[c] \notin {None, c} => t.parent[c] \in Node
        BY Addresses DEF Trees, Parents
      <3> QED
        BY <3>1, <3>2, <3>3 DEF Rooted
    <2> QED
      BY <2>1, <2>2, <2>3 DEF TakenOut
  <1> QED
    BY <1>1, <1>2, <1>3 DEF Rooted

\* Container::rm keeps roots and parents in agreement.
LEMMA RemovedRooted ==
    ASSUME NEW t, NEW A, Fit(t, A), NEW p \in Container, NEW c \in Node
    PROVE  Fit(Removed(t, p, c), A)
  <1>1. t \in Trees /\ t.children[p] \in Seq(Node) /\ IsInjective(t.children[p]) /\ Sound(t, A) /\ Rooted(t)
    BY DEF Fit, Sound, Trees, Lists, Linked
  <1>2. CASE ~Within(t.children[p], c)
    BY <1>1, <1>2, RemovedSound DEF Fit
  <1>3. CASE Within(t.children[p], c)
    <2> DEFINE S == Subtree(t, c)
               l == Without(t.children[p], c)
               u == [children |-> [t.children EXCEPT ![p] = l], parent |-> [t.parent EXCEPT ![c] = None],
                     root |-> [m \in Node |-> IF m \in S THEN None ELSE t.root[m]]]
    <2>1. Contains(t.children[p], c)
      BY <1>1, <1>3 DEF Contains, Within, ToSet
    <2>2. Removed(t, p, c) = u
      BY <1>1, <2>1 DEF Removed, SetRoot, Trees
    <2>3. ToSet(l) = ToSet(t.children[p]) \ {c}
      BY <1>1, WithoutIs
    <2>4. \A q \in Container, m \in Node : Within(u.children[q], m) => Within(t.children[q], m)
      <3> HIDE DEF l
      <3> QED
        BY <1>1, <2>3 DEF Within, Trees, Lists
    <2>5. \A m \in Node : u.parent[m] = IF m \in {c} THEN None ELSE t.parent[m]
      BY <1>1 DEF Trees, Parents
    <2>6. \A m \in Node : u.root[m] = IF m \in S THEN None ELSE t.root[m]
      OBVIOUS
    <2> HIDE DEF u, S
    <2>7. /\ c \in S /\ S \subseteq Node
          /\ \A m \in S \ {c} : t.parent[m] \in S \ {m}
          /\ \A m \in Node : t.parent[m] \in S => m \in S
      BY BelowParents DEF S
    <2>8. TakenOut(t, u, {c}, S)
      BY <2>4, <2>5, <2>6, <2>7 DEF TakenOut
    <2> QED
      BY <1>1, <2>2, <2>8, TakenOutRooted, RemovedSound DEF Fit
  <1> QED
    BY <1>2, <1>3

\* So does Window::rm ...
LEMMA RmRooted ==
    ASSUME NEW t, NEW A, Fit(t, A), NEW p \in Container, NEW c \in Node
    PROVE  Fit(Rm(t, p, c), A)
  BY RemovedRooted, Addresses DEF Rm

\* ... and rm_child ...
LEMMA RmAtRooted ==
    ASSUME NEW t, NEW A, Fit(t, A), NEW p \in Container, NEW i \in Nat \ {0}
    PROVE  Fit(RmAt(t, p, i), A)
  <1>1. t.children[p] \in Seq(Node)
    BY DEF Fit, Sound, Trees, Lists
  <1>2. CASE i <= Len(t.children[p])
    <2>1. t.children[p][i] \in Node
      BY <1>1, <1>2
    <2> QED
      BY <1>2, <2>1, RmRooted DEF RmAt
  <1>3. CASE ~(i <= Len(t.children[p]))
    BY <1>3 DEF RmAt
  <1> QED
    BY <1>2, <1>3

\* ... and taking a node from where it is.
LEMMA DetachedRooted ==
    ASSUME NEW t, NEW A, Fit(t, A), NEW c \in Node
    PROVE  Fit(Detached(t, c), A)
  <1>1. CASE t.parent[c] = None
    BY <1>1 DEF Detached
  <1>2. CASE t.parent[c] # None
    <2>1. t.parent[c] \in Container
      BY <1>2 DEF Fit, Sound, Trees, Parents
    <2> QED
      BY <1>2, <2>1, RmRooted DEF Detached
  <1> QED
    BY <1>1, <1>2

\* What is below c is the same when c is put into a container not below it.
LEMMA BelowLinked ==
    ASSUME NEW d \in Trees, NEW u \in Trees, NEW q \in Container, NEW c \in Node,
           q \notin Subtree(d, c),
           \A p \in Container, m \in Node :
               Within(u.children[p], m) <=> Within(d.children[p], m) \/ (p = q /\ m = c)
    PROVE  Subtree(u, c) = Subtree(d, c)
  <1> DEFINE S == Subtree(d, c)
             T == Subtree(u, c)
  <1>1. Below(d.children, c, S) /\ Below(u.children, c, T)
    BY SubtreeIs
  <1> HIDE DEF S, T
  <1>2. ClosedIn(u.children, S)
    BY <1>1 DEF Below, ClosedIn, S
  <1>3. ClosedIn(d.children, T)
    BY <1>1 DEF Below, ClosedIn
  <1>4. c \in S /\ c \in T
    BY <1>1 DEF Below
  <1>5. T \subseteq S /\ S \subseteq T
    BY <1>1, <1>2, <1>3, <1>4 DEF Below
  <1> QED
    BY <1>5 DEF S, T

\* Container::add gives what is below the child the root of the container, unless
\* it makes a cycle: then set_root() would not end.
LEMMA AddedRooted ==
    ASSUME NEW t, NEW A, Fit(t, A), NEW p \in Container, NEW c \in Node,
           Target(p) \in A, c \in A, ~HasCycle(t, p, c)
    PROVE  Fit(Added(t, p, c), A)
  <1> DEFINE d == Detached(t, c)
             q == Target(p)
             u == Append2(d, q, c)
             S == Subtree(d, c)
             lists == [d.children EXCEPT ![q] = Append(@, c)]
             v == [children |-> lists,
                   parent |-> [d.parent EXCEPT ![c] = q],
                   root |-> [m \in Node |-> IF m \in S THEN d.root[q] ELSE d.root[m]]]
  <1>1. Fit(d, A) /\ Loose(d.children, c) /\ Sound(Added(t, p, c), A)
    BY DetachedRooted, DetachedSound, AddedSound DEF Fit
  <1>2. d \in Trees /\ d.children \in Lists /\ d.parent \in Parents /\ d.root \in Roots
        /\ Linked(d.children, d.parent, A) /\ Rooted(d)
    BY <1>1 DEF Fit, Sound, Trees
  <1>3. q \in Container /\ q \notin S
    BY TargetIs DEF HasCycle
  <1>4. Added(t, p, c) = SetRoot(u, c, d.root[q])
    BY DEF Added
  <1> HIDE DEF d, q
  <1>5. u = [d EXCEPT !.children = lists, !.parent = [d.parent EXCEPT ![c] = q]]
    BY <1>2 DEF Append2
  <1>6. d.children[q] \in Seq(Node) /\ IsInjective(d.children[q]) /\ ~Within(d.children[q], c)
    BY <1>1, <1>2, <1>3 DEF Lists, Linked, Loose
  <1>7. Append(d.children[q], c) \in Seq(Node)
        /\ \A m : Within(Append(d.children[q], c), m) <=> Within(d.children[q], m) \/ m = c
    BY <1>6, Longer DEF Within
  <1>8. lists \in Lists /\ \A r \in Container, m \in Node :
            Within(lists[r], m) <=> Within(d.children[r], m) \/ (r = q /\ m = c)
    BY <1>2, <1>3, <1>7 DEF Lists
  <1> HIDE DEF lists
  <1>9. u \in Trees /\ u.children = lists
    BY <1>2, <1>3, <1>5, <1>8 DEF Trees, Parents
  <1>10. Subtree(u, c) = S
    BY <1>2, <1>3, <1>8, <1>9, BelowLinked
  <1>11. Added(t, p, c) = v
    <2>1. u = [children |-> lists, parent |-> [d.parent EXCEPT ![c] = q], root |-> d.root]
      BY <1>2, <1>5 DEF Trees
    <2>2. Added(t, p, c) = [u EXCEPT !.root = [m \in Node |-> IF m \in S THEN d.root[q] ELSE @[m]]]
      BY <1>4, <1>10 DEF SetRoot
    <2> HIDE DEF u, S
    <2> QED
      BY <2>1, <2>2
  <1>12. /\ c \in S /\ S \subseteq Node
         /\ \A m \in S \ {c} : d.parent[m] \in S \ {m}
         /\ \A m \in Node : d.parent[m] \in S => m \in S
    BY <1>1, BelowParents
  <1>13. /\ \A m \in Node : v.parent[m] = IF m = c THEN q ELSE d.parent[m]
         /\ \A m \in Node : v.root[m] = IF m \in S THEN d.root[q] ELSE d.root[m]
         /\ v.children = lists
    BY <1>2 DEF Parents
  <1> HIDE DEF S, v, u
  <1>14. q \in Node
    BY <1>3, Addresses
  <1>15. Founded(v.parent)
    <2> SUFFICES ASSUME NEW X \in SUBSET Node, X # {}, \A m \in X : v.parent[m] \in X \ {m}
                 PROVE  FALSE
      BY DEF Founded
    <2>1. CASE c \notin X
      <3>1. \A m \in X : d.parent[m] \in X \ {m}
        BY <1>13, <2>1
      <3> QED
        BY <1>2, <3>1 DEF Rooted, Founded
    <2>2. CASE c \in X
      <3> DEFINE Y == X \ S
      <3>1. q \in Y
        BY <1>3, <1>13, <2>2
      <3>2. \A m \in Y : d.parent[m] \in Y \ {m}
        BY <1>12, <1>13
      <3>3. Y \in SUBSET Node /\ Y # {}
        BY <3>1
      <3> HIDE DEF Y
      <3> QED
        BY <1>2, <3>2, <3>3 DEF Rooted, Founded
    <2> QED
      BY <2>1, <2>2
  <1>16. \A r \in Container : ~Within(v.children[r], r)
    BY <1>2, <1>3, <1>8, <1>12, <1>13, Addresses DEF Rooted
  <1>17. ASSUME NEW m \in Node
         PROVE  /\ v.parent[m] = None => v.root[m] = None
                /\ v.parent[m] = m => v.root[m] = m
                /\ v.parent[m] \notin {None, m} => v.root[m] = v.root[v.parent[m]]
    <2>1. CASE m = c
      <3>1. v.parent[m] = q /\ v.root[m] = d.root[q] /\ v.root[q] = d.root[q] /\ q # m /\ q # None
        BY <1>3, <1>12, <1>13, <1>14, <2>1, Addresses
      <3> QED
        BY <3>1
    <2>2. CASE m \in S \ {c}
      <3>1. v.parent[m] = d.parent[m] /\ d.parent[m] \in S \ {m} /\ v.root[m] = d.root[q]
        BY <1>12, <1>13, <2>2
      <3>2. v.root[d.parent[m]] = d.root[q] /\ d.parent[m] # None
        BY <1>12, <1>13, <3>1, Addresses
      <3> QED
        BY <3>1, <3>2
    <2>3. CASE m \notin S
      <3>1. v.parent[m] = d.parent[m] /\ v.root[m] = d.root[m] /\ d.parent[m] \notin S
        BY <1>12, <1>13, <2>3
      <3>2. d.parent[m] \notin {None, m} => d.parent[m] \in Node
        BY <1>2, Addresses DEF Parents
      <3>3. d.parent[m] \in Node => v.root[d.parent[m]] = d.root[d.parent[m]]
        BY <1>13, <3>1
      <3> QED
        BY <1>2, <3>1, <3>2, <3>3 DEF Rooted
    <2> QED
      BY <2>1, <2>2, <2>3
  <1>18. Rooted(v)
    BY <1>15, <1>16, <1>17 DEF Rooted
  <1> QED
    BY <1>1, <1>11, <1>18 DEF Fit

\* ~Container takes its children, and all below them, out of the tree.
LEMMA OrphanedRooted ==
    ASSUME NEW t, NEW A, Fit(t, A), NEW n \in Container
    PROVE  Fit(Orphaned(t, n), A)
  <1> DEFINE D == ToSet(t.children[n])
             S == UNION {Subtree(t, c) : c \in D}
             u == Orphaned(t, n)
  <1>1. t \in Trees /\ Rooted(t) /\ Linked(t.children, t.parent, A) /\ t.children[n] \in Seq(Node)
    BY DEF Fit, Sound, Trees, Lists
  <1>2. D \subseteq Node
    BY <1>1, SequenceOf DEF Within
  <1>3. u = [children |-> [t.children EXCEPT ![n] = <<>>],
             parent |-> [m \in Node |-> IF m \in D THEN None ELSE t.parent[m]],
             root |-> [m \in Node |-> IF m \in S THEN None ELSE t.root[m]]]
    BY DEF Orphaned, Children
  <1> HIDE DEF D
  <1>4. /\ \A m \in Node : u.parent[m] = IF m \in D THEN None ELSE t.parent[m]
        /\ \A m \in Node : u.root[m] = IF m \in S THEN None ELSE t.root[m]
    BY <1>3
  <1>5. \A q \in Container, m \in Node : Within(u.children[q], m) => Within(t.children[q], m)
    <2>1. \A m : ~Within(<<>>, m)
      BY DEF Within, ToSet
    <2>2. \A q \in Container : u.children[q] = IF q = n THEN <<>> ELSE t.children[q]
      BY <1>1, <1>3 DEF Trees, Lists
    <2> QED
      BY <2>1, <2>2
  <1>6. ASSUME NEW c \in D
        PROVE  /\ c \in Subtree(t, c) /\ Subtree(t, c) \subseteq Node
               /\ \A m \in Subtree(t, c) \ {c} : t.parent[m] \in Subtree(t, c) \ {m}
               /\ \A m \in Node : t.parent[m] \in Subtree(t, c) => m \in Subtree(t, c)
    BY <1>2, BelowParents
  <1>7. D \subseteq S /\ S \subseteq Node
    BY <1>6
  <1>8. \A m \in S \ D : t.parent[m] \in S \ {m}
    BY <1>6
  <1>9. \A m \in Node : t.parent[m] \in S => m \in S
    BY <1>6
  <1> HIDE DEF S, u
  <1>10. TakenOut(t, u, D, S)
    BY <1>4, <1>5, <1>7, <1>8, <1>9 DEF TakenOut
  <1> QED
    BY <1>1, <1>10, TakenOutRooted, OrphanedSound DEF u, Fit

\* Once a widget is destroyed, nothing that stays has it as its root.
LEMMA GoneRooted ==
    ASSUME NEW t, NEW A, Fit(t, A), NEW n \in Node
    PROVE  Fit(Gone(t, n), A \ {n})
  <1> DEFINE u == IF n \in Container THEN Orphaned(t, n) ELSE t
             v == IF u.parent[n] \in {None, n} THEN u ELSE Rm(u, u.parent[n], n)
             z == Gone(t, n)
  <1>1. Fit(u, A)
    BY OrphanedRooted
  <1>2. z = [v EXCEPT !.parent[n] = None, !.root[n] = None]
    BY DEF Gone
  <1> HIDE DEF u
  <1>3. Fit(v, A)
    <2>1. u.parent[n] \notin {None, n} => u.parent[n] \in Container
      BY <1>1 DEF Fit, Sound, Trees, Parents
    <2> QED
      BY <1>1, <2>1, RmRooted
  <1>4. Sound(z, A \ {n}) /\ Sound(t, A)
    BY GoneSound DEF Fit
  <1> HIDE DEF v
  <1>5. v \in Trees /\ Linked(v.children, v.parent, A) /\ Rooted(v)
    BY <1>3 DEF Fit, Sound
  <1>6. z.children = v.children /\ \A m \in Node :
            /\ z.parent[m] = IF m \in {n} THEN None ELSE v.parent[m]
            /\ z.root[m] = IF m \in {n} THEN None ELSE v.root[m]
    BY <1>2, <1>5 DEF Trees, Parents, Roots
  <1> HIDE DEF z
  <1>7. \A m \in Node : v.parent[m] \in {n} => m \in {n}
    <2> SUFFICES ASSUME NEW m \in Node, v.parent[m] = n, m # n PROVE FALSE
      OBVIOUS
    <2>1. n \in Container /\ Within(z.children[n], m)
      BY <1>5, <1>6, Addresses DEF Linked, Trees, Parents
    <2> QED
      BY <1>4, <2>1 DEF Sound, Linked
  <1>8. TakenOut(v, z, {n}, {n})
    BY <1>6, <1>7 DEF TakenOut
  <1> QED
    BY <1>4, <1>5, <1>8, TakenOutRooted DEF z, Fit

\* A new window is the root of itself and of its parts.
LEMMA MadeRooted ==
    ASSUME NEW t, NEW A, Fit(t, A), NEW w \in Widget, w \notin A,
           w \in Window => Parts(w) \cap A = {}
    PROVE  Fit(Made(t, w), A \cup (IF w \in Window THEN {w} \cup Parts(w) ELSE {w}))
  <1> DEFINE B == A \cup (IF w \in Window THEN {w} \cup Parts(w) ELSE {w})
             u == Made(t, w)
  <1>1. t \in Trees /\ Linked(t.children, t.parent, A) /\ Rooted(t) /\ Sound(u, B)
    BY MadeSound DEF Fit, Sound
  <1>2. CASE w \notin Window
    BY <1>1, <1>2 DEF Made, Fit
  <1>3. CASE w \in Window
    <2> DEFINE bar == Title(w)
               frame == Frame(w)
               New == {w, bar, frame}
    <2>1. u = [t EXCEPT !.children[w] = <<bar, frame>>,
                        !.parent[w] = w, !.parent[bar] = w, !.parent[frame] = w,
                        !.root[w] = w, !.root[bar] = w, !.root[frame] = w]
      BY <1>3 DEF Made
    <2>2. /\ w \in Container /\ bar \in Container \ Widget
          /\ frame \in Container \ Widget
          /\ New \subseteq Node /\ New \cap A = {} /\ w # bar /\ w # frame /\ bar # frame
      BY <1>3, Addresses
    <2> HIDE DEF u, bar, frame
    <2>3. /\ \A q \in Container : u.children[q] = IF q = w THEN <<bar, frame>> ELSE t.children[q]
          /\ \A m \in Node : u.parent[m] = IF m \in New THEN w ELSE t.parent[m]
          /\ \A m \in Node : u.root[m] = IF m \in New THEN w ELSE t.root[m]
      BY <1>1, <2>1, <2>2 DEF Trees, Lists, Parents, Roots
    <2> HIDE DEF New
    <2>4. \A m \in Node : t.parent[m] \in New => m \in New
      <3> SUFFICES ASSUME NEW m \in Node, t.parent[m] \in New, m \notin New PROVE FALSE
        OBVIOUS
      <3>1. t.parent[m] \in Container /\ t.parent[m] \notin A
        BY <1>1, <2>2, Addresses DEF Trees, Parents
      <3>2. Within(t.children[t.parent[m]], m)
        BY <1>1, <3>1, Addresses DEF Linked
      <3> QED
        BY <1>1, <3>1, <3>2 DEF Linked
    <2>5. w \in New /\ New \subseteq Node /\ w # None
      BY <2>2, Addresses DEF New
    <2>6. Founded(u.parent)
      <3> SUFFICES ASSUME NEW X \in SUBSET Node, X # {}, \A m \in X : u.parent[m] \in X \ {m}
                   PROVE  FALSE
        BY DEF Founded
      <3>1. w \notin X
        BY <2>3, <2>5
      <3>2. \A m \in X : m \notin New /\ t.parent[m] \in X \ {m}
        BY <2>3, <3>1
      <3> QED
        BY <1>1, <3>2 DEF Rooted, Founded
    <2>7. \A r \in Container : ~Within(u.children[r], r)
      <3>1. \A m : Within(<<bar, frame>>, m) => m \in {bar, frame}
        BY DEF Within, ToSet
      <3> QED
        BY <1>1, <2>2, <2>3, <3>1 DEF Rooted
    <2>8. ASSUME NEW m \in Node
          PROVE  /\ u.parent[m] = None => u.root[m] = None
                 /\ u.parent[m] = m => u.root[m] = m
                 /\ u.parent[m] \notin {None, m} => u.root[m] = u.root[u.parent[m]]
      <3>1. CASE m \in New
        BY <2>3, <2>5, <3>1
      <3>2. CASE m \notin New
        <4>1. u.parent[m] = t.parent[m] /\ u.root[m] = t.root[m] /\ t.parent[m] \notin New
          BY <2>3, <2>4, <3>2
        <4>2. t.parent[m] \notin {None, m} => t.parent[m] \in Node
          BY <1>1, Addresses DEF Trees, Parents
        <4>3. t.parent[m] \in Node => u.root[t.parent[m]] = t.root[t.parent[m]]
          BY <2>3, <4>1
        <4> QED
          BY <1>1, <4>1, <4>2, <4>3 DEF Rooted
      <3> QED
        BY <3>1, <3>2
    <2>9. Rooted(u)
      BY <2>6, <2>7, <2>8 DEF Rooted
    <2> QED
      BY <1>1, <2>9 DEF Fit, u
  <1> QED
    BY <1>2, <1>3

-----------------------------------------------------------------------------
(* WidgetTree: the invariant *)

\* The stack has windows, each once.
Stacked(s) == s \in Seq(Window) /\ IsInjective(s)

Updates ==
    queue \in Seq(Update) /\ batch \in Seq(Update) /\ Len(queue) + Len(batch) <= MaxUpdates

TreeInv ==
    /\ widgets \subseteq Widget /\ failed \in BOOLEAN
    /\ Fit(tree, Alive)
    /\ Stacked(stack)
    /\ Updates

\* The invariant says all that the invariants of WidgetTree do.
LEMMA TreeInvEnough == TreeInv => TreeAgrees /\ RootsAgree
  <1> SUFFICES ASSUME TreeInv PROVE TreeAgrees /\ RootsAgree
    OBVIOUS
  <1>1. tree \in Trees /\ Linked(tree.children, tree.parent, Alive)
    BY DEF TreeInv, Fit, Sound
  <1>2. TypeOK
    BY <1>1 DEF TreeInv, Stacked, Updates, TypeOK, Trees, Lists, Parents, Roots
  <1>3. Alive \subseteq Node
    BY Addresses DEF TreeInv, Alive
  <1>4. ASSUME NEW p \in Alive \cap Container
        PROVE  /\ IsInjective(tree.children[p])
               /\ \A c \in ToSet(tree.children[p]) : c \in Alive /\ tree.parent[c] = p
    <2>1. tree.children[p] \in Seq(Node)
      BY <1>1 DEF Trees, Lists
    <2>2. \A c \in ToSet(tree.children[p]) : c \in Node /\ Within(tree.children[p], c)
      BY <2>1, SequenceOf DEF Within
    <2> QED
      BY <1>1, <1>4, <2>2 DEF Linked
  <1>5. ASSUME NEW c \in Alive, tree.parent[c] \notin {None, c}
        PROVE  tree.parent[c] \in Alive /\ Contains(tree.children[tree.parent[c]], c)
    <2> DEFINE p == tree.parent[c]
    <2>1. c \in Node /\ p \in Container
      BY <1>1, <1>3, <1>5 DEF Trees, Parents
    <2>2. Within(tree.children[p], c) /\ p \in Alive
      BY <1>1, <1>5, <2>1 DEF Linked
    <2>3. tree.children[p] \in Seq(Node)
      BY <1>1, <2>1 DEF Trees, Lists
    <2> QED
      BY <2>2, <2>3 DEF Within, ToSet, Contains
  <1>7. RootsAgree
    <2>1. \A c \in Alive : c \in Node /\ tree.parent[c] \in Container \cup {None}
      BY <1>1, <1>3 DEF Trees, Parents
    <2>2. Fit(tree, Alive)
      BY DEF TreeInv
    <2>3. \A c \in Alive : tree.root[c] \in Alive \cup {None}
      BY <2>1, <2>2, RootIs
    <2> QED
      BY <2>1, <2>2, <2>3 DEF RootsAgree, Fit, Rooted
  <1> QED
    BY <1>2, <1>4, <1>5, <1>7 DEF TreeAgrees

-----------------------------------------------------------------------------
(* WidgetTree: the steps *)

\* Nothing exists, and so nothing is in anything.
LEMMA TreeInit == Init => TreeInv
  <1> SUFFICES ASSUME Init PROVE TreeInv
    OBVIOUS
  <1>1. \A d : ~Within(<<>>, d)
    BY DEF Within, ToSet
  <1>2. IsInjective(<<>>) /\ ToSet(<<>>) = {}
    BY DEF IsInjective, ToSet
  <1>3. tree = [children |-> [n \in Container |-> <<>>], parent |-> [n \in Node |-> None],
                root |-> [n \in Node |-> None]]
    BY DEF Init
  <1>4. tree \in Trees
    BY <1>3 DEF Trees, Lists, Parents, Roots
  <1>5. Linked(tree.children, tree.parent, Alive)
    BY <1>1, <1>2, <1>3, Addresses DEF Linked
  <1>6. Stacked(stack)
    BY <1>2 DEF Init, Stacked
  <1>7. Updates
    BY TreeAssumption DEF Init, Updates
  <1>8. Rooted(tree)
    <2>1. \A c \in Node : tree.parent[c] = None /\ tree.root[c] = None
      BY <1>3
    <2>2. \A p \in Container : tree.children[p] = <<>>
      BY <1>3
    <2>3. Founded(tree.parent)
      BY <2>1, Addresses DEF Founded
    <2> QED
      BY <1>1, <2>1, <2>2, <2>3, Addresses DEF Rooted
  <1> QED
    BY <1>4, <1>5, <1>6, <1>7, <1>8 DEF Init, TreeInv, Fit, Sound

\* make_*: a new widget is in nothing, a window has its parts.
LEMMA MakeInv ==
    ASSUME TreeInv, NEW w, Make(w)
    PROVE  TreeInv'
  <1>1. w \in Widget \ widgets /\ widgets' = widgets \cup {w} /\ tree' = Made(tree, w)
        /\ UNCHANGED <<stack, queue, batch, failed>>
    BY DEF Make
  <1>2. w \notin Alive /\ (w \in Window => Parts(w) \cap Alive = {})
    BY <1>1, Addresses DEF Alive, TreeInv
  <1>3. Alive' = Alive \cup (IF w \in Window THEN {w} \cup Parts(w) ELSE {w})
    BY <1>1 DEF Alive
  <1>4. Fit(tree', Alive')
    BY <1>1, <1>2, <1>3, MadeRooted DEF TreeInv
  <1> QED
    BY <1>1, <1>4 DEF TreeInv, Stacked, Updates

\* close() takes a window off the stack.
LEMMA ClosedStack ==
    ASSUME Stacked(stack), NEW w
    PROVE  Stacked(CloseWindow(w)) /\ ToSet(CloseWindow(w)) = ToSet(stack) \ {w}
  BY WithoutIs DEF Stacked, CloseWindow

\* destroy_widget: a window closes, and its parts go first.
LEMMA DestroyInv ==
    ASSUME TreeInv, NEW w \in Widget, Destroy(w)
    PROVE  TreeInv'
  <1>1. w \in widgets /\ widgets' = widgets \ {w} /\ UNCHANGED <<queue, batch, failed>>
    BY DEF Destroy
  <1>2. w \in Node /\ Fit(tree, Alive)
    BY Addresses DEF TreeInv
  <1>3. CASE w \in Window
    <2> DEFINE t1 == Gone(tree, Frame(w))
               t2 == Gone(t1, Title(w))
    <2>1. tree' = Gone(t2, w) /\ stack' = CloseWindow(w)
      BY <1>3 DEF Destroy
    <2>2. Frame(w) \in Node /\ Title(w) \in Node
      BY <1>3, Addresses
    <2>3. Fit(t1, Alive \ {Frame(w)})
      BY <1>2, <2>2, GoneRooted
    <2>4. Fit(t2, (Alive \ {Frame(w)}) \ {Title(w)})
      BY <2>2, <2>3, GoneRooted
    <2> HIDE DEF t1, t2
    <2>5. Fit(tree', ((Alive \ {Frame(w)}) \ {Title(w)}) \ {w})
      BY <1>2, <2>1, <2>4, GoneRooted
    <2>6. Alive' = ((Alive \ {Frame(w)}) \ {Title(w)}) \ {w}
      <3>1. \A v \in widgets \cap Window : v # w => Parts(v) \cap {w, Title(w), Frame(w)} = {}
        BY <1>3, Addresses
      <3>2. \A n \in widgets : n \notin {Title(w), Frame(w)}
        BY <1>3, Addresses DEF TreeInv
      <3> QED
        BY <1>1, <1>3, <3>1, <3>2, Addresses DEF Alive
    <2> QED
      BY <1>1, <2>1, <2>5, <2>6, ClosedStack DEF TreeInv, Updates
  <1>4. CASE w \notin Window
    <2>1. tree' = Gone(tree, w) /\ stack' = stack
      BY <1>4 DEF Destroy
    <2>2. Alive' = Alive \ {w}
      BY <1>1, <1>4, Addresses DEF Alive
    <2>3. Fit(tree', Alive')
      BY <1>2, <2>1, <2>2, GoneRooted
    <2>4. Stacked(stack')
      BY <2>1 DEF TreeInv
    <2> QED
      BY <1>1, <2>3, <2>4 DEF TreeInv, Updates
  <1> QED
    BY <1>3, <1>4

\* push_update: what is pushed is an update, and there is room for it.
LEMMA PushInv ==
    ASSUME TreeInv, NEW u \in Update, Push(u)
    PROVE  TreeInv'
  <1>1. UNCHANGED <<widgets, tree, stack, failed>> /\ Alive' = Alive
    BY DEF Push, Alive
  <1>2. Updates'
    BY TreeAssumption DEF Push, TreeInv, Updates
  <1> QED
    BY <1>1, <1>2 DEF TreeInv

\* pop_updates: the whole queue is taken.
LEMMA PopInv == TreeInv /\ PopUpdates => TreeInv'
  <1> SUFFICES ASSUME TreeInv, PopUpdates PROVE TreeInv'
    OBVIOUS
  <1>1. UNCHANGED <<widgets, tree, stack, failed>> /\ Alive' = Alive
    BY DEF PopUpdates, Alive
  <1>2. Updates'
    BY TreeAssumption DEF PopUpdates, TreeInv, Updates
  <1> QED
    BY <1>1, <1>2 DEF TreeInv

\* What each kind of update names.
LEMMA UpdateIs ==
    ASSUME NEW u \in Update
    PROVE  /\ u.op \in {"add", "rm", "rm_child", "touch", "rm_now", "open", "close", "bump"}
           /\ u.op \in {"add", "rm"} => u.parent \in Container /\ u.child \in Node
           /\ u.op = "rm_child" => u.parent \in Container /\ u.index \in Nat \ {0}
           /\ u.op = "rm_now" => u.child \in Node
           /\ u.op \in {"open", "close", "bump"} => u.window \in Window
  BY Addresses DEF Update

\* An update is run, or does not get that far.
LEMMA RunInv == TreeInv /\ RunUpdate => TreeInv'
  <1> SUFFICES ASSUME TreeInv, RunUpdate PROVE TreeInv'
    OBVIOUS
  <1> DEFINE u == Head(batch)
  <1>1. UNCHANGED <<widgets, queue>> /\ Alive' = Alive /\ batch # <<>> /\ batch' = Tail(batch)
    BY DEF RunUpdate, Alive
  <1>2. Updates' /\ u \in Update
    BY <1>1, TreeAssumption DEF TreeInv, Updates
  <1>3. failed' \in BOOLEAN
    BY DEF RunUpdate, TreeInv
  <1>4. Fit(tree, Alive) /\ Stacked(stack)
    BY DEF TreeInv
  <1>5. CASE Fails(u)
    <2>1. UNCHANGED <<tree, stack>>
      BY <1>5 DEF RunUpdate
    <2> QED
      BY <1>1, <1>2, <1>3, <1>4, <2>1 DEF TreeInv
  <1>6. CASE ~Fails(u)
    <2>1. \/ RunAdd(u) \/ RunRm(u) \/ RunRmChild(u)
          \/ RunOpen(u) \/ RunClose(u) \/ RunBump(u)
          \/ RunTouch(u) \/ RunRmNow(u)
      BY <1>6 DEF RunUpdate
    <2>2. Uses(u) \subseteq Alive
      BY <1>6 DEF Fails
    <2> HIDE DEF u
    <2>3. CASE RunAdd(u)
      <3>1. u.op = "add" /\ tree' = Added(tree, u.parent, u.child) /\ stack' = stack
        BY <2>3 DEF RunAdd
      <3>2. u.parent \in Container /\ u.child \in Node
        BY <1>2, <3>1, UpdateIs
      <3>3. u.parent \in Alive /\ u.child \in Alive
        BY <2>2, <3>1 DEF Uses
      <3>4. Target(u.parent) \in Alive
        <4>1. u.parent \in Window => u.parent \in widgets
          BY <3>3, Addresses DEF Alive, Widget, TreeInv
        <4> QED
          BY <3>3, <4>1 DEF Target, Alive, Parts
      <3>5. ~HasCycle(tree, u.parent, u.child)
        BY <1>6, <3>1 DEF Fails, u
      <3>6. Fit(tree', Alive)
        BY <1>4, <3>1, <3>2, <3>3, <3>4, <3>5, AddedRooted
      <3> QED
        BY <1>1, <1>2, <1>3, <1>4, <3>1, <3>6 DEF TreeInv
    <2>4. CASE RunRm(u)
      <3>1. u.op = "rm" /\ tree' = Rm(tree, u.parent, u.child) /\ stack' = stack
        BY <2>4 DEF RunRm
      <3>2. Fit(tree', Alive)
        BY <1>2, <1>4, <3>1, UpdateIs, RmRooted
      <3> QED
        BY <1>1, <1>2, <1>3, <1>4, <3>1, <3>2 DEF TreeInv
    <2>5. CASE RunRmChild(u)
      <3>1. u.op = "rm_child" /\ tree' = RmAt(tree, u.parent, u.index) /\ stack' = stack
        BY <2>5 DEF RunRmChild
      <3>2. Fit(tree', Alive)
        BY <1>2, <1>4, <3>1, UpdateIs, RmAtRooted
      <3> QED
        BY <1>1, <1>2, <1>3, <1>4, <3>1, <3>2 DEF TreeInv
    <2>6. CASE RunRmNow(u)
      <3>1. u.op = "rm_now" /\ stack' = stack /\ tree' = Detached(tree, u.child)
        BY <2>6 DEF RunRmNow, Detached
      <3>2. Fit(tree', Alive)
        BY <1>2, <1>4, <3>1, UpdateIs, DetachedRooted
      <3> QED
        BY <1>1, <1>2, <1>3, <1>4, <3>1, <3>2 DEF TreeInv
    <2>7. CASE RunTouch(u)
      BY <1>1, <1>2, <1>3, <1>4, <2>7 DEF RunTouch, TreeInv
    <2>8. CASE RunOpen(u) \/ RunClose(u) \/ RunBump(u)
      <3>1. u.op \in {"open", "close", "bump"} /\ tree' = tree
        BY <2>8 DEF RunOpen, RunClose, RunBump
      <3>2. u.window \in Window
        BY <1>2, <3>1, UpdateIs
      <3>4. Stacked(CloseWindow(u.window)) /\ u.window \notin ToSet(CloseWindow(u.window))
        BY <1>4, ClosedStack
      <3>5. Stacked(stack')
        <4>1. CASE RunOpen(u)
          <5>1. CASE Contains(stack, u.window)
            BY <1>4, <4>1, <5>1 DEF RunOpen
          <5>2. CASE ~Contains(stack, u.window)
            <6>1. stack' = Append(stack, u.window)
              BY <4>1, <5>2 DEF RunOpen
            <6>2. u.window \notin ToSet(stack)
              BY <1>4, <5>2 DEF Contains, ToSet, Stacked
            <6> QED
              BY <1>4, <3>2, <6>1, <6>2, Longer DEF Stacked
          <5> QED
            BY <5>1, <5>2
        <4>2. CASE RunClose(u)
          BY <3>4, <4>2 DEF RunClose
        <4>3. CASE RunBump(u)
          <5>1. stack' = Append(CloseWindow(u.window), u.window)
            BY <4>3 DEF RunBump
          <5> QED
            BY <3>2, <3>4, <5>1, Longer DEF Stacked
        <4> QED
          BY <2>8, <4>1, <4>2, <4>3
      <3> QED
        BY <1>1, <1>2, <1>3, <1>4, <3>1, <3>5 DEF TreeInv
    <2> QED
      BY <2>1, <2>3, <2>4, <2>5, <2>6, <2>7, <2>8
  <1> QED
    BY <1>5, <1>6

\* A window that is gone is read.
LEMMA ReadGoneInv == TreeInv /\ ReadGone => TreeInv'
  BY DEF ReadGone, TreeInv, Updates, Alive

\* What requests push are updates.
LEMMA RmWidgetPushes ==
    ASSUME TreeInv, NEW c \in Widget, RmWidget(c)
    PROVE  \E u \in Update : Push(u)
  <1> DEFINE u == [op |-> "rm", parent |-> tree.parent[c], child |-> c]
  <1>1. tree.parent[c] \in Container
    BY Addresses DEF TreeInv, Fit, Sound, Trees, Parents, RmWidget
  <1>2. u \in Update
    BY <1>1 DEF Update
  <1> QED
    BY <1>2 DEF RmWidget

\* Nor does add_widget push anything else ...
LEMMA AddWidgetPushes ==
    ASSUME NEW p \in Window \cup Panel, NEW c \in Widget, AddWidget(p, c)
    PROVE  \E u \in Update : Push(u)
  <1>1. [op |-> "add", parent |-> p, child |-> c] \in Update
    BY DEF Update, Container
  <1> QED
    BY <1>1 DEF AddWidget

\* ... nor do open_window, close_window and a press on a window.
LEMMA WindowPushes ==
    ASSUME NEW w \in Window, OpenWindow(w) \/ RequestClose(w) \/ Press(w)
    PROVE  \E u \in Update : Push(u)
  <1>1. \A op \in {"open", "close", "bump"} : [op |-> op, window |-> w] \in Update
    BY DEF Update
  <1> QED
    BY <1>1 DEF OpenWindow, RequestClose, Press

\* The requests of the client.
LEMMA RequestInv == TreeInv /\ Request => TreeInv'
  <1> SUFFICES ASSUME TreeInv, Request PROVE TreeInv'
    OBVIOUS
  <1>1. CASE \E w \in Widget : Make(w)
    BY <1>1, MakeInv
  <1>2. CASE \E w \in Widget : Destroy(w)
    BY <1>2, DestroyInv
  <1>3. ASSUME NEW w \in Widget, RmWidget(w) PROVE TreeInv'
    BY <1>3, RmWidgetPushes, PushInv
  <1>4. ASSUME NEW p \in Window \cup Panel, NEW c \in Widget, AddWidget(p, c) PROVE TreeInv'
    BY <1>4, AddWidgetPushes, PushInv
  <1>5. ASSUME NEW p \in Window \cup Panel, NEW i \in 1..2, RmChild(p, i) PROVE TreeInv'
    <2>1. [op |-> "rm_child", parent |-> p, index |-> i] \in Update
      BY DEF Update, Container
    <2> QED
      BY <1>5, <2>1, PushInv DEF RmChild
  <1>6. ASSUME NEW w \in Window, OpenWindow(w) \/ RequestClose(w) PROVE TreeInv'
    BY <1>6, WindowPushes, PushInv
  <1> QED
    BY <1>1, <1>2, <1>3, <1>4, <1>5, <1>6 DEF Request

\* Every step of WidgetTree keeps its invariant.
LEMMA TreeStep == TreeInv /\ [Next]_vars => TreeInv'
  <1> SUFFICES ASSUME TreeInv, [Next]_vars PROVE TreeInv'
    OBVIOUS
  <1>1. ASSUME NEW w \in Window, Press(w) PROVE TreeInv'
    BY <1>1, WindowPushes, PushInv
  <1>2. CASE UNCHANGED vars
    BY <1>2 DEF vars, TreeInv, Updates, Alive
  <1> QED
    BY <1>1, <1>2, RequestInv, PopInv, RunInv, ReadGoneInv DEF Next

\* However requests, updates and destructions interleave, containers and their
\* children agree, and name only what exists.
THEOREM TreeAlwaysAgrees == Spec => []TreeAgrees
  BY TreeInit, TreeStep, TreeInvEnough, PTL DEF Spec

\* What repaint() takes for the window of a widget exists, and is the window of
\* the container that the widget is in.
THEOREM RootsAlwaysAgree == Spec => []RootsAgree
  BY TreeInit, TreeStep, TreeInvEnough, PTL DEF Spec

\* A window that is gone gets on the stack by no step but an update that opens or
\* raises it.
LEMMA StackStep ==
    ASSUME TreeInv, [Next]_vars, NEW w \in ToSet(stack') \ Alive'
    PROVE  w \in ToSet(stack) \ Alive \/ Opens(w)
  <1>1. stack \in Seq(Window) /\ Stacked(stack) /\ stack' \in Seq(Window)
    BY TreeStep DEF TreeInv, Stacked
  <1>2. w \in Window
    BY <1>1 DEF ToSet
  <1>3. w \notin widgets'
    BY DEF Alive
  <1>4. w \notin widgets => w \notin Alive
    BY <1>2, Addresses DEF Alive, TreeInv, Widget
  <1>5. CASE \E n \in Widget : Make(n)
    BY <1>3, <1>4, <1>5 DEF Make
  <1>6. CASE \E n \in Widget : Destroy(n)
    <2>1. PICK n \in Widget : Destroy(n)
      BY <1>6
    <2>2. widgets' = widgets \ {n}
          /\ stack' = IF n \in Window THEN CloseWindow(n) ELSE stack
      BY <2>1 DEF Destroy
    <2>3. n \in Window => w # n /\ w \in ToSet(stack)
      BY <1>1, <2>2, ClosedStack
    <2>4. w # n /\ w \in ToSet(stack)
      BY <1>2, <2>2, <2>3
    <2> QED
      BY <1>3, <1>4, <2>2, <2>4
  <1>7. CASE RunUpdate
    <2> DEFINE u == Head(batch)
    <2>1. widgets' = widgets /\ batch # <<>> /\ batch' = Tail(batch)
      BY <1>7 DEF RunUpdate
    <2>2. stack' = stack \/ (RunOpen(u) \/ RunClose(u) \/ RunBump(u))
      BY <1>7 DEF RunUpdate, RunAdd, RunRm, RunRmChild, RunTouch, RunRmNow
    <2>3. u.op \in {"open", "bump"} /\ u.window = w => Opens(w)
      BY <2>1 DEF Opens
    <2>4. u \in Update
      BY <2>1 DEF TreeInv, Updates
    <2> HIDE DEF u
    <2>5. w \in ToSet(stack) \/ (u.op \in {"open", "bump"} /\ u.window = w)
      <3>1. CASE stack' = stack
        BY <3>1
      <3>2. CASE RunClose(u)
        BY <1>1, <3>2, ClosedStack DEF RunClose
      <3>3. CASE RunOpen(u)
        BY <1>1, <3>3, AppendHas DEF RunOpen
      <3>4. CASE RunBump(u)
        <4>1. CloseWindow(u.window) \in Seq(Window)
          BY <1>1, ClosedStack DEF Stacked
        <4> QED
          BY <1>1, <3>4, <4>1, ClosedStack, AppendHas DEF RunBump
      <3> QED
        BY <2>2, <3>1, <3>2, <3>3, <3>4
    <2> QED
      BY <1>3, <1>4, <2>1, <2>3, <2>5
  <1>8. CASE UNCHANGED <<widgets, stack>>
    BY <1>3, <1>4, <1>8
  <1>9. CASE \/ \E n \in Widget : RmWidget(n)
             \/ \E p \in Window \cup Panel, c \in Widget : AddWidget(p, c)
             \/ \E p \in Window \cup Panel, i \in 1..2 : RmChild(p, i)
             \/ \E n \in Window : OpenWindow(n) \/ RequestClose(n) \/ Press(n)
             \/ PopUpdates \/ ReadGone \/ UNCHANGED vars
    BY <1>8, <1>9 DEF RmWidget, AddWidget, RmChild, OpenWindow, RequestClose, Press, Push,
                      PopUpdates, ReadGone, vars
  <1> QED
    BY <1>5, <1>6, <1>7, <1>9 DEF Next, Request

\* No destruction leaves its window on the stack: what the display thread composes
\* is composed once and exists, but for what an update opened after it was gone.
THEOREM StackAlwaysExists == Spec => StackExists
  <1> DEFINE Step == /\ IsInjective(stack')
                     /\ \A w \in ToSet(stack') \ Alive' : w \in ToSet(stack) \ Alive \/ Opens(w)
  <1>1. TreeInv /\ [Next]_vars => [Step]_vars
    BY TreeStep, StackStep DEF TreeInv, Stacked
  <1> QED
    BY <1>1, TreeInit, TreeStep, PTL DEF Spec, StackExists

-----------------------------------------------------------------------------
(* EventDispatch: the invariant *)

CallType == {"move", "press", "release", "scroll", "key_press", "key_release",
             "click", "action", "exit", "enter", "remember"}
Pointer == Node \cup {None}
Doable == Update \cup {[op |-> "notify"]}
          \cup [op : {"drag", "start", "stop"}, window : Window]

Typed ==
    /\ client \in {"there", "going", "gone"} /\ (client = "gone" => widgets = {})
    /\ acts \subseteq Acts /\ IsFiniteSet(acts) /\ \A a \in acts : a.of \in widgets
    /\ draggable \in [Window -> BOOLEAN] /\ left \in BOOLEAN
    /\ todo \in Seq([type : CallType, to : Pointer])
    /\ calls \in Seq([of : Pointer, do : Doable])
    /\ under \in Pointer /\ inside \in Pointer /\ grabbed \in Window \cup {None}

\* A pointer that is held is to what exists, or was met when it went.
Known == met \subseteq Held /\ Held \subseteq Alive \cup {None} \cup met

\* A move ends with what is left, what is entered, and remembering it.
Ordered(s) ==
    \A i \in DOMAIN s :
        /\ s[i].type = "exit" => /\ Len(s) = i + 2
                                 /\ s[i+1] = Call("enter", s[i].to)
                                 /\ s[i+2] = Call("remember", s[i].to)
        /\ s[i].type = "enter" => /\ Len(s) = i + 1 /\ s[i+1] = Call("remember", s[i].to)
                                  /\ i > 1 => s[i-1].type = "exit"
        /\ s[i].type = "remember" => /\ Len(s) = i
                                     /\ i > 1 => s[i-1].type = "enter"

\* n is what was entered and not left, unless it went.
Entered(n) == inside = n \/ (n \in met /\ inside = None)

Crossed ==
    /\ Ordered(todo)
    /\ todo = <<>> => Entered(under)
    /\ todo # <<>> =>
        /\ Head(todo).type \notin {"enter", "remember"} => Entered(under)
        /\ Head(todo).type = "enter" => inside = None
        /\ Head(todo).type = "remember" => Entered(Head(todo).to)

\* An event goes to its client for a widget that exists, or did when it was met.
Noted == \A i \in DOMAIN calls : calls[i].do.op = "notify" => calls[i].of \in widgets \cup met

DispatchInv == TreeInv /\ Typed /\ Known /\ Crossed /\ Noted

\* What is in a sequence is in the set the sequence is over.
LEMMA SequenceHas ==
    ASSUME NEW S, NEW s \in Seq(S), NEW i \in DOMAIN s
    PROVE  s[i] \in S
  OBVIOUS

\* What a dispatch has in hand are nodes, or None.
LEMMA InHandIs ==
    ASSUME Typed
    PROVE  InHand \subseteq Pointer
  <1>1. grabbed # None => With(grabbed) \ {Frame(grabbed)} \subseteq Pointer
    BY Addresses DEF Typed, Pointer, With
  <1>2. \A i \in DOMAIN todo : todo[i].to \in Pointer
    <2>1. \A i \in DOMAIN todo : todo[i] \in [type : CallType, to : Pointer]
      BY SequenceHas DEF Typed
    <2> QED
      BY <2>1
  <1>3. \A i \in DOMAIN calls : calls[i].of \in Pointer
    <2>1. \A i \in DOMAIN calls : calls[i] \in [of : Pointer, do : Doable]
      BY SequenceHas DEF Typed
    <2> QED
      BY <2>1
  <1> QED
    BY <1>1, <1>2, <1>3 DEF InHand

\* The invariant says all that the properties of EventDispatch do.
LEMMA DispatchInvEnough == DispatchInv => HeldExist /\ OneInside /\ QueueIsThere
  <1> SUFFICES ASSUME DispatchInv PROVE HeldExist /\ OneInside /\ QueueIsThere
    OBVIOUS
  <1>1. DispatchTypeOK
    BY InHandIs DEF DispatchInv, Typed, Known, Pointer, DispatchTypeOK
  <1>2. HeldExist
    BY <1>1 DEF DispatchInv, Known, HeldExist
  <1>3. OneInside
    BY DEF DispatchInv, Crossed, Entered, OneInside
  <1>4. QueueIsThere
    BY DEF DispatchInv, Noted, Typed, QueueIsThere
  <1> QED
    BY <1>2, <1>3, <1>4

\* At first nothing is held, entered or to be called.
LEMMA DispatchStart == DispatchInit => DispatchInv
  <1> SUFFICES ASSUME DispatchInit PROVE DispatchInv
    OBVIOUS
  <1>1. TreeInv
    BY TreeInit DEF DispatchInit
  <1>2. todo = <<>> /\ calls = <<>> /\ DOMAIN <<>> = {}
    BY DEF DispatchInit
  <1>3. Typed
    <2>1. acts = {} /\ IsFiniteSet({})
      BY FS_EmptySet DEF DispatchInit
    <2>2. \A S : <<>> \in Seq(S)
      OBVIOUS
    <2> QED
      BY <1>2, <2>1, <2>2 DEF DispatchInit, Typed, Pointer
  <1>4. Held = {None}
    BY <1>2 DEF DispatchInit, Held, InHand
  <1>5. Known
    BY <1>4 DEF DispatchInit, Known
  <1>6. Crossed /\ Noted
    BY <1>2 DEF DispatchInit, Crossed, Noted, Ordered, Entered
  <1> QED
    BY <1>1, <1>3, <1>5, <1>6 DEF DispatchInv

\* A step that takes no pointer but to what exists, and is met where it ends what
\* is held, leaves the pointers known.
LEMMA KnownKept ==
    ASSUME Known, Overtaken, Held' \subseteq Held \cup Alive' \cup {None},
           \A h \in Held' : h \in Alive => h \in Alive' \cup InHand
    PROVE  Known' /\ met \cap Held' \subseteq met'
  BY DEF Known, Overtaken

\* What the client's thread and the display thread do ends nothing.
LEMMA QuietStep ==
    ASSUME DispatchInv, Overtaken, UNCHANGED <<dispatchVars, grabbed>>,
           TreeInv', Typed', widgets \subseteq widgets'
    PROVE  DispatchInv'
  <1>1. InHand' = InHand /\ Held' = Held
    BY DEF dispatchVars, Held, InHand
  <1>2. Alive \subseteq Alive'
    BY DEF Alive
  <1>3. Known' /\ met \subseteq met'
    BY <1>1, <1>2, KnownKept DEF DispatchInv, Known
  <1>4. UNCHANGED <<todo, calls, under, inside>>
    BY DEF dispatchVars
  <1>5. Crossed'
    BY <1>3, <1>4 DEF DispatchInv, Crossed, Entered
  <1>6. Noted'
    BY <1>3, <1>4 DEF DispatchInv, Noted
  <1> QED
    BY <1>3, <1>5, <1>6 DEF DispatchInv

-----------------------------------------------------------------------------
(* EventDispatch: what is found, what is called *)

\* One step up the path to w.
Climb(s, w) == LET top == Last(s) IN IF top = w THEN s ELSE Append(s, tree.parent[top])

\* A step up stays in a set that has the parents of its nodes.
LEMMA ClimbIs ==
    ASSUME NEW w, NEW S, \A m \in S \ {w} : tree.parent[m] \in S,
           NEW s \in Seq(S) \ {<<>>}
    PROVE  Climb(s, w) \in Seq(S) \ {<<>>}
  <1>1. Last(s) \in S
    BY DEF Last
  <1>2. CASE Last(s) = w
    BY <1>2 DEF Climb
  <1>3. CASE Last(s) # w
    <2>1. tree.parent[Last(s)] \in S
      BY <1>1, <1>3
    <2> DEFINE p == tree.parent[Last(s)]
    <2>2. Climb(s, w) = Append(s, p)
      BY <1>3 DEF Climb
    <2> HIDE DEF p
    <2> QED
      BY <2>1, <2>2 DEF p
  <1> QED
    BY <1>2, <1>3

\* In a set that has, with each of its nodes below w, that node's parent, the
\* path from any of them up to w stays.
LEMMA PathStays ==
    ASSUME NEW w, NEW S, \A m \in S \ {w} : tree.parent[m] \in S, NEW n \in S
    PROVE  PathUp(n, w) \in Seq(S)
  <1> DEFINE T == Seq(S) \ {<<>>}
             d == Depth
             P(f) == f = [k \in 0..d |-> IF k = 0 THEN <<n>>
                                         ELSE LET last == Last(f[k-1])
                                              IN IF last = w THEN f[k-1]
                                                 ELSE Append(f[k-1], tree.parent[last])]
             g == [y \in T \X (1..d) |-> Climb(y[1], w)]
  <1>1. d \in Nat
    BY FiniteNode, FS_CardinalityType DEF Depth
  <1>2. g \in [T \X (1..d) -> T] /\ <<n>> \in T
    <2>1. \A y \in T \X (1..d) : Climb(y[1], w) \in T
      BY ClimbIs
    <2> QED
      BY <2>1
  <1>3. PICK f \in [0..d -> T] : Follows(f, <<n>>, g, d)
    <2> HIDE DEF g, T, d
    <2> QED
      BY <1>1, <1>2, RecursionExists
  <1>4. ASSUME NEW k \in 1..d PROVE f[k] = Climb(f[k-1], w)
    <2>1. f[k] = g[<<f[k-1], k>>]
      <3> HIDE DEF g
      <3> QED
        BY <1>3 DEF Follows
    <2>2. f[k-1] \in T
      BY <1>1
    <2> HIDE DEF T
    <2> QED
      BY <2>1, <2>2
  <1>5. P(f)
    <2>1. ASSUME NEW k \in 0..d
          PROVE f[k] = IF k = 0 THEN <<n>>
                       ELSE LET last == Last(f[k-1])
                            IN IF last = w THEN f[k-1] ELSE Append(f[k-1], tree.parent[last])
      <3>1. CASE k = 0
        BY <1>3, <3>1 DEF Follows
      <3>2. CASE k \in 1..d
        <4>1. f[k] = Climb(f[k-1], w) /\ k # 0
          BY <1>1, <1>4, <3>2
        <4> QED
          BY ONLY <4>1 DEF Climb
      <3> QED
        BY <1>1, <3>1, <3>2
    <2>2. f = [k \in 0..d |-> f[k]]
      OBVIOUS
    <2> HIDE DEF T, d
    <2> QED
      BY <2>1, <2>2
  <1> DEFINE h == CHOOSE h : P(h)
  <1>6. P(h)
    <2> HIDE DEF P
    <2> QED
      BY <1>5
  <1>7. PathUp(n, w) = h[d]
    BY DEF PathUp
  <1> HIDE DEF h
  <1>8. h[0] = <<n>> /\ \A k \in 1..d : h[k] = Climb(h[k-1], w)
    <2>1. ASSUME NEW k \in 0..d
          PROVE h[k] = IF k = 0 THEN <<n>> ELSE Climb(h[k-1], w)
      BY <1>6 DEF Climb
    <2> HIDE DEF P
    <2> QED
      BY <1>1, <2>1
  <1> DEFINE I == {k \in Nat : k <= d => h[k] \in T}
  <1>9. 0 \in I
    BY <1>2, <1>8
  <1>10. ASSUME NEW k \in Nat, k \in I PROVE k + 1 \in I
    <2> SUFFICES ASSUME k + 1 <= d PROVE h[k+1] \in T
      OBVIOUS
    <2>1. h[k] \in T /\ k + 1 \in 1..d /\ (k + 1) - 1 = k
      BY <1>1, <1>10
    <2>2. h[k+1] = Climb(h[k], w)
      BY <1>8, <2>1
    <2> QED
      BY <2>1, <2>2, ClimbIs
  <1> HIDE DEF I
  <1>11. d \in I
    BY <1>1, <1>9, <1>10, SetInduction
  <1> QED
    BY <1>1, <1>7, <1>11 DEF I

\* A window on the stack, and everything below it, exists, and so does the
\* parent of what is below.
LEMMA BelowStack ==
    ASSUME TreeInv, NEW w \in ToSet(stack) \cap widgets
    PROVE  LET S == Subtree(tree, w) IN
           S \subseteq Alive /\ \A m \in S \ {w} : tree.parent[m] \in S
  <1> DEFINE S == Subtree(tree, w)
  <1>1. w \in Window /\ w \in widgets /\ w \in Node
    <2>1. stack \in Seq(Window)
      BY DEF TreeInv, Stacked
    <2>2. w \in Window
      BY <2>1 DEF ToSet
    <2> QED
      BY <2>1, <2>2, Addresses
  <1>2. Fit(tree, Alive)
    BY DEF TreeInv
  <1>3. S \subseteq Node /\ \A m \in S \ {w} : tree.parent[m] \in S \ {m}
    BY <1>1, <1>2, BelowParents
  <1> HIDE DEF S
  <1>4. ASSUME NEW m \in S PROVE m \in Alive
    <2>1. CASE m = w
      BY <1>1, <2>1 DEF Alive
    <2>2. CASE m # w
      <3>1. m \in Node /\ tree.parent[m] \in Node /\ tree.parent[m] # m
        BY <1>3, <2>2
      <3>2. tree.parent[m] # None
        BY <3>1, Addresses
      <3> QED
        BY <1>2, <3>1, <3>2 DEF Fit, Sound, Linked
    <2> QED
      BY <2>1, <2>2
  <1> QED
    BY <1>3, <1>4 DEF S

\* What is found under the mouse exists, or is held by a grab already.
LEMMA FoundIs ==
    ASSUME TreeInv, Typed, NEW type, NEW found \in WidgetsNow(type)
    PROVE  found \in Seq(Pointer \cap (Held \cup Alive))
  <1> DEFINE P == Pointer \cap (Held \cup Alive)
  <1>1. CASE found = <<>>
    BY <1>1
  <1>2. CASE grabbed # None /\ found = <<Title(grabbed), grabbed>>
    <2>1. grabbed \in Pointer /\ Title(grabbed) \in Pointer /\ grabbed \in Window
      BY <1>2, Addresses DEF Typed, Pointer
    <2>2. {Title(grabbed), grabbed} \subseteq With(grabbed) \ {Frame(grabbed)}
      BY <2>1, Addresses DEF With, Widget
    <2>3. Title(grabbed) \in P /\ grabbed \in P
      BY <1>2, <2>1, <2>2 DEF Held, InHand
    <2> HIDE DEF P
    <2>4. <<Title(grabbed), grabbed>> \in Seq(P)
      BY <2>3
    <2> QED
      BY <1>2, <2>4 DEF P
  <1>3. ASSUME NEW w \in ToSet(stack) \cap widgets, NEW n \in Subtree(tree, w), found = PathUp(n, w)
        PROVE  found \in Seq(P)
    <2> DEFINE S == Subtree(tree, w)
    <2>1. S \subseteq Alive /\ \A m \in S \ {w} : tree.parent[m] \in S
      BY BelowStack
    <2>2. S \subseteq P
      <3>1. Alive \subseteq Node
        BY Addresses DEF TreeInv, Alive
      <3> QED
        BY <2>1, <3>1 DEF Pointer
    <2> HIDE DEF S, P
    <2>3. found \in Seq(S)
      BY <1>3, <2>1, PathStays DEF S
    <2> QED
      BY <2>2, <2>3
  <1>4. \/ found = <<>>
        \/ grabbed # None /\ found = <<Title(grabbed), grabbed>>
        \/ \E w \in ToSet(stack) \cap widgets : \E n \in Subtree(tree, w) : found = PathUp(n, w)
    BY DEF WidgetsNow
  <1> QED
    BY <1>1, <1>2, <1>3, <1>4

\* One sequence after another.
LEMMA Joined ==
    ASSUME NEW S, NEW a \in Seq(S), NEW b \in Seq(S)
    PROVE  /\ a \o b \in Seq(S) /\ Len(a \o b) = Len(a) + Len(b)
           /\ \A i \in 1..Len(a) : (a \o b)[i] = a[i]
           /\ \A i \in 1..Len(b) : (a \o b)[Len(a) + i] = b[i]
  OBVIOUS

\* What a dispatch is to call: for whom, and in which order.
LEMMA CallsAre ==
    ASSUME NEW type \in DeviceEvent, NEW P, None \in P, NEW found \in Seq(P)
    PROVE  LET s == Calls(type, found) IN
           /\ s \in Seq([type : CallType, to : P]) /\ Ordered(s)
           /\ s # <<>> => Head(s).type \notin {"enter", "remember"}
  <1> DEFINE s == Calls(type, found)
             a == [i \in DOMAIN found |-> Call(type, found[i])]
             C == [type : CallType, to : P]
             n == Len(found)
             Crossing == {"exit", "enter", "remember"}
  <1>1. type \in CallType /\ type \notin Crossing
    BY DispatchAssumption DEF CallType
  <1>2. First(found) \in P
    BY DEF First
  <1>3. \A t \in CallType, m \in P : Call(t, m) \in C /\ Call(t, m).type = t /\ Call(t, m).to = m
    BY DEF Call
  <1>4. n \in Nat /\ a \in Seq(C) /\ Len(a) = n /\ \A i \in 1..n : a[i].type = type
    <2>1. DOMAIN found = 1..n /\ n \in Nat /\ \A i \in 1..n : found[i] \in P
      OBVIOUS
    <2>2. \A i \in 1..n : Call(type, found[i]) \in C /\ Call(type, found[i]).type = type
      BY <1>1, <1>3, <2>1
    <2> HIDE DEF C
    <2>3. a = [i \in 1..n |-> Call(type, found[i])]
      BY <2>1
    <2> HIDE DEF n, a
    <2> QED
      BY <2>1, <2>2, <2>3
  <1>5. {"click", "action", "exit", "enter", "remember"} \subseteq CallType
    BY DEF CallType
  <1> HIDE DEF a, C, n, CallType
  <1>6. CASE type = "move"
    <2> DEFINE f == First(found)
               x1 == Call("exit", f)
               x2 == Call("enter", f)
               x3 == Call("remember", f)
               b == <<x1, x2, x3>>
    <2>1. s = a \o b
      BY <1>6 DEF Calls, a
    <2>2. /\ x1 \in C /\ x1.type = "exit" /\ x1.to = f
          /\ x2 \in C /\ x2.type = "enter" /\ x2.to = f
          /\ x3 \in C /\ x3.type = "remember"
      BY <1>2, <1>3, <1>5
    <2>3. x2 = Call("enter", x1.to) /\ x3 = Call("remember", x1.to) /\ x3 = Call("remember", x2.to)
      BY <2>2
    <2> HIDE DEF x1, x2, x3
    <2>4. b \in Seq(C) /\ Len(b) = 3 /\ b[1] = x1 /\ b[2] = x2 /\ b[3] = x3
      BY <2>2
    <2> HIDE DEF b, s
    <2>5. s \in Seq(C) /\ Len(s) = n + 3 /\ s[n+1] = x1 /\ s[n+2] = x2 /\ s[n+3] = x3
          /\ \A i \in 1..n : s[i] = a[i]
      <3>1. /\ s \in Seq(C) /\ Len(s) = Len(a) + Len(b) /\ \A i \in 1..Len(a) : s[i] = a[i]
            /\ \A i \in 1..Len(b) : s[Len(a) + i] = b[i]
        <4>1. a \in Seq(C) /\ b \in Seq(C)
          BY <1>4, <2>4
        <4>2. /\ a \o b \in Seq(C) /\ Len(a \o b) = Len(a) + Len(b)
              /\ \A i \in 1..Len(a) : (a \o b)[i] = a[i]
              /\ \A i \in 1..Len(b) : (a \o b)[Len(a) + i] = b[i]
          BY ONLY <4>1, Joined
        <4> QED
          BY ONLY <2>1, <4>2
      <3>2. 1 \in 1..Len(b) /\ 2 \in 1..Len(b) /\ 3 \in 1..Len(b)
        BY <2>4
      <3> QED
        BY <1>4, <2>4, <3>1, <3>2
    <2>6. \A i \in DOMAIN s : i \in Nat /\ (i \in 1..n \/ i = n+1 \/ i = n+2 \/ i = n+3)
      <3>1. DOMAIN s = 1..(n + 3)
        BY <2>5
      <3> QED
        BY <1>4, <3>1
    <2>7. ASSUME NEW i \in DOMAIN s
          PROVE  /\ s[i].type = "exit" => i = n + 1
                 /\ s[i].type = "enter" => i = n + 2
                 /\ s[i].type = "remember" => i = n + 3
      BY <1>1, <1>4, <2>2, <2>5, <2>6
    <2>8. n + 1 + 2 = n + 3 /\ n + 2 + 1 = n + 3 /\ n + 1 + 1 = n + 2
          /\ n + 2 - 1 = n + 1 /\ n + 3 - 1 = n + 2
      BY <1>4
    <2>9. Ordered(s)
      <3> SUFFICES ASSUME NEW i \in DOMAIN s
          PROVE  /\ s[i].type = "exit" => /\ Len(s) = i + 2
                                          /\ s[i+1] = Call("enter", s[i].to)
                                          /\ s[i+2] = Call("remember", s[i].to)
                 /\ s[i].type = "enter" => /\ Len(s) = i + 1 /\ s[i+1] = Call("remember", s[i].to)
                                           /\ i > 1 => s[i-1].type = "exit"
                 /\ s[i].type = "remember" => /\ Len(s) = i
                                              /\ i > 1 => s[i-1].type = "enter"
        BY DEF Ordered
      <3>1. CASE s[i].type = "exit"
        <4>1. i = n + 1 /\ s[i] = x1
          BY <2>5, <2>7, <3>1
        <4>2. Len(s) = i + 2 /\ s[i+1] = x2 /\ s[i+2] = x3
          BY <1>4, <2>5, <2>8, <4>1
        <4> QED
          BY <2>3, <3>1, <4>1, <4>2
      <3>2. CASE s[i].type = "enter"
        <4>1. i = n + 2 /\ s[i] = x2
          BY <2>5, <2>7, <3>2
        <4>2. Len(s) = i + 1 /\ s[i+1] = x3 /\ s[i-1] = x1
          BY <1>4, <2>5, <2>8, <4>1
        <4> QED
          BY <2>2, <2>3, <3>2, <4>1, <4>2
      <3>3. CASE s[i].type = "remember"
        <4>1. i = n + 3
          BY <2>7, <3>3
        <4>2. Len(s) = i /\ s[i-1] = x2
          BY <1>4, <2>5, <2>8, <4>1
        <4> QED
          BY <2>2, <3>3, <4>2
      <3> QED
        BY <3>1, <3>2, <3>3
    <2>10. Head(s) = s[1] /\ 1 \in DOMAIN s
      BY <1>4, <2>5
    <2>11. Head(s).type \notin {"enter", "remember"}
      <3>1. n + 2 # 1 /\ n + 3 # 1
        BY <1>4
      <3> QED
        BY <2>7, <2>10, <3>1
    <2> QED
      BY <2>5, <2>9, <2>11 DEF s, C
  <1>7. CASE type # "move"
    <2> DEFINE c1 == Call("click", found[1])
               c2 == Call("action", found[1])
               b == IF type = "release" /\ found # <<>>
                    THEN <<c1>> \o (IF found[1] \in Button THEN <<c2>> ELSE <<>>)
                    ELSE <<>>
    <2>1. s = a \o b
      BY <1>7 DEF Calls, a
    <2>2. b \in Seq(C) /\ \A i \in 1..Len(b) : b[i].type \notin Crossing
      <3>1. CASE type = "release" /\ found # <<>>
        <4>1. found[1] \in P
          BY <3>1
        <4>2. c1 \in C /\ c2 \in C /\ c1.type = "click" /\ c2.type = "action"
          BY <1>3, <1>5, <4>1
        <4> HIDE DEF c1, c2
        <4> DEFINE d == IF found[1] \in Button THEN <<c2>> ELSE <<>>
        <4>3. <<c1>> \in Seq(C) /\ Len(<<c1>>) = 1 /\ <<c1>>[1] = c1
          BY <4>2
        <4>4. d \in Seq(C) /\ \A i \in 1..Len(d) : d[i] = c2
          BY <4>2
        <4>5. b = <<c1>> \o d
          BY <3>1
        <4> HIDE DEF b, d
        <4>6. b \in Seq(C) /\ Len(b) = 1 + Len(d) /\ b[1] = c1
              /\ \A i \in 1..Len(d) : b[1 + i] = d[i]
          BY <4>3, <4>4, <4>5, Joined
        <4>7. ASSUME NEW i \in 1..Len(b) PROVE b[i].type \notin Crossing
          <5>1. i = 1 \/ (i - 1 \in 1..Len(d) /\ 1 + (i - 1) = i)
            BY <4>4, <4>6
          <5> QED
            BY <4>2, <4>4, <4>6, <5>1
        <4> QED
          BY <4>6, <4>7
      <3>2. CASE ~(type = "release" /\ found # <<>>)
        BY <3>2
      <3> QED
        BY <3>1, <3>2
    <2> HIDE DEF b, s
    <2>3. s \in Seq(C) /\ Len(s) = n + Len(b) /\ (\A i \in 1..n : s[i] = a[i])
          /\ \A i \in 1..Len(b) : s[n + i] = b[i]
      BY <1>4, <2>1, <2>2, Joined
    <2>4. ASSUME NEW i \in DOMAIN s PROVE s[i].type \notin Crossing
      <3>1. i \in 1..n \/ (i - n \in 1..Len(b) /\ n + (i - n) = i)
        BY <1>4, <2>2, <2>3
      <3>2. CASE i \in 1..n
        BY <1>1, <1>4, <2>3, <3>2
      <3>3. CASE i - n \in 1..Len(b) /\ n + (i - n) = i
        BY <2>2, <2>3, <3>3
      <3> QED
        BY <3>1, <3>2, <3>3
    <2>5. s # <<>> => Head(s) = s[1] /\ 1 \in DOMAIN s
      BY <2>3
    <2> QED
      BY <2>3, <2>4, <2>5 DEF Ordered, s, C
  <1> QED
    BY <1>6, <1>7

\* The elements of a finite set, in some order.
LEMMA InSomeOrder ==
    ASSUME NEW S, IsFiniteSet(S)
    PROVE  SetToSeq(S) \in Seq(S)
  <1>1. PICK n \in Nat : ExistsBijection(1..n, S)
    BY FS_NatBijection
  <1>2. Cardinality(S) = n
    BY <1>1, FS_CountingElements
  <1>3. PICK f \in Bijection(1..n, S) : TRUE
    BY <1>1 DEF ExistsBijection
  <1>4. f \in [1..n -> S] /\ IsInjective(f)
    BY <1>3 DEF Bijection, Injection, IsInjective
  <1>5. SetToSeq(S) \in [1..n -> S]
    BY <1>2, <1>4 DEF SetToSeq
  <1> QED
    BY <1>1, <1>5

\* What a widget's own handlers do is not to push an event to the client.
LEMMA OwnHandlersAre ==
    ASSUME NEW n, NEW type
    PROVE  OwnHandlers(n, type) \in Seq(Doable \ {[op |-> "notify"]})
  <1> DEFINE D == Doable \ {[op |-> "notify"]}
  <1>1. CASE n \in {Title(w) : w \in Window} /\ type \in {"move", "press", "release"}
    <2>1. n[1] \in Window
      BY <1>1 DEF Title
    <2>2. \A op \in {"drag", "start", "stop"} : [op |-> op, window |-> n[1]] \in D
      BY <2>1 DEF Doable
    <2> DEFINE op == CASE type = "move" -> "drag" [] type = "press" -> "start" [] OTHER -> "stop"
    <2>3. OwnHandlers(n, type) = <<[op |-> op, window |-> n[1]]>>
      BY <1>1 DEF OwnHandlers
    <2>4. [op |-> op, window |-> n[1]] \in D
      BY <2>2
    <2> HIDE DEF D, op
    <2> QED
      BY <2>3, <2>4 DEF D
  <1>2. ASSUME NEW do \in D, OwnHandlers(n, type) = <<do>>
        PROVE  OwnHandlers(n, type) \in Seq(D)
    <2> HIDE DEF D
    <2> QED
      BY <1>2
  <1>3. n \in Window => [op |-> "bump", window |-> n] \in D
    BY DEF Doable, Update
  <1>4. n \in Button => [op |-> "touch", child |-> n] \in D
    <2>1. n \in Button => n \in Node
      BY DispatchAssumption DEF Node
    <2> QED
      BY <2>1 DEF Doable, Update
  <1>5. CASE ~(n \in {Title(w) : w \in Window} /\ type \in {"move", "press", "release"})
    <2>1. \/ n \in Window /\ OwnHandlers(n, type) = <<[op |-> "bump", window |-> n]>>
          \/ n \in Button /\ OwnHandlers(n, type) = <<[op |-> "touch", child |-> n]>>
          \/ OwnHandlers(n, type) = <<>>
      BY <1>5 DEF OwnHandlers
    <2>2. <<>> \in Seq(D)
      OBVIOUS
    <2> HIDE DEF D
    <2> QED
      BY <1>2, <1>3, <1>4, <2>1, <2>2 DEF D
  <1> QED
    BY <1>1, <1>5

\* What is called for a widget is of that widget, and tells the client only of
\* one that exists.
LEMMA HandlersAre ==
    ASSUME acts \subseteq Acts, IsFiniteSet(acts), NEW n \in Pointer, NEW type
    PROVE  /\ HandlersOf(n, type) \in Seq([of : Pointer, do : Doable])
           /\ \A i \in DOMAIN HandlersOf(n, type) :
                 /\ HandlersOf(n, type)[i].of = n
                 /\ HandlersOf(n, type)[i].do.op = "notify" => n \in widgets
  <1> DEFINE tell == [op |-> "notify"]
             D == IF n \in widgets THEN Doable ELSE Doable \ {tell}
             own == OwnHandlers(n, type)
             added == IF n \in widgets /\ type \in Asked THEN <<tell>> ELSE <<>>
             mine == {a.do : a \in {b \in acts : b.of = n /\ b.type = type}}
             acting == SetToSeq(mine)
             all == own \o added \o acting
  <1>1. own \in Seq(D)
    <2>1. own \in Seq(Doable \ {tell})
      BY OwnHandlersAre
    <2>2. Doable \ {tell} \subseteq D
      OBVIOUS
    <2> HIDE DEF own, D, tell
    <2> QED
      BY <2>1, <2>2
  <1>2. added \in Seq(D)
    <2>1. n \in widgets => tell \in D
      BY DEF Doable
    <2> HIDE DEF D, tell
    <2> QED
      BY <2>1
  <1>3. acting \in Seq(D)
    <2>1. IsFiniteSet({b \in acts : b.of = n /\ b.type = type})
      BY FS_Subset
    <2>2. IsFiniteSet(mine)
      <3> DEFINE X == {b \in acts : b.of = n /\ b.type = type}
                 f == [b \in X |-> b.do]
      <3>1. f \in Surjection(X, mine)
        BY DEF Surjection
      <3> HIDE DEF X, f, mine
      <3> QED
        BY <2>1, <3>1, FS_Surjection DEF X
    <2>3. mine \subseteq Update
      BY DispatchAssumption
    <2>4. Update \subseteq D
      BY UpdateIs DEF Doable
    <2>5. acting \in Seq(mine)
      BY <2>2, InSomeOrder
    <2> HIDE DEF D, mine, acting
    <2> QED
      BY <2>3, <2>4, <2>5
  <1>4. D \subseteq Doable /\ \A d \in D : d.op = "notify" => n \in widgets
    BY UpdateIs DEF Doable
  <1> HIDE DEF D, own, added, acting
  <1>5. all \in Seq(D)
    BY <1>1, <1>2, <1>3
  <1>6. HandlersOf(n, type) = [i \in DOMAIN all |-> [of |-> n, do |-> all[i]]]
    BY DEF HandlersOf, own, added, acting
  <1> HIDE DEF all
  <1>7. DOMAIN all = 1..Len(all) /\ Len(all) \in Nat /\ \A i \in DOMAIN all : all[i] \in D
    BY <1>5
  <1>8. DOMAIN HandlersOf(n, type) = 1..Len(all)
        /\ \A i \in 1..Len(all) : HandlersOf(n, type)[i] = [of |-> n, do |-> all[i]]
    BY <1>6, <1>7
  <1>9. \A i \in 1..Len(all) : [of |-> n, do |-> all[i]] \in [of : Pointer, do : Doable]
    BY <1>4, <1>7
  <1>10. HandlersOf(n, type) \in Seq([of : Pointer, do : Doable])
    BY <1>6, <1>7, <1>9
  <1> QED
    BY <1>4, <1>7, <1>8, <1>10

-----------------------------------------------------------------------------
(* EventDispatch: the steps *)

\* The client's requests but destruction: they end nothing that is held.
LEMMA RequestStep ==
    ASSUME DispatchInv, ClientRequest, Overtaken
    PROVE  DispatchInv'
  <1>1. client = "there" /\ client' = client /\ UNCHANGED <<dispatchVars, acts, draggable, grabbed>>
    BY DEF ClientRequest
  <1>2. Request
    BY DEF ClientRequest, Request
  <1>3. TreeInv'
    BY <1>2, RequestInv DEF DispatchInv
  <1>4. widgets \subseteq widgets'
    BY DEF ClientRequest, Make, RmWidget, AddWidget, OpenWindow, RequestClose,
           Push
  <1>5. Typed'
    BY <1>1, <1>4 DEF DispatchInv, Typed, dispatchVars
  <1> QED
    BY <1>1, <1>3, <1>4, <1>5, QuietStep

\* A step that leaves the tree alone keeps its invariant.
LEMMA SameTree == TreeInv /\ UNCHANGED vars => TreeInv'
  BY DEF vars, TreeInv, Updates, Alive

\* A handler is added for a widget that exists.
LEMMA AddHandlerStep ==
    ASSUME DispatchInv, NEW a \in Acts, AddHandler(a), Overtaken
    PROVE  DispatchInv'
  <1>1. /\ acts' = acts \cup {a} /\ a.of \in widgets
        /\ UNCHANGED <<vars, dispatchVars, client, draggable, grabbed>>
    BY DEF AddHandler
  <1>2. TreeInv' /\ widgets' = widgets
    BY <1>1, SameTree DEF DispatchInv, vars
  <1>3. IsFiniteSet(acts')
    BY <1>1, FS_AddElement DEF DispatchInv, Typed
  <1>4. Typed'
    BY <1>1, <1>2, <1>3 DEF DispatchInv, Typed, dispatchVars
  <1> QED
    BY <1>1, <1>2, <1>4, QuietStep

\* The client leaves; its queue goes when its widgets are gone.
LEMMA LeaveStep ==
    ASSUME DispatchInv, ClientLeaves \/ ClientGone, Overtaken
    PROVE  DispatchInv'
  <1>1. /\ client' = "going" \/ (client' = "gone" /\ widgets = {})
        /\ UNCHANGED <<vars, dispatchVars, acts, draggable, grabbed>>
    BY DEF ClientLeaves, ClientGone
  <1>2. TreeInv' /\ widgets' = widgets
    BY <1>1, SameTree DEF DispatchInv, vars
  <1>3. Typed'
    BY <1>1, <1>2 DEF DispatchInv, Typed, dispatchVars
  <1> QED
    BY <1>1, <1>2, <1>3, QuietStep

\* The display thread changes the tree, but not what exists.
LEMMA DisplayStep ==
    ASSUME DispatchInv, Display, Overtaken
    PROVE  DispatchInv'
  <1>1. UNCHANGED <<dispatchVars, client, acts, draggable, grabbed>> /\ widgets' = widgets
    BY DEF Display, PopUpdates, RunUpdate, ReadGone
  <1>2. TreeInv'
    BY PopInv, RunInv, ReadGoneInv DEF Display, DispatchInv
  <1>3. Typed'
    BY <1>1 DEF DispatchInv, Typed, dispatchVars
  <1> QED
    BY <1>1, <1>2, <1>3, QuietStep

\* A widget that goes, with the parts of a window.
LEMMA GoesWith ==
    ASSUME TreeInv, NEW n \in widgets
    PROVE  /\ With(n) \subseteq Alive
           /\ Alive \ With(n) = (widgets \ {n})
                                \cup UNION {Parts(w) : w \in (widgets \ {n}) \cap Window}
  <1>1. widgets \subseteq Widget /\ Window \subseteq Widget
    BY DEF TreeInv, Widget
  <1>2. \A v, w \in Window : v # w => Parts(v) \cap Parts(w) = {}
    BY Addresses
  <1>3. \A w \in Window : Parts(w) \cap Widget = {}
    BY Addresses
  <1> QED
    BY <1>1, <1>2, <1>3 DEF With, Alive

\* A widget is destroyed: what is in hand is met, and what is under the mouse is
\* forgotten.
LEMMA DestroyStep ==
    ASSUME DispatchInv, NEW n \in Widget, DestroyWidget(n), Overtaken
    PROVE  DispatchInv'
  <1>1. /\ n \in widgets /\ widgets' = widgets \ {n} /\ Destroy(n)
        /\ under' = (IF under \in With(n) THEN None ELSE under)
        /\ inside' = (IF inside \in With(n) THEN None ELSE inside)
        /\ acts' = {a \in acts : a.of # n}
        /\ draggable' = [w \in Window |-> w # n /\ draggable[w]]
        /\ UNCHANGED <<client, todo, calls, left, grabbed>>
    BY DEF DestroyWidget, Destroy, RmFromUnderMouse
  <1>2. TreeInv'
    BY <1>1, DestroyInv DEF DispatchInv
  <1>3. Alive' = Alive \ With(n) /\ With(n) \subseteq Alive
    <2>1. Alive' = (widgets \ {n}) \cup UNION {Parts(w) : w \in (widgets \ {n}) \cap Window}
      BY <1>1 DEF Alive
    <2> QED
      BY <1>1, <2>1, GoesWith DEF DispatchInv
  <1>4. None \in Pointer /\ None \notin Alive
    BY Addresses DEF Pointer, Alive, DispatchInv, TreeInv
  <1>5. Typed'
    <2>1. IsFiniteSet(acts')
      BY <1>1, FS_Subset DEF DispatchInv, Typed
    <2>2. draggable' \in [Window -> BOOLEAN]
      BY <1>1
    <2> QED
      BY <1>1, <1>4, <2>1, <2>2 DEF DispatchInv, Typed
  <1>6. InHand' = InHand
    BY <1>1 DEF InHand, With
  <1>7. Held' = InHand \cup {under'}
    BY <1>6 DEF Held
  <1>8. Known' /\ met \cap Held' \subseteq met'
    <2>1. Held' \subseteq Held \cup Alive' \cup {None}
      BY <1>1, <1>7 DEF Held
    <2>2. ASSUME NEW h \in Held', h \in Alive PROVE h \in Alive' \cup InHand
      <3>1. CASE h \in InHand
        BY <3>1
      <3>2. CASE h = under'
        BY <1>1, <1>3, <1>4, <2>2, <3>2
      <3> QED
        BY <1>7, <3>1, <3>2
    <2> QED
      BY <2>1, <2>2, KnownKept DEF DispatchInv
  <1>9. InHand \cap With(n) \subseteq met'
    BY <1>3, <1>7 DEF Overtaken
  <1>10. ASSUME Entered(under) PROVE Entered(under)'
    <2>1. CASE inside = under
      BY <1>1, <2>1 DEF Entered
    <2>2. CASE under \in met /\ inside = None
      <3>1. inside' = None
        BY <1>1, <2>2
      <3>2. under' = None \/ under' = under
        BY <1>1
      <3> QED
        BY <1>7, <1>8, <2>2, <3>1, <3>2 DEF Entered
    <2> QED
      BY <1>10, <2>1, <2>2 DEF Entered
  <1>11. ASSUME NEW f \in InHand, Entered(f) PROVE inside' = f \/ (f \in met' /\ inside' = None)
    <2>1. CASE inside = f /\ f \in With(n)
      BY <1>1, <1>9, <2>1
    <2>2. CASE inside = f /\ f \notin With(n)
      BY <1>1, <2>2
    <2>3. CASE f \in met /\ inside = None
      BY <1>1, <1>7, <1>8, <2>3
    <2> QED
      BY <1>11, <2>1, <2>2, <2>3 DEF Entered
  <1>12. Crossed'
    <2>1. todo # <<>> => Head(todo) = todo[1] /\ 1 \in DOMAIN todo
      BY DEF DispatchInv, Typed
    <2>2. todo # <<>> => Head(todo).to \in InHand
      BY <2>1 DEF InHand
    <2>3. todo # <<>> /\ Entered(Head(todo).to) => Entered(Head(todo).to)'
      BY <1>1, <1>11, <2>2 DEF Entered
    <2>4. inside = None => inside' = None
      BY <1>1
    <2> QED
      BY <1>1, <1>10, <2>3, <2>4 DEF DispatchInv, Crossed
  <1>13. Noted'
    <2> SUFFICES ASSUME NEW i \in DOMAIN calls, calls[i].do.op = "notify"
                 PROVE  calls[i].of \in widgets' \cup met'
      BY <1>1 DEF Noted
    <2>1. calls[i].of \in widgets \cup met /\ calls[i].of \in InHand
      BY DEF DispatchInv, Noted, InHand
    <2>2. calls[i].of = n => n \in With(n)
      BY DEF With
    <2> QED
      BY <1>1, <1>7, <1>8, <1>9, <2>1, <2>2
  <1> QED
    BY <1>2, <1>5, <1>8, <1>12, <1>13 DEF DispatchInv

\* A sequence over a set is one over a larger set.
LEMMA LargerSet ==
    ASSUME NEW S, NEW T, S \subseteq T, NEW s \in Seq(S)
    PROVE  s \in Seq(T)
  OBVIOUS

\* A dispatch begins: what it finds exists, or is held by a grab.
LEMMA DispatchStep ==
    ASSUME DispatchInv, NEW type \in DeviceEvent, NEW isLeft \in BOOLEAN, Dispatch(type, isLeft),
           Overtaken
    PROVE  DispatchInv'
  <1>1. PICK found \in WidgetsNow(type) :
            /\ todo = <<>> /\ calls = <<>> /\ todo' = Calls(type, found)
            /\ left' = (isLeft /\ found # <<>>)
            /\ UNCHANGED <<vars, client, acts, draggable, calls, under, grabbed, inside>>
    BY DEF Dispatch
  <1>2. TreeInv' /\ widgets' = widgets /\ Alive' = Alive
    BY <1>1, SameTree DEF DispatchInv, vars, Alive
  <1> DEFINE P == (Pointer \cap (Held \cup Alive)) \cup {None}
  <1>3. found \in Seq(P)
    <2>1. found \in Seq(Pointer \cap (Held \cup Alive))
      BY FoundIs DEF DispatchInv
    <2> QED
      BY <2>1
  <1>4. P \subseteq Pointer /\ None \in P /\ P \subseteq Held \cup Alive \cup {None}
    BY DEF Pointer
  <1> HIDE DEF P
  <1>5. /\ todo' \in Seq([type : CallType, to : P]) /\ Ordered(todo')
        /\ todo' # <<>> => Head(todo').type \notin {"enter", "remember"}
    BY <1>1, <1>3, <1>4, CallsAre
  <1>6. Typed'
    <2>1. left' \in BOOLEAN
      BY <1>1
    <2>2. todo' \in Seq([type : CallType, to : Pointer])
      <3> DEFINE A == [type : CallType, to : P]
                 B == [type : CallType, to : Pointer]
      <3>1. A \subseteq B
        BY <1>4
      <3>2. todo' \in Seq(A)
        BY <1>5
      <3> HIDE DEF A, B
      <3>3. todo' \in Seq(B)
        BY ONLY <3>1, <3>2, LargerSet
      <3> QED
        BY <3>3 DEF B
    <2> QED
      BY <1>1, <1>2, <2>1, <2>2 DEF DispatchInv, Typed
  <1>7. Known' /\ met \cap Held' \subseteq met'
    <2>1. \A i \in DOMAIN todo' : todo'[i] \in [type : CallType, to : P]
      BY <1>5, SequenceHas
    <2>2. \A i \in DOMAIN todo' : todo'[i].to \in P
      BY <2>1
    <2>3. InHand' = {todo'[i].to : i \in DOMAIN todo'} \cup {calls[i].of : i \in DOMAIN calls}
                    \cup (IF grabbed = None THEN {} ELSE With(grabbed) \ {Frame(grabbed)})
      BY <1>1 DEF InHand, With
    <2>4. Held' \subseteq Held \cup P
      BY <1>1, <2>2, <2>3 DEF Held, InHand
    <2>5. Held' \subseteq Held \cup Alive' \cup {None}
      BY <1>2, <1>4, <2>4
    <2> QED
      BY <1>2, <2>5, KnownKept DEF DispatchInv
  <1>8. Crossed'
    <2>1. Entered(under)
      BY <1>1 DEF DispatchInv, Crossed
    <2>2. Entered(under)'
      BY <1>1, <1>7, <2>1 DEF Entered, Held
    <2> QED
      BY <1>5, <2>2 DEF Crossed
  <1>9. Noted'
    <2>1. calls' = <<>> /\ DOMAIN <<>> = {}
      BY <1>1
    <2> QED
      BY <2>1 DEF Noted
  <1> QED
    BY <1>2, <1>6, <1>7, <1>8, <1>9 DEF DispatchInv

\* What is left to be called keeps its order.
LEMMA OrderedTail ==
    ASSUME NEW S, NEW s \in Seq(S), s # <<>>, Ordered(s)
    PROVE  Ordered(Tail(s))
  <1> DEFINE u == Tail(s)
  <1>1. Len(s) \in Nat /\ Len(s) > 0 /\ DOMAIN s = 1..Len(s) /\ Len(u) = Len(s) - 1 /\ DOMAIN u = 1..Len(u)
        /\ \A i \in 1..Len(u) : u[i] = s[i+1]
    OBVIOUS
  <1> HIDE DEF u
  <1> SUFFICES ASSUME NEW i \in DOMAIN u
      PROVE  /\ u[i].type = "exit" => /\ Len(u) = i + 2
                                      /\ u[i+1] = Call("enter", u[i].to)
                                      /\ u[i+2] = Call("remember", u[i].to)
             /\ u[i].type = "enter" => /\ Len(u) = i + 1 /\ u[i+1] = Call("remember", u[i].to)
                                       /\ i > 1 => u[i-1].type = "exit"
             /\ u[i].type = "remember" => /\ Len(u) = i
                                          /\ i > 1 => u[i-1].type = "enter"
    BY DEF Ordered, u
  <1> DEFINE j == i + 1
  <1>2. i \in Nat /\ i >= 1 /\ j \in DOMAIN s /\ u[i] = s[j] /\ j > 1
    BY <1>1
  <1>3. /\ s[j].type = "exit" => /\ Len(s) = j + 2 /\ s[j+1] = Call("enter", s[j].to)
                                 /\ s[j+2] = Call("remember", s[j].to)
        /\ s[j].type = "enter" => /\ Len(s) = j + 1 /\ s[j+1] = Call("remember", s[j].to)
                                  /\ s[j-1].type = "exit"
        /\ s[j].type = "remember" => Len(s) = j /\ s[j-1].type = "enter"
    <2> HIDE DEF j
    <2> QED
      BY <1>2 DEF Ordered
  <1>4. i > 1 => i - 1 \in 1..Len(u) /\ u[i-1] = s[j-1]
    <2>1. i > 1 => i - 1 \in 1..Len(u) /\ (i - 1) + 1 = j - 1
      BY <1>1, <1>2
    <2> QED
      BY <1>1, <2>1
  <1>5. CASE u[i].type = "exit"
    <2>1. Len(u) = i + 2
      BY <1>1, <1>2, <1>3, <1>5
    <2>2. u[i+1] = s[j+1] /\ u[i+2] = s[j+2]
      <3>1. i + 1 \in 1..Len(u) /\ i + 2 \in 1..Len(u) /\ (i + 1) + 1 = j + 1 /\ (i + 2) + 1 = j + 2
        BY <1>2, <2>1
      <3> QED
        BY <1>1, <3>1
    <2> QED
      BY <1>2, <1>3, <1>5, <2>1, <2>2
  <1>6. CASE u[i].type = "enter"
    <2>1. Len(u) = i + 1
      BY <1>1, <1>2, <1>3, <1>6
    <2>2. u[i+1] = s[j+1]
      <3>1. i + 1 \in 1..Len(u) /\ (i + 1) + 1 = j + 1
        BY <1>2, <2>1
      <3> QED
        BY <1>1, <3>1
    <2> QED
      BY <1>2, <1>3, <1>4, <1>6, <2>1, <2>2
  <1>7. CASE u[i].type = "remember"
    <2>1. Len(u) = i
      BY <1>1, <1>2, <1>3, <1>7
    <2> QED
      BY <1>2, <1>3, <1>4, <1>7, <2>1
  <1> QED
    BY <1>5, <1>6, <1>7

\* The handlers of one widget are copied; what they are of was held already.
LEMMA DeliverStep ==
    ASSUME DispatchInv, Deliver, Overtaken
    PROVE  DispatchInv'
  <1> DEFINE c == Head(todo)
             n == IF c.type = "exit" THEN under ELSE c.to
             same == c.type = "exit" /\ c.to = under
  <1>1. /\ calls = <<>> /\ todo # <<>>
        /\ todo' = (IF same THEN <<>> ELSE Tail(todo))
        /\ under' = (IF c.type = "remember" THEN c.to ELSE under)
        /\ inside' = (CASE c.type = "enter" -> n
                        [] c.type = "exit" /\ ~same -> None
                        [] OTHER -> inside)
        /\ calls' = <<>> \/ calls' = HandlersOf(n, c.type)
        /\ failed' \in {failed, TRUE}
        /\ left' = (left /\ (todo' # <<>> \/ calls' # <<>>))
        /\ UNCHANGED <<widgets, tree, stack, queue, batch, client, acts, draggable, grabbed>>
    BY DEF Deliver
  <1>2. TreeInv' /\ widgets' = widgets /\ Alive' = Alive
    BY <1>1 DEF DispatchInv, TreeInv, Updates, Alive
  <1> DEFINE C == [type : CallType, to : Pointer]
  <1>3. /\ todo \in Seq(C) /\ c \in C /\ c = todo[1] /\ 1 \in DOMAIN todo
        /\ Ordered(todo) /\ Len(todo) \in Nat /\ Len(todo) >= 1
    <2>1. todo \in Seq(C) /\ Ordered(todo)
      BY DEF DispatchInv, Typed, Crossed
    <2> HIDE DEF C
    <2> QED
      BY <1>1, <2>1
  <1>4. c.type \in CallType /\ c.to \in Pointer /\ n \in Pointer /\ under \in Pointer
    BY <1>3 DEF DispatchInv, Typed
  <1>5. c.to \in InHand /\ n \in Held /\ under \in Held
    BY <1>3 DEF InHand, Held
  <1>6. Tail(todo) \in Seq(C) /\ Len(Tail(todo)) = Len(todo) - 1
        /\ DOMAIN Tail(todo) = 1..Len(todo)-1 /\ DOMAIN todo = 1..Len(todo)
        /\ \A i \in 1..Len(todo)-1 : Tail(todo)[i] = todo[i+1]
    <2> HIDE DEF C
    <2> QED
      BY <1>1, <1>3
  <1> HIDE DEF c, n, same
  <1>7. todo' \in Seq(C) /\ Ordered(todo')
    <2>1. <<>> \in Seq(C) /\ Ordered(<<>>)
      BY DEF Ordered
    <2> HIDE DEF C
    <2> QED
      BY <1>1, <1>3, <1>6, <2>1, OrderedTail
  <1>8. /\ calls' \in Seq([of : Pointer, do : Doable])
        /\ \A i \in DOMAIN calls' : /\ calls'[i].of = n
                                    /\ calls'[i].do.op = "notify" => n \in widgets
    <2>1. CASE calls' = <<>>
      BY <2>1
    <2>2. CASE calls' = HandlersOf(n, c.type)
      <3>1. acts \subseteq Acts /\ IsFiniteSet(acts)
        BY DEF DispatchInv, Typed
      <3> DEFINE hs == HandlersOf(n, c.type)
      <3>2. /\ hs \in Seq([of : Pointer, do : Doable])
            /\ \A i \in DOMAIN hs : hs[i].of = n /\ (hs[i].do.op = "notify" => n \in widgets)
        BY <1>4, <3>1, HandlersAre
      <3> HIDE DEF hs
      <3> QED
        BY <2>2, <3>2 DEF hs
    <2> QED
      BY <1>1, <2>1, <2>2
  <1>9. Typed'
    <2>1. left' \in BOOLEAN
      BY <1>1 DEF DispatchInv, Typed
    <2>2. under' \in Pointer
      BY <1>1, <1>4
    <2>3. inside' \in Pointer
      <3>1. None \in Pointer /\ inside \in Pointer
        BY DEF Pointer, DispatchInv, Typed
      <3> QED
        BY <1>1, <1>4, <3>1
    <2> QED
      BY <1>1, <1>7, <1>8, <2>1, <2>2, <2>3 DEF DispatchInv, Typed
  <1>10. Held' \subseteq Held
    <2>1. \A i \in DOMAIN todo' : todo'[i].to \in InHand
      <3>1. \A i \in 1..Len(todo)-1 : i + 1 \in DOMAIN todo
        BY <1>3, <1>6
      <3>2. \A i \in DOMAIN todo' : i \in 1..Len(todo)-1 /\ todo'[i] = todo[i+1]
        BY <1>1, <1>6
      <3> QED
        BY <3>1, <3>2 DEF InHand
    <2>2. InHand' = {todo'[i].to : i \in DOMAIN todo'} \cup {calls'[i].of : i \in DOMAIN calls'}
                    \cup (IF grabbed = None THEN {} ELSE With(grabbed) \ {Frame(grabbed)})
      BY <1>1 DEF InHand, With
    <2>3. InHand' \subseteq Held
      BY <1>5, <1>8, <2>1, <2>2 DEF Held, InHand
    <2>4. under' \in Held
      BY <1>1, <1>5 DEF Held
    <2> QED
      BY <2>3, <2>4 DEF Held
  <1>11. Known' /\ met \cap Held' \subseteq met'
    BY <1>2, <1>10, KnownKept DEF DispatchInv
  <1>12. ASSUME Entered(under'), UNCHANGED inside PROVE Entered(under)'
    BY <1>11, <1>12 DEF Entered, Held
  <1>13. Crossed'
    <2>1. /\ c.type \notin {"enter", "remember"} => Entered(under)
          /\ c.type = "enter" => inside = None
          /\ c.type = "remember" => Entered(c.to)
      BY <1>1 DEF DispatchInv, Crossed, c
    <2>2. /\ c.type = "exit" => /\ Len(todo) = 3 /\ todo[2] = Call("enter", c.to)
                                /\ todo[3] = Call("remember", c.to)
          /\ c.type = "enter" => Len(todo) = 2 /\ todo[2] = Call("remember", c.to)
          /\ c.type = "remember" => Len(todo) = 1
      <3>1. /\ c.type = "exit" => /\ Len(todo) = 1 + 2 /\ todo[1+1] = Call("enter", c.to)
                                  /\ todo[1+2] = Call("remember", c.to)
            /\ c.type = "enter" => Len(todo) = 1 + 1 /\ todo[1+1] = Call("remember", c.to)
            /\ c.type = "remember" => Len(todo) = 1
        BY <1>3 DEF Ordered
      <3> QED
        BY <3>1
    <2>3. /\ Tail(todo) # <<>> => Head(Tail(todo)) = todo[2] /\ 2 \in DOMAIN todo
          /\ Len(todo) > 1 => Tail(todo) # <<>>
      <3>1. Len(<<>>) = 0 /\ Len(Tail(todo)) = Len(todo) - 1 /\ Len(todo) \in Nat
        BY <1>3, <1>6
      <3>2. Len(todo) > 1 => Tail(todo) # <<>>
        BY ONLY <3>1
      <3>3. Tail(todo) # <<>> => Head(Tail(todo)) = todo[2] /\ 2 \in DOMAIN todo
        BY <1>3, <1>6
      <3> QED
        BY <3>2, <3>3
    <2>4. CASE c.type = "exit" /\ same
      <3>1. todo' = <<>> /\ under' = under /\ inside' = inside /\ Entered(under)
        BY <1>1, <2>1, <2>4
      <3> QED
        BY <1>7, <1>12, <3>1 DEF Crossed
    <2>5. CASE c.type = "exit" /\ ~same
      <3>1. todo' = Tail(todo) /\ inside' = None
        BY <1>1, <2>5
      <3>2. todo' # <<>> /\ Head(todo').type = "enter"
        <4>1. todo' # <<>> /\ Head(todo') = todo[2]
          <5>1. Len(todo) > 1
            <6>1. Len(todo) \in {2, 3}
              BY ONLY <2>2, <2>5
            <6> QED
              BY ONLY <6>1
          <5> QED
            BY ONLY <2>3, <3>1, <5>1
        <4> QED
          BY <2>2, <2>5, <4>1 DEF Call
      <3> QED
        BY <1>7, <3>1, <3>2 DEF Crossed
    <2>6. CASE c.type = "enter"
      <3>1. todo' = Tail(todo) /\ inside' = c.to
        BY <1>1, <2>6 DEF n, same
      <3>2. todo' # <<>> /\ Head(todo').type = "remember" /\ Head(todo').to = c.to
        <4>1. todo' # <<>> /\ Head(todo') = todo[2]
          <5>1. Len(todo) > 1
            <6>1. Len(todo) \in {2, 3}
              BY ONLY <2>2, <2>6
            <6> QED
              BY ONLY <6>1
          <5> QED
            BY ONLY <2>3, <3>1, <5>1
        <4> QED
          BY <2>2, <2>6, <4>1 DEF Call
      <3> QED
        BY <1>7, <3>1, <3>2 DEF Crossed, Entered
    <2>7. CASE c.type = "remember"
      <3>1. todo' = <<>> /\ inside' = inside /\ under' = c.to /\ Entered(c.to)
        BY <1>1, <1>6, <2>1, <2>2, <2>7 DEF same
      <3> QED
        BY <1>7, <1>12, <3>1 DEF Crossed
    <2>8. CASE c.type \notin {"exit", "enter", "remember"}
      <3>1. todo' = Tail(todo) /\ inside' = inside /\ under' = under /\ Entered(under)
        BY <1>1, <2>1, <2>8 DEF same
      <3>2. Entered(under)'
        BY <1>12, <3>1
      <3>3. todo' # <<>> => Head(todo').type \notin {"enter", "remember"}
        <4>1. ASSUME 2 \in DOMAIN todo, todo[2].type \in {"enter", "remember"}
              PROVE  todo[1].type \in {"exit", "enter"}
          <5>1. 2 > 1 /\ 2 - 1 = 1
            OBVIOUS
          <5> QED
            BY <1>3, <4>1, <5>1 DEF Ordered
        <4> QED
          BY <1>3, <2>3, <2>8, <3>1, <4>1
      <3> QED
        BY <1>7, <3>2, <3>3 DEF Crossed
    <2> QED
      BY <2>4, <2>5, <2>6, <2>7, <2>8
  <1>14. Noted'
    BY <1>2, <1>8 DEF Noted
  <1> QED
    BY <1>2, <1>9, <1>11, <1>13, <1>14 DEF DispatchInv

\* What one of the server's own handlers does.
LEMMA HandleDoes ==
    ASSUME Handle
    PROVE  LET do == Head(calls).do IN
           \/ UNCHANGED <<widgets, tree, stack, queue, batch>> /\ failed' \in {failed, TRUE}
              /\ grabbed' \in {grabbed, None}
              /\ draggable' \in {draggable, [draggable EXCEPT ![do.window] =
                                                (@ \/ left) /\ do.op = "start"]}
           \/ do.op = "drag" /\ do.window \in widgets /\ grabbed' = do.window /\ draggable' = draggable
              /\ Push([op |-> "touch", child |-> do.window])
           \/ do.op \notin {"notify", "drag", "start", "stop"} /\ Push(do)
              /\ UNCHANGED <<draggable, grabbed>>
  BY DEF Handle, vars

\* A handler runs: a grab is of a window that exists.
LEMMA HandleStep ==
    ASSUME DispatchInv, Handle, Overtaken
    PROVE  DispatchInv'
  <1> DEFINE do == Head(calls).do
             H == [of : Pointer, do : Doable]
  <1>1. /\ calls # <<>> /\ calls' = Tail(calls)
        /\ left' = (left /\ (todo # <<>> \/ calls' # <<>>))
        /\ UNCHANGED <<client, acts, todo, under, inside>>
    BY DEF Handle
  <1>2. calls \in Seq(H)
    BY DEF DispatchInv, Typed
  <1> HIDE DEF H
  <1>3. /\ Head(calls) \in H /\ calls' \in Seq(H) /\ Len(calls) \in Nat
        /\ DOMAIN calls = 1..Len(calls) /\ DOMAIN calls' = 1..Len(calls)-1
        /\ \A i \in 1..Len(calls)-1 : calls'[i] = calls[i+1]
    BY <1>1, <1>2
  <1>4. do \in Doable
    BY <1>3 DEF H
  <1>5. \A i \in DOMAIN calls' : i + 1 \in DOMAIN calls /\ calls'[i] = calls[i+1]
    BY <1>3
  <1>6. /\ do.op \in {"drag", "start", "stop"} => do.window \in Window
        /\ do.op \notin {"notify", "drag", "start", "stop"} => do \in Update
    BY <1>4, UpdateIs DEF Doable
  <1> HIDE DEF do
  <1>7. /\ TreeInv' /\ widgets' = widgets
        /\ grabbed' \in {grabbed, None} \/ (grabbed' \in Window /\ grabbed' \in widgets)
        /\ draggable' \in [Window -> BOOLEAN]
    <2>1. CASE /\ UNCHANGED <<widgets, tree, stack, queue, batch>> /\ failed' \in {failed, TRUE}
               /\ grabbed' \in {grabbed, None}
               /\ draggable' \in {draggable, [draggable EXCEPT ![do.window] =
                                                 (@ \/ left) /\ do.op = "start"]}
      <3>1. TreeInv'
        BY <2>1 DEF DispatchInv, TreeInv, Updates, Alive
      <3>2. draggable' \in [Window -> BOOLEAN]
        BY <2>1 DEF DispatchInv, Typed
      <3> QED
        BY <2>1, <3>1, <3>2
    <2>2. CASE /\ do.op = "drag" /\ do.window \in widgets /\ grabbed' = do.window
               /\ draggable' = draggable /\ Push([op |-> "touch", child |-> do.window])
      <3>1. do.window \in Window /\ do.window \in Node
        BY <1>6, <2>2, Addresses
      <3>2. [op |-> "touch", child |-> do.window] \in Update
        BY <3>1 DEF Update
      <3>3. TreeInv' /\ widgets' = widgets
        BY <2>2, <3>2, PushInv DEF DispatchInv, Push
      <3> QED
        BY <2>2, <3>1, <3>3 DEF DispatchInv, Typed
    <2>3. CASE /\ do.op \notin {"notify", "drag", "start", "stop"} /\ Push(do)
               /\ UNCHANGED <<draggable, grabbed>>
      <3>1. TreeInv' /\ widgets' = widgets
        BY <1>6, <2>3, PushInv DEF DispatchInv, Push
      <3> QED
        BY <2>3, <3>1 DEF DispatchInv, Typed
    <2> QED
      BY <2>1, <2>2, <2>3, HandleDoes DEF do
  <1>8. Alive' = Alive
    BY <1>7 DEF Alive
  <1>9. Typed'
    <2>1. left' \in BOOLEAN
      BY <1>1 DEF DispatchInv, Typed
    <2> QED
      BY <1>1, <1>3, <1>7, <2>1 DEF DispatchInv, Typed, H
  <1>10. Held' \subseteq Held \cup Alive
    <2>1. \A i \in DOMAIN calls' : calls'[i].of \in InHand
      BY <1>5 DEF InHand
    <2>2. \A w \in widgets \cap Window : With(w) \subseteq Alive
      BY DEF With, Alive
    <2>3. InHand' = {todo[i].to : i \in DOMAIN todo} \cup {calls'[i].of : i \in DOMAIN calls'}
                    \cup (IF grabbed' = None THEN {} ELSE With(grabbed') \ {Frame(grabbed')})
      BY <1>1 DEF InHand, With
    <2>4. grabbed' # None => With(grabbed') \ {Frame(grabbed')} \subseteq InHand \cup Alive
      BY <1>7, <2>2 DEF InHand
    <2>5. InHand' \subseteq InHand \cup Alive
      <3>1. {todo[i].to : i \in DOMAIN todo} \subseteq InHand
        BY DEF InHand
      <3>2. {calls'[i].of : i \in DOMAIN calls'} \subseteq InHand
        BY <2>1
      <3> QED
        BY ONLY <2>3, <2>4, <3>1, <3>2
    <2> QED
      BY <1>1, <2>5 DEF Held
  <1>11. Known' /\ met \cap Held' \subseteq met'
    BY <1>8, <1>10, KnownKept DEF DispatchInv
  <1>12. Crossed'
    <2>1. todo # <<>> => Head(todo).to \in Held'
      <3>1. todo # <<>> => Head(todo) = todo[1] /\ 1 \in DOMAIN todo
        BY DEF DispatchInv, Typed
      <3> QED
        BY <1>1, <3>1 DEF Held, InHand
    <2>2. under \in Held'
      BY <1>1 DEF Held
    <2> QED
      BY <1>1, <1>11, <2>1, <2>2 DEF DispatchInv, Crossed, Entered
  <1>13. Noted'
    <2> SUFFICES ASSUME NEW i \in DOMAIN calls', calls'[i].do.op = "notify"
                 PROVE  calls'[i].of \in widgets' \cup met'
      BY DEF Noted
    <2>1. calls'[i].of \in widgets \cup met
      BY <1>5 DEF DispatchInv, Noted
    <2>2. calls'[i].of \in Held'
      BY DEF Held, InHand
    <2> QED
      BY <1>7, <1>11, <2>1, <2>2
  <1> QED
    BY <1>7, <1>9, <1>11, <1>12, <1>13 DEF DispatchInv

\* Every step keeps the invariant.
LEMMA EveryStep == DispatchInv /\ [DispatchNext]_allVars => DispatchInv'
  <1> SUFFICES ASSUME DispatchInv, [DispatchNext]_allVars PROVE DispatchInv'
    OBVIOUS
  <1>1. CASE UNCHANGED allVars
    <2>1. TreeInv'
      BY <1>1, SameTree DEF DispatchInv, allVars
    <2>2. Alive' = Alive /\ InHand' = InHand /\ Held' = Held
      BY <1>1 DEF allVars, vars, dispatchVars, Alive, InHand, Held, With
    <2>3. Typed'
      BY <1>1 DEF DispatchInv, Typed, allVars, vars, dispatchVars
    <2>4. Known'
      BY <1>1, <2>2 DEF DispatchInv, Known, allVars
    <2>5. Crossed' /\ Noted'
      BY <1>1 DEF DispatchInv, Crossed, Entered, Noted, allVars, vars, dispatchVars
    <2> QED
      BY <2>1, <2>3, <2>4, <2>5 DEF DispatchInv
  <1>2. CASE DispatchNext
    <2>1. Overtaken /\ (\/ ClientRequest \/ (\E a \in Acts : AddHandler(a))
                        \/ (\E n \in Widget : DestroyWidget(n)) \/ ClientLeaves \/ ClientGone
                        \/ Deliver \/ Handle
                        \/ (\E type \in DeviceEvent, isLeft \in BOOLEAN : Dispatch(type, isLeft))
                        \/ Display)
      BY <1>2 DEF DispatchNext, Input
    <2> QED
      BY <2>1, RequestStep, AddHandlerStep, DestroyStep, LeaveStep, DeliverStep, HandleStep,
         DispatchStep, DisplayStep
  <1> QED
    BY <1>1, <1>2

\* A pointer that the dispatcher or a grab holds is to a widget that exists, or
\* is one of those that were destroyed while a dispatch had them in hand.
THEOREM HeldAlwaysExist == DispatchSpec => []HeldExist
  BY DispatchStart, EveryStep, DispatchInvEnough, PTL DEF DispatchSpec

\* Whatever else runs between two handlers, a widget is entered only once the
\* one before was left.
THEOREM OneIsInside == DispatchSpec => []OneInside
  BY DispatchStart, EveryStep, DispatchInvEnough, PTL DEF DispatchSpec

\* No handler is left that would push an event to the queue of a client that is
\* gone, but one copied before its widget went.
THEOREM QueueIsAlwaysThere == DispatchSpec => []QueueIsThere
  BY DispatchStart, EveryStep, DispatchInvEnough, PTL DEF DispatchSpec

================================================================================
