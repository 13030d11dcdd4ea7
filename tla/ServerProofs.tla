------------------------------ MODULE ServerProofs ------------------------------
(***************************************************************************)
(* Proofs about two parts of the server, which only main() brings together *)
(* and which share no state: about ServerLifecycle, for any number of      *)
(* interrupts and updates, and about InputDevices, for any number of       *)
(* devices and device files and any number of changes and events.          *)
(***************************************************************************)
EXTENDS ServerLifecycle, InputDevices, FiniteSetTheorems, WellFoundedInduction, TLAPS

-----------------------------------------------------------------------------
(* ServerLifecycle: the order of the members *)

\* Where a member is declared.
Place == [dd |-> 1, ed |-> 2, dm |-> 3, cl |-> 4, ih |-> 5]

\* The members of Server and their places in the order of declaration.
LEMMA OrderIs ==
    /\ Member = {"dd", "ed", "dm", "cl", "ih"} /\ Len(Order) = 5
    /\ \A i \in 1..5 : Order[i] \in Member /\ Place[Order[i]] = i
    /\ \A m \in Member : Place[m] \in 1..5 /\ Order[Place[m]] = m
  <1>1. Len(Order) = 5 /\ DOMAIN Members = 1..5 /\ Order = Members
    BY DEF Order, Members
  <1>2. /\ Order[1] = "dd" /\ Order[2] = "ed" /\ Order[3] = "dm" /\ Order[4] = "cl" /\ Order[5] = "ih"
    BY DEF Order, Members
  <1>3. 1..5 = {1, 2, 3, 4, 5}
    OBVIOUS
  <1>4. Member = {"dd", "ed", "dm", "cl", "ih"}
    BY <1>1, <1>2, <1>3 DEF Member, Range
  <1> QED
    BY <1>1, <1>2, <1>3, <1>4 DEF Place

\* SelectInSeq and SelectLastInSeq find the first and the last, if there is one.
LEMMA FirstIs ==
    ASSUME NEW I \in SUBSET (1..5), I # {}
    PROVE  Min(I) \in I /\ \A j \in I : Min(I) <= j
  <1>1. \E i \in I : \A j \in I : i <= j
    <2>1. CASE 1 \in I
      BY <2>1
    <2>2. CASE 1 \notin I /\ 2 \in I
      BY <2>2
    <2>3. CASE 1 \notin I /\ 2 \notin I /\ 3 \in I
      BY <2>3
    <2>4. CASE 1 \notin I /\ 2 \notin I /\ 3 \notin I /\ 4 \in I
      BY <2>4
    <2>5. CASE 1 \notin I /\ 2 \notin I /\ 3 \notin I /\ 4 \notin I
      <3>1. \A j \in I : j = 5
        BY <2>5
      <3>2. PICK k \in I : TRUE
        OBVIOUS
      <3>3. k = 5 /\ \A j \in I : k <= j
        BY <3>1, <3>2
      <3> QED
        BY <3>3
    <2> QED
      BY <2>1, <2>2, <2>3, <2>4, <2>5
  <1> QED
    BY <1>1 DEF Min

\* Max gives the largest of the places.
LEMMA LastIs ==
    ASSUME NEW I \in SUBSET (1..5), I # {}
    PROVE  Max(I) \in I /\ \A j \in I : Max(I) >= j
  <1>1. \E i \in I : \A j \in I : i >= j
    <2>1. CASE 5 \in I
      BY <2>1
    <2>2. CASE 5 \notin I /\ 4 \in I
      BY <2>2
    <2>3. CASE 5 \notin I /\ 4 \notin I /\ 3 \in I
      BY <2>3
    <2>4. CASE 5 \notin I /\ 4 \notin I /\ 3 \notin I /\ 2 \in I
      BY <2>4
    <2>5. CASE 5 \notin I /\ 4 \notin I /\ 3 \notin I /\ 2 \notin I
      <3>1. \A j \in I : j = 1
        BY <2>5
      <3>2. PICK k \in I : TRUE
        OBVIOUS
      <3>3. k = 1 /\ \A j \in I : k >= j
        BY <3>1, <3>2
      <3> QED
        BY <3>3
    <2> QED
      BY <2>1, <2>2, <2>3, <2>4, <2>5
  <1> QED
    BY <1>1 DEF Max

\* The next member to be made is the first that is not ...
LEMMA NextMember ==
    /\ Next1 # 0 => LET m == Order[Next1] IN
          m \in Member /\ life[m] = "none" /\ \A n \in Member : Place[n] < Place[m] => life[n] # "none"
    /\ Next1 = 0 => \A n \in Member : life[n] # "none"
  <1> DEFINE I == {i \in 1..Len(Order) : life[Order[i]] = "none"}
  <1>1. Next1 = IF I # {} THEN Min(I) ELSE 0
    BY DEF Next1, SelectInSeq
  <1>2. I \in SUBSET (1..5) /\ \A n \in Member : life[n] = "none" => Place[n] \in I
    BY OrderIs
  <1>3. \A i \in I : i # 0 /\ Order[i] \in Member /\ Place[Order[i]] = i /\ life[Order[i]] = "none"
    BY OrderIs
  <1>4. \A n \in Member : Place[n] \in Int
    BY OrderIs
  <1> HIDE DEF I
  <1>5. CASE I = {}
    BY <1>1, <1>2, <1>5
  <1>6. CASE I # {}
    <2>1. Next1 \in I /\ \A j \in I : Next1 <= j
      BY <1>1, <1>2, <1>6, FirstIs
    <2>2. Next1 \in 1..5
      BY <1>2, <2>1
    <2> QED
      BY <1>2, <1>3, <1>4, <2>1, <2>2
  <1> QED
    BY <1>5, <1>6

\* ... and the next to go is the last that is there.
LEMMA LastMember ==
    /\ Last1 # 0 => LET m == Order[Last1] IN
          m \in Member /\ life[m] \in {"up", "dying"}
          /\ \A n \in Member : Place[n] > Place[m] => life[n] \notin {"up", "dying"}
    /\ Last1 = 0 => \A n \in Member : life[n] \notin {"up", "dying"}
  <1> DEFINE I == {i \in 1..Len(Order) : life[Order[i]] \in {"up", "dying"}}
  <1>1. Last1 = IF I # {} THEN Max(I) ELSE 0
    BY DEF Last1, SelectLastInSeq
  <1>2. I \in SUBSET (1..5) /\ \A n \in Member : life[n] \in {"up", "dying"} => Place[n] \in I
    BY OrderIs
  <1>3. \A i \in I : i # 0 /\ Order[i] \in Member /\ Place[Order[i]] = i /\ life[Order[i]] \in {"up", "dying"}
    BY OrderIs
  <1>4. \A n \in Member : Place[n] \in Int
    BY OrderIs
  <1> HIDE DEF I
  <1>5. CASE I = {}
    BY <1>1, <1>2, <1>5
  <1>6. CASE I # {}
    <2>1. Last1 \in I /\ \A j \in I : Last1 >= j
      BY <1>1, <1>2, <1>6, LastIs
    <2>2. Last1 \in 1..5
      BY <1>2, <2>1
    <2> QED
      BY <1>2, <1>3, <1>4, <2>1, <2>2
  <1> QED
    BY <1>5, <1>6

-----------------------------------------------------------------------------
(* ServerLifecycle: the invariant *)

Destroying == main \in {"unwind", "exit"}

\* Members come in the order they are declared in and go in the reverse order;
\* none goes before main has returned or a constructor has thrown.
Ordered ==
    /\ \A m, n \in Member : Place[m] < Place[n] =>
          /\ life[m] = "none" => life[n] = "none"
          /\ life[m] \in {"dying", "gone"} => life[n] \in {"none", "gone"}
    /\ main \notin {"unwind", "exit", "end"} => \A m \in Member : life[m] \in {"none", "up"}
    /\ made => \A m \in Member : life[m] # "none"

\* the() has returned to whoever is past it; a thread begins and ends with its
\* member, within the destructor.
Threads ==
    /\ \A t \in Thread :
          /\ life[OwnerOf[t]] = "none" => thread[t] = "none"
          /\ life[OwnerOf[t]] = "gone" => thread[t] \in {"none", "ended"}
          /\ thread[t] = "use" /\ t # "display" => made
    /\ "widget" \in Range(queue) \cup Range(batch) => made

\* The destructor of the display adds one to a queue that may be full.
Bounded ==
    /\ queue \in Seq({"widget", "empty"}) /\ batch \in Seq({"widget", "empty"})
    /\ Len(queue) <= MaxUpdates + 1 /\ Len(batch) <= MaxUpdates + 1
    /\ life["dm"] \in {"none", "up"} => Len(queue) <= MaxUpdates

LifeInv == TypeOK /\ Ordered /\ Threads /\ Bounded

\* Nothing is there at the beginning.
LEMMA LifeInit == Init => LifeInv
  <1> SUFFICES ASSUME Init PROVE LifeInv
    OBVIOUS
  <1>1. /\ main = "build" /\ made = FALSE /\ does = "push" /\ halt = FALSE /\ mtx = "free"
        /\ handlers = {} /\ interrupts = 0
        /\ life = [m \in Member |-> "none"] /\ thread = [t \in Thread |-> "none"]
    BY DEF Init
  <1>2. queue = <<>> /\ batch = <<>> /\ <<>> \in Seq({"widget", "empty"}) /\ Len(<<>>) = 0
        /\ Range(<<>>) = {}
    BY DEF Init, Range
  <1>3. life \in [Member -> {"none", "up", "dying", "gone"}] /\ \A m \in Member : life[m] = "none"
    BY <1>1
  <1>4. thread \in [Thread -> {"none", "loop", "the", "wait", "use", "ended"}]
        /\ \A t \in Thread : thread[t] = "none"
    BY <1>1
  <1>a. \A q \in {queue, batch} : Range(q) \subseteq {"widget", "empty"} /\ Len(q) <= MaxUpdates + 1
    BY <1>2, LifecycleAssumption
  <1>b. interrupts \in 0..MaxInterrupts
    BY <1>1, LifecycleAssumption
  <1>5. TypeOK
    BY <1>1, <1>a, <1>b, <1>3, <1>4 DEF TypeOK
  <1>6. "dm" \in Member
    BY OrderIs
  <1> QED
    BY <1>1, <1>2, <1>3, <1>4, <1>5, <1>6, LifecycleAssumption DEF LifeInv, Ordered, Threads, Bounded

\* What Bounded says of the two queues, of each.
LEMMA TypeParts ==
    ASSUME Bounded
    PROVE  \A q \in {queue, batch} : Range(q) \subseteq {"widget", "empty"} /\ Len(q) <= MaxUpdates + 1
  BY DEF Bounded, Range

\* Every thread belongs to a member.
LEMMA OwnerIs == \A t \in Thread : OwnerOf[t] \in Member
  BY OrderIs DEF Thread, OwnerOf

\* Steps of main() that neither make nor destroy.
LEMMA WaitingInv ==
    ASSUME LifeInv, Lock \/ Wait \/ Wake \/ MainReturns \/ (\E w \in {"main", "other"} : HandlerRuns(w) \/ Interrupt(w))
    PROVE  LifeInv'
  <1>1. UNCHANGED <<life, made, thread, does, queue, batch>>
    BY DEF Lock, Wait, Wake, MainReturns, HandlerRuns, Interrupt
  <1>2. /\ main' \in {"build", "unwind", "lock", "locked", "wait", "notified", "woken", "exit", "end"}
        /\ mtx' \in {"free", "main"} /\ (mtx' = "main" <=> main' \in {"locked", "woken"})
        /\ main \in {"unwind", "exit", "end"} => main' = main
    BY DEF LifeInv, TypeOK, Lock, Wait, Wake, MainReturns, HandlerRuns, Interrupt
  <1>3. halt' \in BOOLEAN
    BY DEF LifeInv, TypeOK, Lock, Wait, Wake, MainReturns, HandlerRuns, Interrupt
  <1>4. handlers' \subseteq {"main", "other"}
    BY DEF LifeInv, TypeOK, Lock, Wait, Wake, MainReturns, HandlerRuns, Interrupt
  <1>5. interrupts' \in 0..MaxInterrupts
    BY LifecycleAssumption DEF LifeInv, TypeOK, Lock, Wait, Wake, MainReturns, HandlerRuns, Interrupt
  <1>6. main' \notin {"unwind", "exit", "end"} => main \notin {"unwind", "exit", "end"}
    BY <1>2
  <1>7. Bounded' /\ Threads' /\ Ordered'
    BY <1>1, <1>6 DEF LifeInv, Bounded, Threads, Ordered, Range
  <1>8. TypeOK'
    BY <1>1, <1>2, <1>3, <1>4, <1>5 DEF LifeInv, TypeOK
  <1> QED
    BY <1>7, <1>8 DEF LifeInv

\* The invariant is kept while members are made, or fail to be ...
LEMMA MakingInv ==
    ASSUME LifeInv, TheMade \/ \E m \in Member : Construct(m) \/ ConstructThrows(m)
    PROVE  LifeInv'
  <1>0. TypeOK /\ Ordered /\ Threads /\ Bounded
    BY DEF LifeInv
  <1>1. CASE TheMade
    <2>1. main = "build" /\ Next1 = 0 /\ main' = "lock" /\ made' = TRUE
          /\ UNCHANGED <<life, thread, does, queue, batch, halt, mtx, handlers, interrupts>>
      BY <1>1 DEF TheMade
    <2>2. TypeOK'
      BY <1>0, <2>1 DEF TypeOK
    <2>3. Ordered' /\ Threads' /\ Bounded'
      BY <1>0, <2>1, NextMember DEF Ordered, Threads, Bounded, Range
    <2> QED
      BY <2>2, <2>3 DEF LifeInv
  <1>2. ASSUME NEW m \in Member, ConstructThrows(m) PROVE LifeInv'
    <2>1. main = "build" /\ main' = "unwind"
          /\ UNCHANGED <<life, made, thread, does, queue, batch, halt, mtx, handlers, interrupts>>
      BY <1>2 DEF ConstructThrows
    <2>2. TypeOK'
      BY <1>0, <2>1 DEF TypeOK
    <2>3. Ordered' /\ Threads' /\ Bounded'
      BY <1>0, <2>1 DEF Ordered, Threads, Bounded, Range
    <2> QED
      BY <2>2, <2>3 DEF LifeInv
  <1>3. ASSUME NEW m \in Member, Construct(m) PROVE LifeInv'
    <2>1. /\ main = "build" /\ Next1 # 0 /\ m = Order[Next1]
          /\ life' = [life EXCEPT ![m] = "up"]
          /\ thread' = [t \in Thread |-> IF OwnerOf[t] = m THEN "loop" ELSE thread[t]]
          /\ UNCHANGED <<main, made, does, queue, batch, halt, mtx, handlers, interrupts>>
      BY <1>3 DEF Construct
    <2>2. life[m] = "none" /\ \A n \in Member : Place[n] < Place[m] => life[n] # "none"
      BY <2>1, NextMember
    <2>3. life' \in [Member -> {"none", "up", "dying", "gone"}] /\ life'[m] = "up"
          /\ \A n \in Member \ {m} : life'[n] = life[n]
      BY <1>0, <2>1 DEF TypeOK
    <2>4. thread' \in [Thread -> {"none", "loop", "the", "wait", "use", "late", "read", "ended"}]
          /\ \A t \in Thread : thread'[t] = IF OwnerOf[t] = m THEN "loop" ELSE thread[t]
      BY <1>0, <2>1 DEF TypeOK
    <2>5. TypeOK'
      BY <1>0, <2>1, <2>3, <2>4 DEF TypeOK
    <2>6. \A n \in Member : life'[n] \in {"none", "up"}
      BY <1>0, <2>1, <2>3 DEF Ordered
    <2>7. \A n \in Member : Place[n] \in Int /\ (n # m => Place[n] # Place[m])
      BY OrderIs
    <2>8. Ordered'
      BY <1>0, <2>1, <2>2, <2>3, <2>6, <2>7 DEF Ordered
    <2>9. Threads'
      BY <1>0, <2>1, <2>3, <2>4, <2>6, OwnerIs DEF Threads, Range
    <2>10. Bounded'
      BY <1>0, <2>1, <2>3, <2>6, OrderIs DEF Bounded, Ordered
    <2> QED
      BY <2>5, <2>8, <2>9, <2>10 DEF LifeInv
  <1> QED
    BY <1>1, <1>2, <1>3

\* ... and while they are destroyed, in the reverse order,
LEMMA DestroyInv ==
    ASSUME LifeInv, MainEnds \/ \E m \in Member : BeginDestroy(m) \/ EndDestroy(m)
    PROVE  LifeInv'
  <1>0. TypeOK /\ Ordered /\ Threads /\ Bounded
    BY DEF LifeInv
  <1>a. \A n \in Member : Place[n] \in Int /\ \A m \in Member : n # m => Place[n] # Place[m]
    BY OrderIs
  <1>1. CASE MainEnds
    <2>1. main \in {"unwind", "exit"} /\ main' = "end"
          /\ UNCHANGED <<life, made, thread, does, queue, batch, halt, mtx, handlers, interrupts>>
      BY <1>1 DEF MainEnds
    <2>2. TypeOK'
      BY <1>0, <2>1 DEF TypeOK
    <2>3. Ordered' /\ Threads' /\ Bounded'
      BY <1>0, <2>1 DEF Ordered, Threads, Bounded, Range
    <2> QED
      BY <2>2, <2>3 DEF LifeInv
  <1>2. ASSUME NEW m \in Member, BeginDestroy(m) PROVE LifeInv'
    <2>1. /\ main \in {"unwind", "exit"} /\ Last1 # 0 /\ m = Order[Last1] /\ life[m] = "up"
          /\ life' = [life EXCEPT ![m] = "dying"]
          /\ queue' = IF m = "dm" THEN Append(queue, "empty") ELSE queue
          /\ UNCHANGED <<main, made, thread, does, batch, halt, mtx, handlers, interrupts>>
      BY <1>2 DEF BeginDestroy
    <2>2. \A n \in Member : Place[n] > Place[m] => life[n] \notin {"up", "dying"}
      BY <2>1, LastMember
    <2>3. life' \in [Member -> {"none", "up", "dying", "gone"}] /\ life'[m] = "dying"
          /\ \A n \in Member \ {m} : life'[n] = life[n]
      BY <1>0, <2>1 DEF TypeOK
    <2>4. \A n \in Member : life[n] \in {"none", "up", "dying", "gone"}
      BY <1>0 DEF TypeOK
    <2>5. Bounded' /\ ("widget" \in Range(queue') => "widget" \in Range(queue))
      <3>1. CASE m = "dm"
        <4>1. Len(queue) <= MaxUpdates /\ queue' = Append(queue, "empty") /\ life'["dm"] = "dying"
          BY <1>0, <2>1, <2>3, <3>1 DEF Bounded
        <4>2. queue \in Seq({"widget", "empty"}) /\ Len(queue) \in Nat
          BY <1>0 DEF Bounded
        <4>3. /\ queue' \in Seq({"widget", "empty"}) /\ Len(queue') = Len(queue) + 1
              /\ DOMAIN queue' = 1..Len(queue)+1 /\ DOMAIN queue = 1..Len(queue)
              /\ queue'[Len(queue)+1] = "empty" /\ \A i \in 1..Len(queue) : queue'[i] = queue[i]
          BY <4>1, <4>2
        <4>4. "widget" \in Range(queue') => "widget" \in Range(queue)
          BY <4>2, <4>3 DEF Range
        <4> QED
          BY <1>0, <2>1, <4>1, <4>2, <4>3, <4>4, LifecycleAssumption DEF Bounded
      <3>2. CASE m # "dm"
        BY <1>0, <2>1, <2>3, <3>2, OrderIs DEF Bounded
      <3> QED
        BY <3>1, <3>2
    <2>6. TypeOK'
      <3>1. \A q \in {queue', batch'} : Range(q) \subseteq {"widget", "empty"} /\ Len(q) <= MaxUpdates + 1
        BY <2>5 DEF Bounded, Range
      <3> QED
        BY <1>0, <2>1, <2>3, <3>1 DEF TypeOK
    <2>7. Ordered'
      <3>1. ASSUME NEW n \in Member, NEW k \in Member, Place[n] < Place[k]
            PROVE  /\ life'[n] = "none" => life'[k] = "none"
                   /\ life'[n] \in {"dying", "gone"} => life'[k] \in {"none", "gone"}
        <4>1. /\ life[n] = "none" => life[k] = "none"
              /\ life[n] \in {"dying", "gone"} => life[k] \in {"none", "gone"}
          BY <1>0, <3>1 DEF Ordered
        <4>2. n # k
          BY <1>a, <3>1
        <4> QED
          BY <2>1, <2>2, <2>3, <2>4, <3>1, <4>1, <4>2, <1>a
      <3>2. main' \in {"unwind", "exit"}
        BY <2>1
      <3>3. made' => \A n \in Member : life'[n] # "none"
        BY <1>0, <2>1, <2>3 DEF Ordered
      <3> QED
        BY <3>1, <3>2, <3>3 DEF Ordered
    <2>8. Threads'
      BY <1>0, <2>1, <2>3, <2>5, OwnerIs DEF Threads, Range
    <2> QED
      BY <2>5, <2>6, <2>7, <2>8 DEF LifeInv
  <1>3. ASSUME NEW m \in Member, EndDestroy(m) PROVE LifeInv'
    <2>1. /\ main \in {"unwind", "exit"} /\ life[m] = "dying"
          /\ \A t \in Thread : OwnerOf[t] = m => thread[t] \in {"none", "ended"}
          /\ life' = [life EXCEPT ![m] = "gone"]
          /\ UNCHANGED <<main, made, thread, does, queue, batch, halt, mtx, handlers, interrupts>>
      BY <1>3 DEF EndDestroy
    <2>2. life' \in [Member -> {"none", "up", "dying", "gone"}] /\ life'[m] = "gone"
          /\ \A n \in Member \ {m} : life'[n] = life[n]
      BY <1>0, <2>1 DEF TypeOK
    <2>3. TypeOK'
      BY <1>0, <2>1, <2>2 DEF TypeOK
    <2>4. Ordered'
      BY <1>0, <2>1, <2>2 DEF Ordered
    <2>5. Threads'
      BY <1>0, <2>1, <2>2, OwnerIs DEF Threads, Range
    <2>6. Bounded'
      BY <1>0, <2>1, <2>2, OrderIs DEF Bounded
    <2> QED
      BY <2>3, <2>4, <2>5, <2>6 DEF LifeInv
  <1> QED
    BY <1>1, <1>2, <1>3

\* Whatever a thread does with the queue, it goes on while its member lives.
LEMMA ThreadInv ==
    ASSUME LifeInv, NEW t \in Thread, NEW to \in {"loop", "the", "wait", "use", "late", "read", "ended"},
           UNCHANGED <<main, life, made, halt, mtx, handlers, interrupts>>,
           thread[t] \notin {"none", "ended"}, thread' = [thread EXCEPT ![t] = to],
           to = "use" /\ t # "display" => made,
           does' \in {"push", "leave"}, Bounded',
           "widget" \in Range(queue') \cup Range(batch') => made
    PROVE  LifeInv'
  <1>0. TypeOK /\ Ordered /\ Threads
    BY DEF LifeInv
  <1>1. thread' \in [Thread -> {"none", "loop", "the", "wait", "use", "late", "read", "ended"}]
        /\ thread'[t] = to
        /\ \A u \in Thread \ {t} : thread'[u] = thread[u]
    BY <1>0 DEF TypeOK
  <1>2. life[OwnerOf[t]] \notin {"none", "gone"}
    BY <1>0 DEF Threads
  <1>3. \A q \in {queue', batch'} : Range(q) \subseteq {"widget", "empty"} /\ Len(q) <= MaxUpdates + 1
    BY DEF Bounded, Range
  <1>4. TypeOK'
    BY <1>0, <1>1, <1>3 DEF TypeOK
  <1>5. Ordered'
    BY <1>0 DEF Ordered
  <1>6. Threads'
    BY <1>0, <1>1, <1>2 DEF Threads, Range
  <1> QED
    BY <1>4, <1>5, <1>6 DEF LifeInv

\* A queue with one more update in it.
LEMMA WidgetsAppended ==
    ASSUME NEW S, NEW q \in Seq(S), NEW e \in S
    PROVE  Append(q, e) \in Seq(S) /\ Len(Append(q, e)) = Len(q) + 1 /\ Len(q) \in Nat
  OBVIOUS

\* What a thread does that waits for somebody outside.
WaitsOutside == ClientIsLate \/ PeerMoves \/ InputBlocks \/ DeviceMoves

\* and by what the threads do meanwhile.
LEMMA MovesInv ==
    ASSUME LifeInv, NEW t \in Thread, Moves(t) \/ ClientPushes \/ WaitsOutside
    PROVE  LifeInv'
  <1>0. TypeOK /\ Ordered /\ Threads /\ Bounded
    BY DEF LifeInv
  <1>a. /\ does \in {"push", "leave"} /\ "client" \in Thread /\ "display" \in Thread
        /\ made \in BOOLEAN
    BY <1>0 DEF TypeOK, Thread
  <1>b. UNCHANGED <<life, queue, batch>> => Bounded'
    BY <1>0 DEF Bounded
  <1>1. CASE TestRunning(t)
    <2>1. PICK to \in {"the", "ended", "wait"} : Goes(t, "loop", to)
      BY <1>1 DEF TestRunning
    <2>2. UNCHANGED <<main, life, made, queue, batch, halt, mtx, handlers, interrupts>>
          /\ does' \in {"push", "leave"}
      BY <1>1, <1>a DEF TestRunning
    <2> QED
      BY <1>0, <1>b, <2>1, <2>2, ThreadInv DEF Goes, Threads
  <1>2. CASE TheReturns(t)
    <2>1. made /\ Goes(t, "the", "use")
          /\ UNCHANGED <<main, life, made, does, queue, batch, halt, mtx, handlers, interrupts>>
      BY <1>2 DEF TheReturns
    <2> QED
      BY <1>0, <1>a, <1>b, <2>1, ThreadInv DEF Goes, Threads
  <1>3. CASE Used(t)
    <2>1. Goes(t, "use", "loop")
          /\ UNCHANGED <<main, life, made, does, queue, batch, halt, mtx, handlers, interrupts>>
      BY <1>3 DEF Used
    <2> QED
      BY <1>0, <1>a, <1>b, <2>1, ThreadInv DEF Goes, Threads
  <1>4. CASE ClientUsed \/ ClientLeaves
    <2>1. PICK to \in {"loop", "ended"} : Goes("client", "use", to)
      BY <1>4 DEF ClientUsed, ClientLeaves
    <2>2. UNCHANGED <<main, life, made, does, queue, batch, halt, mtx, handlers, interrupts>>
      BY <1>4 DEF ClientUsed, ClientLeaves
    <2> QED
      BY <1>0, <1>a, <1>b, <2>1, <2>2, ThreadInv DEF Goes, Threads
  <1>5. CASE ClientPushes
    <2>1. /\ Len(queue) < MaxUpdates /\ Goes("client", "use", "loop") /\ queue' = Append(queue, "widget")
          /\ UNCHANGED <<main, life, made, does, batch, halt, mtx, handlers, interrupts>>
      BY <1>5 DEF ClientPushes
    <2>2. queue \in Seq({"widget", "empty"})
      BY <1>0 DEF Bounded
    <2>3. queue' \in Seq({"widget", "empty"}) /\ Len(queue') = Len(queue) + 1 /\ Len(queue) \in Nat
      BY <2>1, <2>2, WidgetsAppended
    <2>4. Bounded'
      BY <1>0, <2>1, <2>3, LifecycleAssumption DEF Bounded
    <2>5. made
      BY <1>0, <1>a, <2>1 DEF Goes, Threads
    <2> QED
      BY <1>a, <2>1, <2>4, <2>5, ThreadInv DEF Goes
  <1>6. CASE PopUpdates
    <2>1. /\ Goes("display", "wait", "use") /\ batch' = queue /\ queue' = <<>>
          /\ UNCHANGED <<main, life, made, does, halt, mtx, handlers, interrupts>>
      BY <1>6 DEF PopUpdates
    <2>2. <<>> \in Seq({"widget", "empty"}) /\ Len(<<>>) = 0 /\ Range(<<>>) = {}
      BY DEF Range
    <2>3. Bounded'
      BY <1>0, <2>1, <2>2, LifecycleAssumption DEF Bounded
    <2> QED
      BY <1>0, <1>a, <2>1, <2>2, <2>3, ThreadInv DEF Goes, Threads
  <1>7. CASE RunUpdate
    <2>1. batch # <<>> /\ batch' = Tail(batch)
          /\ UNCHANGED <<main, life, made, thread, does, queue, halt, mtx, handlers, interrupts>>
      BY <1>7 DEF RunUpdate
    <2>2. batch \in Seq({"widget", "empty"})
      BY <1>0 DEF Bounded
    <2>3. batch' \in Seq({"widget", "empty"}) /\ Len(batch') = Len(batch) - 1 /\ Len(batch) \in Nat
          /\ \A i \in DOMAIN batch' : i + 1 \in DOMAIN batch /\ batch'[i] = batch[i+1]
      BY <2>1, <2>2
    <2>4. Range(batch') \subseteq Range(batch)
      BY <2>3 DEF Range
    <2>5. Bounded'
      BY <1>0, <2>1, <2>3, LifecycleAssumption DEF Bounded
    <2>6. \A q \in {queue', batch'} : Range(q) \subseteq {"widget", "empty"} /\ Len(q) <= MaxUpdates + 1
      BY <2>5 DEF Bounded, Range
    <2>7. TypeOK'
      BY <1>0, <2>1, <2>6 DEF TypeOK
    <2>8. Ordered'
      BY <1>0, <2>1 DEF Ordered
    <2>9. Threads'
      BY <1>0, <2>1, <2>4 DEF Threads, Range
    <2> QED
      BY <2>5, <2>7, <2>8, <2>9 DEF LifeInv
  <1>8. CASE Apply
    <2>1. Goes("display", "use", "loop")
          /\ UNCHANGED <<main, life, made, does, queue, batch, halt, mtx, handlers, interrupts>>
      BY <1>8 DEF Apply
    <2> QED
      BY <1>0, <1>a, <1>b, <2>1, ThreadInv DEF Goes, Threads
  <1>9. CASE WaitsOutside
    <2>1. PICK u \in {"client", "input"}, from \in {"loop", "late", "read"},
               to \in {"late", "the", "read", "loop"} : Goes(u, from, to)
      BY <1>9 DEF WaitsOutside, ClientIsLate, PeerMoves, InputBlocks, DeviceMoves
    <2>2. UNCHANGED <<main, life, made, queue, batch, halt, mtx, handlers, interrupts>>
          /\ does' \in {"push", "leave"}
      BY <1>9, <1>a DEF WaitsOutside, ClientIsLate, PeerMoves, InputBlocks, DeviceMoves
    <2>3. u \in Thread
      BY DEF Thread
    <2> QED
      BY <1>0, <1>b, <2>1, <2>2, <2>3, ThreadInv DEF Goes, Threads
  <1> QED
    BY <1>1, <1>2, <1>3, <1>4, <1>5, <1>6, <1>7, <1>8, <1>9 DEF Moves

\* The invariant is enough: what a thread uses is there.
LEMMA LifeUses == LifeInv => UsesWhatIsThere
  <1> SUFFICES ASSUME LifeInv, NEW t \in Thread, NEW m \in Using(t)
               PROVE  \/ life[m] \in {"up", "dying"}
                      \/ life[m] = "gone" /\ <<t, m>> \in {<<"detector", "ih">>, <<"display", "cl">>}
    BY DEF UsesWhatIsThere, LifeInv
  <1>0. \A n \in Member : life[n] \in {"none", "up", "dying", "gone"}
    BY DEF LifeInv, TypeOK
  <1>t. t \in {"detector", "display", "client", "input"} /\ m \in Using(t)
    BY DEF Thread
  <1>1. thread[t] = "use" /\ (t # "display" => made)
    <2>1. thread[t] = "use"
      BY <1>t DEF Using
    <2> QED
      BY <2>1 DEF LifeInv, Threads
  <1>2. life[OwnerOf[t]] \in {"up", "dying"} /\ OwnerOf[t] \in Member
    BY <1>0, <1>1, OwnerIs DEF LifeInv, Threads
  <1>3. made => \A n \in Member : life[n] # "none"
    BY DEF LifeInv, Ordered
  <1>4. \A n \in Member : Place[n] < Place[OwnerOf[t]] => life[n] = "up"
    BY <1>0, <1>2 DEF LifeInv, Ordered
  <1>5. CASE t = "detector"
    BY <1>0, <1>1, <1>3, <1>5, OrderIs DEF Using
  <1>6. CASE t = "input"
    <2>1. m \in {"ed", "dm", "cl"} /\ OwnerOf[t] = "ih"
      BY <1>1, <1>6 DEF Using, OwnerOf
    <2> QED
      BY <1>4, <2>1, OrderIs DEF Place
  <1>7. CASE t = "client"
    <2>1. m \in {"dm", "cl"} /\ OwnerOf[t] = "cl"
      BY <1>1, <1>7 DEF Using, OwnerOf
    <2> QED
      BY <1>2, <1>4, <2>1, OrderIs DEF Place
  <1>8. CASE t = "display"
    <2>1. OwnerOf[t] = "dm" /\ (m = "dm" \/ (m = "cl" /\ batch # <<>> /\ Head(batch) = "widget"))
      <3>1. m \in IF batch # <<>> /\ Head(batch) = "widget" THEN {"dm", "cl"} ELSE {"dm"}
        BY <1>1, <1>8 DEF Using
      <3>2. m = "dm" \/ (m = "cl" /\ batch # <<>> /\ Head(batch) = "widget")
        <4>1. CASE batch # <<>> /\ Head(batch) = "widget"
          <5>1. m \in {"dm", "cl"}
            BY <3>1, <4>1
          <5> QED
            BY <4>1, <5>1
        <4>2. CASE ~(batch # <<>> /\ Head(batch) = "widget")
          <5>1. m \in {"dm"}
            BY <3>1, <4>2
          <5> QED
            BY <5>1
        <4> QED
          BY <4>1, <4>2
      <3>3. OwnerOf[t] = "dm"
        BY <1>8 DEF OwnerOf
      <3> QED
        BY <3>2, <3>3
    <2>2. batch # <<>> => Head(batch) \in Range(batch)
      BY DEF LifeInv, Bounded, Range
    <2>3. m = "cl" => made
      BY <2>1, <2>2 DEF LifeInv, Threads
    <2> QED
      BY <1>0, <1>2, <1>3, <1>8, <2>1, <2>3, OrderIs
  <1> QED
    BY <1>5, <1>6, <1>7, <1>8 DEF Thread

\* From the first member made to the last one destroyed, also when a constructor
\* throws: a thread uses no member that is not yet there, and one that is gone
\* only in the two cases that UsesWhatIsThere names.
THEOREM AlwaysUsesWhatIsThere == Spec => []UsesWhatIsThere
  <1>1. LifeInv /\ [Next]_vars => LifeInv'
    <2> SUFFICES ASSUME LifeInv, [Next]_vars PROVE LifeInv'
      OBVIOUS
    <2>1. CASE UNCHANGED vars
      BY <2>1 DEF vars, LifeInv, TypeOK, Ordered, Threads, Bounded, Range
    <2>2. CASE Main
      BY <2>2, WaitingInv, MakingInv, DestroyInv DEF Main
    <2>3. CASE Handler
      BY <2>3, WaitingInv DEF Handler
    <2>4. CASE (\E t \in Thread : Moves(t)) \/ ClientPushes \/ WaitsOutside
      <3>1. "client" \in Thread
        BY DEF Thread
      <3> QED
        BY <2>4, <3>1, MovesInv
    <2>5. CASE \E m \in Member : ConstructThrows(m)
      BY <2>5, MakingInv
    <2>6. CASE \E w \in {"main", "other"} : Interrupt(w)
      BY <2>6, WaitingInv
    <2> QED
      BY <2>1, <2>2, <2>3, <2>4, <2>5, <2>6 DEF Next, WaitsOutside
  <1> QED
    BY <1>1, LifeInit, LifeUses, PTL DEF Spec

-----------------------------------------------------------------------------
(* InputDevices: what std::remove_if and erase leave of the descriptors polled *)

\* Induction over the numbers, for a set of them.
LEMMA SetInduction ==
    ASSUME NEW S, 0 \in S, \A n \in Nat : n \in S => n + 1 \in S
    PROVE  Nat \subseteq S
  <1> DEFINE R == OpToRel(<, Nat)
             T == Nat \ S
  <1>1. SUFFICES ASSUME T # {} PROVE FALSE
    OBVIOUS
  <1>2. IsWellFoundedOn(R, Nat)
    BY NatLessThanWellFounded
  <1>3. PICK x \in T : \A y \in T : <<y, x>> \notin R
    <2>1. T \subseteq Nat
      OBVIOUS
    <2> HIDE DEF R, T
    <2> QED
      BY <1>1, <1>2, <2>1, WFMin
  <1>4. ASSUME NEW m \in Nat, NEW n \in Nat, m < n PROVE <<m, n>> \in R
    BY <1>4 DEF OpToRel
  <1> HIDE DEF R
  <1>5. x \in Nat /\ x \notin S /\ x # 0
    OBVIOUS
  <1>6. x - 1 \in Nat /\ x - 1 < x
    BY <1>5
  <1>7. x - 1 \in S
    BY <1>3, <1>4, <1>5, <1>6
  <1> QED
    BY <1>5, <1>6, <1>7

\* f starts with a and goes on by g, up to n.
Follows(f, a, g, n) == f[0] = a /\ \A k \in 1..n : f[k] = g[<<f[k-1], k>>]

\* A function defined from each number to the next exists, up to n.
LEMMA RecursionExists ==
    ASSUME NEW S, NEW a \in S, NEW n \in Nat, NEW g \in [S \X (1..n) -> S]
    PROVE  \E f \in [0..n -> S] : Follows(f, a, g, n)
  <1> DEFINE I == {m \in Nat : m <= n => \E f \in [0..m -> S] : Follows(f, a, g, m)}
  <1>1. 0 \in I
    <2>1. [k \in 0..0 |-> a] \in [0..0 -> S] /\ [k \in 0..0 |-> a][0] = a /\ 1..0 = {}
      OBVIOUS
    <2> QED
      BY <2>1 DEF Follows
  <1>2. ASSUME NEW m \in Nat, m \in I PROVE m + 1 \in I
    <2> SUFFICES ASSUME m + 1 <= n
                 PROVE  \E f \in [0..m+1 -> S] : Follows(f, a, g, m+1)
      OBVIOUS
    <2>1. PICK f \in [0..m -> S] : Follows(f, a, g, m)
      BY <1>2
    <2> DEFINE last == g[<<f[m], m+1>>]
               h == [k \in 0..m+1 |-> IF k = m + 1 THEN last ELSE f[k]]
    <2>2. last \in S
      <3>1. <<f[m], m+1>> \in S \X (1..n)
        OBVIOUS
      <3>2. \A x \in S \X (1..n) : g[x] \in S
        OBVIOUS
      <3> QED
        BY <3>1, <3>2
    <2>3. h \in [0..m+1 -> S]
      BY <2>2
    <2>4. h[0] = a
      BY <2>1 DEF Follows
    <2>5. ASSUME NEW k \in 1..m+1 PROVE h[k] = g[<<h[k-1], k>>]
      <3>1. CASE k = m + 1
        <4>1. h[m + 1] = g[<<f[m], m + 1>>] /\ h[m] = f[m] /\ (m + 1) - 1 = m
          OBVIOUS
        <4> HIDE DEF h
        <4> QED
          BY <3>1, <4>1
      <3>2. CASE k \in 1..m
        <4>1. h[k] = f[k] /\ h[k-1] = f[k-1]
          BY <3>2
        <4> HIDE DEF h
        <4> QED
          BY <2>1, <3>2, <4>1 DEF Follows
      <3> QED
        BY <3>1, <3>2
    <2> HIDE DEF h
    <2> QED
      BY <2>3, <2>4, <2>5 DEF Follows
  <1> HIDE DEF I
  <1>3. n \in I
    BY <1>1, <1>2, SetInduction
  <1> QED
    BY <1>3 DEF I

\* What the recursion in Without(e) computes, up to i.
KeptUpTo(f, e, n) ==
    /\ f[0] = <<>>
    /\ \A i \in 1..n : f[i] = IF pollFds[i] = e THEN f[i-1] ELSE Append(f[i-1], pollFds[i])

\* Kept is what its definition says, element after element.
LEMMA KeptIs ==
    ASSUME pollFds \in Seq(Fds), NEW e
    PROVE  KeptUpTo(Kept(e), e, Len(pollFds))
  <1> DEFINE n == Len(pollFds)
             P(f) == f = [i \in 0..n |-> IF i = 0 THEN <<>>
                                         ELSE IF pollFds[i] = e THEN f[i-1]
                                         ELSE Append(f[i-1], pollFds[i])]
             g == [y \in Seq(Fds) \X (1..n) |->
                      IF pollFds[y[2]] = e THEN y[1] ELSE Append(y[1], pollFds[y[2]])]
  <1>1. n \in Nat /\ g \in [Seq(Fds) \X (1..n) -> Seq(Fds)] /\ <<>> \in Seq(Fds)
    OBVIOUS
  <1>2. PICK f \in [0..n -> Seq(Fds)] : Follows(f, <<>>, g, n)
    <2> HIDE DEF g, n
    <2> QED
      BY <1>1, RecursionExists
  <1>3. KeptUpTo(f, e, n)
    <2>1. ASSUME NEW i \in 1..n
          PROVE f[i] = IF pollFds[i] = e THEN f[i-1] ELSE Append(f[i-1], pollFds[i])
      <3>1. f[i] = g[<<f[i-1], i>>]
        <4> HIDE DEF g
        <4> QED
          BY <1>2 DEF Follows
      <3>2. f[i-1] \in Seq(Fds)
        OBVIOUS
      <3> QED
        BY <3>1, <3>2
    <2> QED
      BY <1>2, <2>1 DEF Follows, KeptUpTo
  <1>4. P(f)
    <2>1. ASSUME NEW i \in 0..n
          PROVE f[i] = IF i = 0 THEN <<>> ELSE IF pollFds[i] = e THEN f[i-1]
                       ELSE Append(f[i-1], pollFds[i])
      <3>1. CASE i = 0
        BY <1>3, <3>1 DEF KeptUpTo
      <3>2. CASE i \in 1..n
        BY <1>3, <3>2 DEF KeptUpTo
      <3> QED
        BY <3>1, <3>2
    <2>2. f = [i \in 0..n |-> f[i]]
      OBVIOUS
    <2> QED
      BY <2>1, <2>2
  <1>5. P(Kept(e))
    <2>1. Kept(e) = CHOOSE f_1 : P(f_1)
      BY DEF Kept
    <2> HIDE DEF P
    <2> QED
      BY <1>4, <2>1
  <1>6. Kept(e)[0] = <<>>
    BY <1>1, <1>5
  <1>7. ASSUME NEW i \in 1..n
        PROVE Kept(e)[i] = IF pollFds[i] = e THEN Kept(e)[i-1] ELSE Append(Kept(e)[i-1], pollFds[i])
    <2>1. i \in 0..n /\ i # 0
      BY <1>1
    <2> QED
      BY <1>5, <2>1
  <1> QED
    BY <1>6, <1>7 DEF KeptUpTo

\* Taking e out of the descriptors takes just e out, and leaves them distinct.
LEMMA WithoutIs ==
    ASSUME pollFds \in Seq(Fds), IsInjective(pollFds), NEW e
    PROVE  Without(e) \in Seq(Fds) /\ IsInjective(Without(e)) /\ ToSet(Without(e)) = ToSet(pollFds) \ {e}
  <1> DEFINE n == Len(pollFds)
             k == Kept(e)
             Upto(m) == {pollFds[j] : j \in 1..m}
             Good(t, m) == t \in Seq(Fds) /\ IsInjective(t) /\ ToSet(t) = Upto(m) \ {e}
             S == {m \in Nat : m <= n => Good(k[m], m)}
  <1>1. k[0] = <<>> /\ \A i \in 1..n : k[i] = IF pollFds[i] = e THEN k[i-1] ELSE Append(k[i-1], pollFds[i])
    BY KeptIs DEF KeptUpTo
  <1>2. n \in Nat /\ \A i \in 1..n : pollFds[i] \in Fds
    OBVIOUS
  <1>3. \A i, j \in 1..n : pollFds[i] = pollFds[j] => i = j
    BY DEF IsInjective
  <1> HIDE DEF n, k
  <1>4. 0 \in S
    <2>1. <<>> \in Seq(Fds) /\ DOMAIN <<>> = {}
      OBVIOUS
    <2>2. Good(<<>>, 0)
      BY <2>1 DEF IsInjective, ToSet
    <2> HIDE DEF Good
    <2> QED
      BY <1>1, <1>2, <2>2
  <1>5. ASSUME NEW m \in Nat, m \in S PROVE m + 1 \in S
    <2> SUFFICES ASSUME m + 1 <= n PROVE Good(k[m+1], m+1)
      OBVIOUS
    <2> DEFINE v == pollFds[m+1]
               t == k[m]
               u == Append(t, v)
    <2>1. Good(t, m) /\ m + 1 \in 1..n /\ (m + 1) - 1 = m
      BY <1>2, <1>5
    <2>2. Upto(m+1) = Upto(m) \cup {v}
      <3>1. 1..m+1 = (1..m) \cup {m+1}
        OBVIOUS
      <3> QED
        BY <3>1
    <2>3. CASE v = e
      <3>1. k[m+1] = t
        BY <1>1, <2>1, <2>3
      <3> HIDE DEF Upto, v, t
      <3> QED
        BY <2>1, <2>2, <2>3, <3>1
    <2>4. CASE v # e
      <3>1. k[m+1] = u
        BY <1>1, <2>1, <2>4
      <3>2. v \notin Upto(m)
        BY <1>2, <1>3, <2>1
      <3>3. v \in Fds
        BY <1>2, <2>1
      <3>4. t \in Seq(Fds) /\ IsInjective(t) /\ ToSet(t) = Upto(m) \ {e}
        BY <2>1
      <3> HIDE DEF v, t, Upto
      <3>5. /\ u \in Seq(Fds) /\ DOMAIN u = 1..Len(t)+1 /\ DOMAIN t = 1..Len(t) /\ Len(t) \in Nat
            /\ u[Len(t)+1] = v /\ \A i \in 1..Len(t) : u[i] = t[i]
        BY <3>3, <3>4
      <3> HIDE DEF u
      <3>6. v \notin ToSet(t)
        BY <3>2, <3>4
      <3>7. IsInjective(u)
        BY <3>4, <3>5, <3>6 DEF IsInjective, ToSet
      <3>8. ToSet(u) = ToSet(t) \cup {v}
        BY <3>5 DEF ToSet
      <3>9. ToSet(u) = Upto(m+1) \ {e}
        BY <2>2, <2>4, <3>4, <3>8
      <3> QED
        BY <3>1, <3>5, <3>7, <3>9
    <2> QED
      BY <2>3, <2>4
  <1> HIDE DEF S
  <1>6. n \in S
    BY <1>2, <1>4, <1>5, SetInduction
  <1>7. Upto(n) = ToSet(pollFds)
    BY DEF n, ToSet
  <1> QED
    BY <1>2, <1>6, <1>7 DEF S, Without, n, k

\* What is left is shorter, or it is what it was and e was not in it.
LEMMA WithoutLess ==
    ASSUME pollFds \in Seq(Fds), NEW e
    PROVE  /\ Len(Without(e)) \in Nat /\ Len(Without(e)) <= Len(pollFds)
           /\ Len(Without(e)) = Len(pollFds) => Without(e) = pollFds /\ e \notin ToSet(pollFds)
  <1> DEFINE n == Len(pollFds)
             k == Kept(e)
             Same(t, m) == \A j \in 1..m : t[j] = pollFds[j] /\ pollFds[j] # e
             Less(t, m) == t \in Seq(Fds) /\ Len(t) <= m /\ (Len(t) = m => Same(t, m))
             S == {m \in Nat : m <= n => Less(k[m], m)}
  <1>1. k[0] = <<>> /\ \A i \in 1..n : k[i] = IF pollFds[i] = e THEN k[i-1] ELSE Append(k[i-1], pollFds[i])
    BY KeptIs DEF KeptUpTo
  <1>2. n \in Nat /\ \A i \in 1..n : pollFds[i] \in Fds
    OBVIOUS
  <1> HIDE DEF n, k
  <1>3. 0 \in S
    <2>1. <<>> \in Seq(Fds) /\ Len(<<>>) = 0
      OBVIOUS
    <2>2. Less(<<>>, 0)
      BY <2>1
    <2> HIDE DEF Less
    <2> QED
      BY <1>1, <1>2, <2>2
  <1>4. ASSUME NEW m \in Nat, m \in S PROVE m + 1 \in S
    <2> SUFFICES ASSUME m + 1 <= n PROVE Less(k[m+1], m+1)
      OBVIOUS
    <2> DEFINE v == pollFds[m+1]
               t == k[m]
               u == Append(t, v)
    <2>1. Less(t, m) /\ m + 1 \in 1..n /\ (m + 1) - 1 = m /\ v \in Fds
      BY <1>2, <1>4
    <2>2. CASE v = e
      <3>1. k[m+1] = t
        BY <1>1, <2>1, <2>2
      <3>2. t \in Seq(Fds) /\ Len(t) <= m /\ Len(t) \in Nat
        BY <2>1
      <3> HIDE DEF v, t
      <3> QED
        BY <3>1, <3>2
    <2>3. CASE v # e
      <3>1. k[m+1] = u
        BY <1>1, <2>1, <2>3
      <3>2. t \in Seq(Fds) /\ Len(t) <= m /\ Len(t) \in Nat /\ (Len(t) = m => Same(t, m))
        BY <2>1
      <3>3. u \in Seq(Fds) /\ Len(u) = Len(t) + 1 /\ u[Len(t)+1] = v /\ \A j \in 1..Len(t) : u[j] = t[j]
        <4> HIDE DEF t, v
        <4> QED
          BY <2>1, <3>2
      <3> HIDE DEF u, t
      <3>4. Len(u) = m + 1 => Same(u, m+1)
        <4> SUFFICES ASSUME Len(u) = m + 1, NEW j \in 1..m+1 PROVE u[j] = pollFds[j] /\ pollFds[j] # e
          OBVIOUS
        <4>1. Len(t) = m
          BY <3>2, <3>3
        <4>2. CASE j = m + 1
          BY <2>3, <3>3, <4>1, <4>2
        <4>3. CASE j \in 1..m
          BY <3>2, <3>3, <4>1, <4>3
        <4> QED
          BY <4>2, <4>3
      <3>5. Len(u) <= m + 1
        BY <3>2, <3>3
      <3> HIDE DEF Same
      <3> QED
        BY <3>1, <3>3, <3>4, <3>5
    <2> QED
      BY <2>2, <2>3
  <1> HIDE DEF S
  <1>5. n \in S
    BY <1>2, <1>3, <1>4, SetInduction
  <1>6. Less(k[n], n)
    BY <1>2, <1>5 DEF S
  <1>7. Len(k[n]) = n => k[n] = pollFds /\ e \notin ToSet(pollFds)
    BY <1>6 DEF n, ToSet
  <1> QED
    BY <1>2, <1>6, <1>7 DEF Without, n, k

-----------------------------------------------------------------------------
(* InputDevices: the three tables of the input handler *)

\* What a descriptor was opened for, and where.
Owner(f) == object[f][1]
FileOf(f) == object[f][2]

\* The descriptors registered, but for the one that is being removed.
Standing == IF dpc = "erase" THEN fdDevs \ {fd} ELSE fdDevs

\* A name that no device has, or that a mouse and a keyboard share.
Free(d) == uidFds[NameOf(d)] = NoFd \/ NameOf(d) \in shared

\* What the device being removed or added is in, and what not.
Tables ==
    /\ IsInjective(pollFds)
    /\ ToSet(pollFds) = IF dpc = "register" THEN fdDevs \cup {fd} ELSE Standing
    /\ \A f \in fdDevs : object[f] \in Device \X Path
    /\ dpc \in {"poll", "register"} => fd \in Fds \ fdDevs /\ object[fd] \in Device \X Path

\* Names and devices, where no name is shared.
Names ==
    /\ \A u \in Uid : uidFds[u] # NoFd => uidFds[u] \in Standing /\ NameOf(Owner(uidFds[u])) = u
    /\ \A f \in Standing : uidFds[NameOf(Owner(f))] = f \/ NameOf(Owner(f)) \in shared

\* What is attached was found where it was opened, the last time or before; what
\* is to be attached has been found, and its name is free.
Attached ==
    \A f \in Standing :
        \/ NameOf(Owner(f)) \in shared
        \/ dpc = "scan" /\ known[Owner(f)] = FileOf(f)
        \/ dpc # "scan" /\ (Owner(f) \in gone \/ scanned[Owner(f)] = FileOf(f))
Fresh ==
    /\ dpc # "scan" => \A d \in fresh : scanned[d] # None /\ Free(d)
    /\ dpc # "scan" =>
          \A d, e \in fresh : NameOf(d) = NameOf(e) => d = e \/ NameOf(d) \in shared
    /\ dpc \in {"poll", "register"} =>
          /\ Free(Owner(fd)) /\ scanned[Owner(fd)] = FileOf(fd)
          /\ \A e \in fresh : NameOf(e) = NameOf(Owner(fd)) => NameOf(e) \in shared

InputInv == InputsTypeOK /\ Tables /\ Names /\ Attached /\ Fresh

\* A name is that of a mouse and of a keyboard.
LEMMA TwoOfAName ==
    /\ \A d \in Device : NameOf(d) \in Uid
    /\ \A d, e, c \in Device : d # e /\ NameOf(d) = NameOf(e) /\ NameOf(c) = NameOf(d) => c \in {d, e}
  BY DEF Device, NameOf

\* The lowest descriptor is one of those that are free.
LEMMA FdIsFree ==
    ASSUME Fds \ fdDevs # {}
    PROVE  Min(Fds \ fdDevs) \in Fds \ fdDevs
  <1> DEFINE T == Fds \ fdDevs
  <1>1. T # {} /\ T \subseteq Nat
    BY InputAssumption
  <1>2. PICK x \in T : \A y \in T : <<y, x>> \notin OpToRel(<, Nat)
    <2> HIDE DEF T
    <2> QED
      BY <1>1, NatLessThanWellFounded, WFMin
  <1>3. ASSUME NEW m \in Nat, NEW n \in Nat, m < n PROVE <<m, n>> \in OpToRel(<, Nat)
    BY <1>3 DEF OpToRel
  <1> HIDE DEF T
  <1>4. ASSUME NEW y \in T PROVE x <= y
    <2>1. x \in Nat /\ y \in Nat /\ ~(y < x)
      BY <1>1, <1>2, <1>3
    <2> QED
      BY <2>1
  <1>5. Min(T) \in T
    BY <1>2, <1>4 DEF Min
  <1> QED
    BY <1>5 DEF T

LEMMA NoFdIsNone == NoFd \notin Fds
  BY InputAssumption DEF NoFd

\* No device is attached at the beginning.
LEMMA InputInit == InputsInit => InputInv
  <1> SUFFICES ASSUME InputsInit PROVE InputInv
    OBVIOUS
  <1> USE DEF InputsInit
  <1>1. pollFds = <<>> /\ loopFds = <<>> /\ <<>> \in Seq(Fds) /\ Len(<<>>) = 0
    OBVIOUS
  <1>2. ToSet(pollFds) = {} /\ IsInjective(pollFds)
    BY <1>1 DEF ToSet, IsInjective
  <1>3. plugged \in [Device -> Path \cup {None}]
    BY DEF Worlds
  <1>4. /\ known \in [Device -> Path \cup {None}]
        /\ scanned \in [Device -> Path \cup {None}] /\ uidFds \in [Uid -> Fds \cup {NoFd}]
        /\ object \in [Fds -> (Device \X Path) \cup {None}]
    OBVIOUS
  <1>5. /\ gone \subseteq Device /\ fresh \subseteq Device /\ shared \subseteq Uid
        /\ fd \in Fds \cup {NoFd}
        /\ dpc \in {"scan", "next", "erase", "poll", "register"}
        /\ fdDevs \subseteq Fds /\ live \subseteq Fds /\ pending \subseteq Fds /\ ready \subseteq Fds
        /\ ipc \in {"poll", "loop", "read"} /\ dev \in Fds \cup {NoFd} /\ failed \in BOOLEAN
    OBVIOUS
  <1>6. pollFds \in Seq(Fds) /\ loopFds \in Seq(Fds) /\ pos \in 0..Len(loopFds)
    BY <1>1
  <1>7. InputsTypeOK
    BY <1>3, <1>4, <1>5, <1>6 DEF InputsTypeOK
  <1>8. Standing = {} /\ \A u \in Uid : uidFds[u] = NoFd
    BY DEF Standing
  <1> QED
    BY <1>2, <1>7, <1>8 DEF InputInv, Tables, Names, Attached, Fresh

\* Steps that leave the tables alone.
LEMMA SameTables ==
    ASSUME InputInv, InputsTypeOK', UNCHANGED <<tables, detector>>
    PROVE  InputInv'
  <1>1. UNCHANGED <<Standing, ToSet(pollFds), IsInjective(pollFds)>>
    BY DEF Standing, tables, detector
  <1>2. Tables'
    BY <1>1 DEF InputInv, Tables, tables, detector
  <1>3. Names' /\ Attached' /\ Fresh'
    BY <1>1 DEF InputInv, Names, Attached, Fresh, Free, Owner, FileOf, tables, detector
  <1> QED
    BY <1>2, <1>3 DEF InputInv

\* The invariant is kept by reading and by what the devices do themselves ...
LEMMA ReadInv == InputInv /\ (Read \/ (\E f \in Fds : Happen(f))
                              \/ \E d \in Device, path \in Path \cup {None} : Plug(d, path)) => InputInv'
  <1> SUFFICES ASSUME InputInv, Read \/ (\E f \in Fds : Happen(f))
                              \/ \E d \in Device, path \in Path \cup {None} : Plug(d, path)
               PROVE  InputInv'
    OBVIOUS
  <1>0. InputsTypeOK
    BY DEF InputInv
  <1>1. UNCHANGED <<tables, detector>>
    BY DEF Read, Poll, GetDevice, ReadDevice, EndLoop, Happen, Plug
  <1>2. CASE \E d \in Device, path \in Path \cup {None} : Plug(d, path)
    <2>1. /\ plugged' \in [Device -> Path \cup {None}] /\ live' \subseteq live
          /\ UNCHANGED <<pending, input, failed>>
      BY <1>2 DEF Plug, Worlds
    <2> QED
      BY <1>0, <1>1, <2>1, SameTables DEF InputsTypeOK, detector, tables, input
  <1>3. CASE \E f \in Fds : Happen(f)
    BY <1>0, <1>1, <1>3, SameTables DEF Happen, InputsTypeOK, detector, tables, input, world
  <1>4. CASE Poll
    <2>1. ready' \subseteq Fds /\ loopFds' = pollFds /\ pos' = 0 /\ ipc' = "loop"
          /\ UNCHANGED <<world, system, dev, failed>>
      BY <1>0, <1>4 DEF Poll, InputsTypeOK
    <2> QED
      BY <1>0, <1>1, <2>1, SameTables DEF InputsTypeOK, detector, tables, world, system
  <1>5. CASE GetDevice
    <2>1. ~(pos >= Len(loopFds)) /\ pos' = pos + 1 /\ UNCHANGED <<world, system, ready, loopFds>>
      BY <1>5 DEF GetDevice, LoopEnds
    <2>2. pos' \in 0..Len(loopFds)
      BY <1>0, <2>1 DEF InputsTypeOK
    <2>3. ipc' \in {"poll", "loop", "read"} /\ dev' \in Fds \cup {NoFd} /\ failed' \in BOOLEAN
      BY <1>0, <1>5 DEF GetDevice, InputsTypeOK
    <2> QED
      BY <1>0, <1>1, <2>1, <2>2, <2>3, SameTables DEF InputsTypeOK, detector, tables, world, system
  <1>6. CASE ReadDevice
    <2>1. ipc' = "loop" /\ dev' = NoFd /\ pending' \subseteq pending
          /\ UNCHANGED <<world, live, ready, loopFds, pos, failed>>
      BY <1>6 DEF ReadDevice
    <2> QED
      BY <1>0, <1>1, <2>1, SameTables DEF InputsTypeOK, detector, tables, world
  <1>7. CASE EndLoop
    <2>1. ipc' = "poll" /\ ready' = {} /\ loopFds' = <<>> /\ pos' = 0
          /\ UNCHANGED <<world, system, dev, failed>>
      BY <1>7 DEF EndLoop
    <2>2. <<>> \in Seq(Fds) /\ Len(<<>>) = 0
      OBVIOUS
    <2> QED
      BY <1>0, <1>1, <2>1, <2>2, SameTables DEF InputsTypeOK, detector, tables, world, system
  <1> QED
    BY <1>2, <1>3, <1>4, <1>5, <1>6, <1>7 DEF Read

\* ... by the detector's scan, which finds out what names are shared,
LEMMA ScanInv == InputInv /\ Scan => InputInv'
  <1> SUFFICES ASSUME InputInv, Scan PROVE InputInv'
    OBVIOUS
  <1>0. InputsTypeOK /\ Tables /\ Names /\ Attached
    BY DEF InputInv
  <1>1. /\ dpc = "scan" /\ scanned' = plugged /\ dpc' = "next"
        /\ gone' = {d \in Device : known[d] # None /\ plugged[d] # known[d]}
        /\ fresh' = {d \in Device : plugged[d] # None /\ known[d] = None}
        /\ UNCHANGED <<world, system, known, fd, tables, input, failed>>
    BY DEF Scan
  <1>2. /\ shared \subseteq shared' /\ shared' \subseteq Uid
        /\ \A u \in Uid : (\A d \in Device : NameOf(d) = u => ~(known[d] = None /\ plugged[d] = None))
                             => u \in shared'
    BY <1>0 DEF Scan, InputsTypeOK
  <1>3. InputsTypeOK'
    BY <1>0, <1>1, <1>2 DEF InputsTypeOK, world, system, tables, input
  <1>4. Standing = fdDevs /\ Standing' = fdDevs
    BY <1>1 DEF Standing, tables
  <1>5. Tables' /\ Names'
    BY <1>0, <1>1, <1>2, <1>4 DEF Tables, Names, Owner, tables
  <1>6. \A f \in fdDevs : Owner(f) \in Device /\ FileOf(f) # None
    BY <1>0, InputAssumption DEF Tables, Owner, FileOf
  <1>7. ASSUME NEW f \in fdDevs, NameOf(Owner(f)) \notin shared
        PROVE  known[Owner(f)] = FileOf(f) /\ known[Owner(f)] # None
    BY <1>0, <1>1, <1>4, <1>6, <1>7 DEF Attached
  <1>8. Attached'
    <2>1. ASSUME NEW f \in fdDevs, NameOf(Owner(f)) \notin shared'
          PROVE  Owner(f) \in gone' \/ scanned'[Owner(f)] = FileOf(f)
      BY <1>1, <1>2, <1>6, <1>7, <2>1
    <2> QED
      BY <1>1, <1>4, <2>1 DEF Attached, Owner, FileOf, tables
  <1>9. ASSUME NEW d \in fresh', NEW e \in Device, NameOf(d) = NameOf(e), d # e,
               plugged[e] # None \/ known[e] # None
        PROVE  NameOf(d) \in shared'
    <2>1. d \in Device /\ NameOf(d) \in Uid /\ plugged[d] # None
      BY <1>1, TwoOfAName
    <2>2. \A c \in Device : NameOf(c) = NameOf(d) => c = d \/ c = e
      BY <1>9, <2>1, TwoOfAName
    <2> QED
      BY <1>2, <1>9, <2>1, <2>2
  <1>10. ASSUME NEW d \in fresh' PROVE scanned'[d] # None /\ Free(d)'
    <2>1. d \in Device /\ plugged[d] # None /\ known[d] = None /\ NameOf(d) \in Uid
      BY <1>1, TwoOfAName
    <2>2. CASE uidFds[NameOf(d)] # NoFd
      <3> DEFINE f == uidFds[NameOf(d)]
      <3>1. f \in fdDevs /\ NameOf(Owner(f)) = NameOf(d)
        BY <1>0, <1>4, <2>1, <2>2 DEF Names
      <3> HIDE DEF f
      <3>2. CASE NameOf(Owner(f)) \in shared
        BY <1>1, <1>2, <2>1, <3>1, <3>2 DEF Free
      <3>3. CASE NameOf(Owner(f)) \notin shared
        <4>1. known[Owner(f)] # None /\ Owner(f) \in Device /\ Owner(f) # d
          BY <1>6, <1>7, <2>1, <3>1, <3>3
        <4> QED
          BY <1>1, <1>9, <2>1, <3>1, <4>1 DEF Free
      <3> QED
        BY <1>1, <2>1, <3>2, <3>3
    <2> QED
      BY <1>1, <2>1, <2>2 DEF Free, tables
  <1>11. Fresh'
    <2>1. \A d, e \in fresh' : NameOf(d) = NameOf(e) => d = e \/ NameOf(d) \in shared'
      BY <1>1, <1>9
    <2> QED
      BY <1>1, <1>10, <2>1 DEF Fresh
  <1> QED
    BY <1>3, <1>5, <1>8, <1>11 DEF InputInv

\* ... its removals, by the name,
LEMMA RemoveInv == ASSUME NEW d \in Device PROVE InputInv /\ RmFromPoll(d) => InputInv'
  <1> SUFFICES ASSUME InputInv, RmFromPoll(d) PROVE InputInv'
    OBVIOUS
  <1> DEFINE u == NameOf(d)
             f == uidFds[u]
  <1>0. InputsTypeOK /\ Tables /\ Names /\ Attached /\ Fresh /\ u \in Uid
    BY TwoOfAName DEF InputInv
  <1>1. /\ dpc = "next" /\ gone' = gone \ {d} /\ fd' = f
        /\ pollFds' = Without(f) /\ uidFds' = [uidFds EXCEPT ![u] = NoFd] /\ dpc' = "erase"
        /\ UNCHANGED <<world, system, known, scanned, shared, fresh, fdDevs, object, ipc, ready, pos,
                       dev, failed>>
    BY DEF RmFromPoll
  <1>2. f \in Fds \cup {NoFd} /\ pollFds \in Seq(Fds) /\ IsInjective(pollFds)
    BY <1>0 DEF InputsTypeOK, Tables
  <1>3. /\ uidFds' \in [Uid -> Fds \cup {NoFd}] /\ uidFds'[u] = NoFd
        /\ \A v \in Uid \ {u} : uidFds'[v] = uidFds[v]
    BY <1>0, <1>1 DEF InputsTypeOK
  <1>4. loopFds' \in Seq(Fds) /\ Len(loopFds') = Len(loopFds) /\ pollFds' \in Seq(Fds)
        /\ IsInjective(pollFds') /\ ToSet(pollFds') = ToSet(pollFds) \ {f}
    <2> HIDE DEF f
    <2>1. pollFds' \in Seq(Fds) /\ IsInjective(pollFds') /\ ToSet(pollFds') = ToSet(pollFds) \ {f}
      BY <1>1, <1>2, WithoutIs
    <2>2. loopFds \in Seq(Fds) /\ DOMAIN loopFds = 1..Len(loopFds) /\ Len(loopFds) \in Nat
      BY <1>0 DEF InputsTypeOK
    <2>3. CASE ipc = "poll"
      BY <2>1, <2>2, <2>3 DEF RmFromPoll
    <2>4. CASE ipc # "poll"
      <3>1. loopFds' = [i \in 1..Len(loopFds) |->
                            IF i <= Len(pollFds') THEN pollFds'[i] ELSE loopFds[i]]
        BY <2>2, <2>4 DEF RmFromPoll
      <3>2. \A i \in 1..Len(loopFds) :
               (IF i <= Len(pollFds') THEN pollFds'[i] ELSE loopFds[i]) \in Fds
        BY <2>1, <2>2
      <3> QED
        BY <2>1, <2>2, <3>1, <3>2
    <2> QED
      BY <2>3, <2>4
  <1> HIDE DEF f
  <1>5. InputsTypeOK'
    BY <1>0, <1>1, <1>2, <1>3, <1>4 DEF InputsTypeOK, world, system
  <1>6. Standing = fdDevs /\ Standing' = fdDevs \ {f}
    BY <1>1 DEF Standing
  <1>7. Tables'
    <2>1. ToSet(pollFds)' = Standing' /\ IsInjective(pollFds)'
      BY <1>0, <1>1, <1>4, <1>6 DEF Tables, ToSet
    <2> QED
      BY <1>0, <1>1, <2>1 DEF Tables
  <1>8. ASSUME NEW g \in Fds PROVE Owner(g)' = Owner(g) /\ FileOf(g)' = FileOf(g)
    BY <1>1 DEF Owner, FileOf
  <1>9. fdDevs \subseteq Fds /\ \A g \in fdDevs : Owner(g) \in Device /\ NameOf(Owner(g)) \in Uid
    BY <1>0, TwoOfAName DEF InputsTypeOK, Tables, Owner
  <1>10. ASSUME NEW g \in fdDevs, g # f, NameOf(Owner(g)) = u PROVE u \in shared
    BY <1>0, <1>6, <1>10 DEF Names, f
  <1>11. ASSUME NEW v \in Uid, uidFds'[v] # NoFd
         PROVE  uidFds'[v] \in Standing' /\ NameOf(Owner(uidFds'[v])) = v
    <2>1. v # u /\ uidFds'[v] = uidFds[v]
      BY <1>3, <1>11
    <2>2. uidFds[v] \in fdDevs /\ NameOf(Owner(uidFds[v])) = v
      BY <1>0, <1>6, <1>11, <2>1 DEF Names
    <2>3. CASE uidFds[v] = f
      <3>1. f # NoFd
        BY <1>11, <2>1, <2>3
      <3>2. NameOf(Owner(f)) = u
        BY <1>0, <3>1 DEF Names, f
      <3> QED
        BY <2>1, <2>2, <2>3, <3>2
    <2> QED
      BY <1>6, <2>1, <2>2, <2>3
  <1>12. ASSUME NEW g \in Standing'
         PROVE  uidFds'[NameOf(Owner(g))] = g \/ NameOf(Owner(g)) \in shared
    <2>1. g \in fdDevs /\ g # f
      BY <1>6
    <2>2. uidFds[NameOf(Owner(g))] = g \/ NameOf(Owner(g)) \in shared
      BY <1>0, <1>6, <2>1 DEF Names
    <2> QED
      BY <1>3, <1>9, <1>10, <2>1, <2>2
  <1>13. Names'
    <2>1. \A v \in Uid : uidFds'[v] # NoFd => uidFds'[v] \in Fds
      BY <1>3
    <2> QED
      BY <1>1, <1>6, <1>8, <1>9, <1>11, <1>12, <2>1 DEF Names
  <1>14. Attached'
    <2>1. ASSUME NEW g \in Standing', NameOf(Owner(g)) \notin shared
          PROVE  Owner(g) \in gone' \/ scanned'[Owner(g)] = FileOf(g)
      <3>1. g \in fdDevs /\ g # f
        BY <1>6
      <3>2. Owner(g) # d
        BY <1>10, <2>1, <3>1
      <3>3. Owner(g) \in gone \/ scanned[Owner(g)] = FileOf(g)
        BY <1>0, <1>1, <1>6, <2>1, <3>1 DEF Attached
      <3> QED
        BY <1>1, <3>2, <3>3
    <2> QED
      BY <1>1, <1>6, <1>8, <1>9, <2>1 DEF Attached
  <1>15. Fresh'
    <2>1. ASSUME NEW e \in fresh, Free(e) PROVE Free(e)'
      <3>1. NameOf(e) \in Uid
        BY <1>0, TwoOfAName DEF InputsTypeOK
      <3> QED
        BY <1>1, <1>3, <2>1, <3>1 DEF Free
    <2> QED
      BY <1>0, <1>1, <2>1 DEF Fresh
  <1> QED
    BY <1>5, <1>7, <1>13, <1>14, <1>15 DEF InputInv

\* of the device too,
LEMMA EraseInv == InputInv /\ EraseDev => InputInv'
  <1> SUFFICES ASSUME InputInv, EraseDev PROVE InputInv'
    OBVIOUS
  <1>0. InputsTypeOK /\ Tables /\ Names /\ Attached /\ Fresh
    BY DEF InputInv
  <1>1. /\ dpc = "erase" /\ fdDevs' = fdDevs \ {fd} /\ pending' = pending \ {fd} /\ live' = live \ {fd}
        /\ object' = [g \in Fds |-> IF g = fd THEN None ELSE object[g]]
        /\ failed' \in BOOLEAN /\ dpc' = "next" /\ fd' = NoFd
        /\ UNCHANGED <<world, known, scanned, shared, gone, fresh, pollFds, uidFds, input>>
    BY DEF EraseDev
  <1>2. object' \in [Fds -> (Device \X Path) \cup {None}]
    <2>1. \A g \in Fds : object[g] \in (Device \X Path) \cup {None}
      BY <1>0 DEF InputsTypeOK
    <2>2. \A g \in Fds : (IF g = fd THEN None ELSE object[g]) \in (Device \X Path) \cup {None}
      BY <2>1
    <2> QED
      BY <1>1, <2>2
  <1>3. InputsTypeOK'
    BY <1>0, <1>1, <1>2 DEF InputsTypeOK, world, input
  <1>4. Standing = fdDevs \ {fd} /\ Standing' = fdDevs \ {fd} /\ fdDevs \subseteq Fds
    BY <1>0, <1>1 DEF Standing, InputsTypeOK
  <1>5. \A g \in fdDevs \ {fd} : object'[g] = object[g]
    BY <1>1, <1>4
  <1>6. \A g \in fdDevs \ {fd} : Owner(g)' = Owner(g) /\ FileOf(g)' = FileOf(g)
    BY <1>5 DEF Owner, FileOf
  <1>7. Tables'
    <2>1. ToSet(pollFds)' = ToSet(pollFds) /\ IsInjective(pollFds)' = IsInjective(pollFds)
      BY <1>1
    <2> QED
      BY <1>0, <1>1, <1>4, <1>5, <2>1 DEF Tables
  <1>8. Names'
    BY <1>0, <1>1, <1>4, <1>6 DEF Names
  <1>9. Attached'
    BY <1>0, <1>1, <1>4, <1>6 DEF Attached
  <1>10. Fresh'
    BY <1>0, <1>1 DEF Fresh, Free
  <1> QED
    BY <1>3, <1>7, <1>8, <1>9, <1>10 DEF InputInv

\* ... and by attaching a device, which is opened first,
LEMMA OpenInv == ASSUME NEW d \in Device PROVE InputInv /\ Open(d) => InputInv'
  <1> SUFFICES ASSUME InputInv, Open(d) PROVE InputInv'
    OBVIOUS
  <1>0. InputsTypeOK /\ Tables /\ Names /\ Attached /\ Fresh
    BY DEF InputInv
  <1>1. /\ dpc = "next" /\ d \in fresh /\ fresh' = fresh \ {d}
        /\ UNCHANGED <<world, pending, known, scanned, shared, gone, pollFds, fdDevs, uidFds, input, failed>>
    BY DEF Open
  <1>2. CASE fd' = NoFd /\ UNCHANGED <<dpc, live, object>>
    <2>1. InputsTypeOK'
      BY <1>0, <1>1, <1>2 DEF InputsTypeOK, world, input
    <2>2. Standing = fdDevs /\ Standing' = fdDevs
      BY <1>1, <1>2 DEF Standing
    <2>3. Tables'
      <3>1. ToSet(pollFds)' = ToSet(pollFds) /\ IsInjective(pollFds)' = IsInjective(pollFds)
        BY <1>1
      <3> QED
        BY <1>0, <1>1, <1>2, <2>2, <3>1 DEF Tables
    <2>4. Names' /\ Attached'
      BY <1>0, <1>1, <1>2, <2>2 DEF Names, Attached, Owner, FileOf
    <2>5. Fresh'
      BY <1>0, <1>1, <1>2 DEF Fresh, Free
    <2> QED
      BY <2>1, <2>3, <2>4, <2>5 DEF InputInv
  <1>3. CASE /\ Fds \ fdDevs # {} /\ fd' = Min(Fds \ fdDevs) /\ live' = live \cup {fd'}
             /\ dpc' = "poll" /\ object' = [object EXCEPT ![fd'] = <<d, scanned[d]>>]
    <2>1. fd' \in Fds /\ fd' \notin fdDevs
      BY <1>3, FdIsFree
    <2>2. scanned[d] \in Path /\ d \in Device /\ Free(d)
      BY <1>0, <1>1 DEF Fresh, InputsTypeOK
    <2>3. /\ object' \in [Fds -> (Device \X Path) \cup {None}]
          /\ object'[fd'] = <<d, scanned[d]>> /\ \A g \in Fds \ {fd'} : object'[g] = object[g]
      BY <1>0, <1>3, <2>1, <2>2 DEF InputsTypeOK
    <2>4. InputsTypeOK'
      BY <1>0, <1>1, <1>3, <2>1, <2>3 DEF InputsTypeOK, world, input
    <2>5. Standing = fdDevs /\ Standing' = fdDevs /\ fdDevs \subseteq Fds
      BY <1>0, <1>1, <1>3 DEF Standing, InputsTypeOK
    <2>6. \A g \in fdDevs : object'[g] = object[g]
      BY <2>1, <2>3, <2>5
    <2>7. \A g \in fdDevs : Owner(g)' = Owner(g) /\ FileOf(g)' = FileOf(g)
      BY <2>6 DEF Owner, FileOf
    <2>8. Tables'
      <3>1. ToSet(pollFds)' = ToSet(pollFds) /\ IsInjective(pollFds)' = IsInjective(pollFds)
        BY <1>1
      <3>2. object'[fd'] \in Device \X Path
        BY <2>2, <2>3
      <3> QED
        BY <1>0, <1>1, <1>3, <2>1, <2>5, <2>6, <3>1, <3>2 DEF Tables
    <2>9. Names'
      BY <1>0, <1>1, <2>5, <2>7 DEF Names
    <2>10. Attached'
      BY <1>0, <1>1, <1>3, <2>5, <2>7 DEF Attached
    <2>11. Fresh'
      <3>1. Owner(fd)' = d /\ FileOf(fd)' = scanned'[d]
        BY <1>1, <2>3 DEF Owner, FileOf
      <3>2. \A e \in fresh : Free(e)' = Free(e)
        BY <1>1 DEF Free
      <3>3. Free(Owner(fd))'
        BY <1>1, <2>2, <3>1 DEF Free
      <3>4. \A e \in fresh' : NameOf(e) = NameOf(d) => NameOf(e) \in shared'
        BY <1>0, <1>1 DEF Fresh
      <3>5. \A e \in fresh' : scanned'[e] # None /\ Free(e)'
        BY <1>0, <1>1, <3>2 DEF Fresh
      <3>6. \A a, e \in fresh' : NameOf(a) = NameOf(e) => a = e \/ NameOf(a) \in shared'
        BY <1>0, <1>1 DEF Fresh
      <3> QED
        BY <3>1, <3>3, <3>4, <3>5, <3>6 DEF Fresh
    <2> QED
      BY <2>4, <2>8, <2>9, <2>10, <2>11 DEF InputInv
  <1> QED
    BY <1>2, <1>3 DEF Open

\* then polled,
LEMMA AddPollInv == InputInv /\ AddToPoll => InputInv'
  <1> SUFFICES ASSUME InputInv, AddToPoll PROVE InputInv'
    OBVIOUS
  <1>0. InputsTypeOK /\ Tables /\ Names /\ Attached /\ Fresh
    BY DEF InputInv
  <1>1. /\ dpc = "poll" /\ pollFds' = Append(pollFds, fd) /\ dpc' = "register"
        /\ UNCHANGED <<world, system, known, scanned, shared, gone, fresh, fd, fdDevs, object,
                       uidFds, input, failed>>
    BY DEF AddToPoll
  <1>2. Standing = fdDevs /\ Standing' = fdDevs
    BY <1>1 DEF Standing
  <1>3. pollFds \in Seq(Fds) /\ fd \in Fds \ fdDevs /\ ToSet(pollFds) = fdDevs /\ IsInjective(pollFds)
    BY <1>0, <1>1, <1>2 DEF InputsTypeOK, Tables
  <1>4. /\ pollFds' \in Seq(Fds) /\ DOMAIN pollFds' = 1..Len(pollFds)+1
        /\ DOMAIN pollFds = 1..Len(pollFds) /\ Len(pollFds) \in Nat
        /\ pollFds'[Len(pollFds)+1] = fd /\ \A i \in 1..Len(pollFds) : pollFds'[i] = pollFds[i]
    BY <1>1, <1>3
  <1>5. IsInjective(pollFds')
    BY <1>3, <1>4 DEF IsInjective, ToSet
  <1>6. ToSet(pollFds)' = fdDevs \cup {fd}
    <2>1. ToSet(pollFds') = ToSet(pollFds) \cup {fd}
      BY <1>4 DEF ToSet
    <2> QED
      BY <1>3, <2>1 DEF ToSet
  <1>7. InputsTypeOK'
    BY <1>0, <1>1, <1>4 DEF InputsTypeOK, world, system, input
  <1>8. Tables'
    BY <1>0, <1>1, <1>3, <1>5, <1>6 DEF Tables
  <1>9. Names' /\ Attached' /\ Fresh'
    BY <1>0, <1>1, <1>2 DEF Names, Attached, Fresh, Free, Owner, FileOf
  <1> QED
    BY <1>7, <1>8, <1>9 DEF InputInv

\* then registered: the name is free or shared,
LEMMA AddDevsInv == InputInv /\ AddToDevs => InputInv'
  <1> SUFFICES ASSUME InputInv, AddToDevs PROVE InputInv'
    OBVIOUS
  <1> DEFINE u == NameOf(Owner(fd))
  <1>0. InputsTypeOK /\ Tables /\ Names /\ Attached /\ Fresh
    BY DEF InputInv
  <1>1. /\ dpc = "register" /\ fdDevs' = fdDevs \cup {fd} /\ uidFds' = [uidFds EXCEPT ![u] = fd]
        /\ dpc' = "next" /\ fd' = NoFd
        /\ UNCHANGED <<world, system, known, scanned, shared, gone, fresh, pollFds, object, input, failed>>
    BY DEF AddToDevs, Owner
  <1>2. /\ fd \in Fds /\ fd \notin fdDevs /\ object[fd] \in Device \X Path /\ Owner(fd) \in Device
        /\ u \in Uid /\ (uidFds[u] = NoFd \/ u \in shared) /\ scanned[Owner(fd)] = FileOf(fd)
    BY <1>0, <1>1, TwoOfAName DEF Tables, Fresh, Free, Owner
  <1>3. fd # NoFd
    BY <1>2, NoFdIsNone
  <1>4. /\ uidFds' \in [Uid -> Fds \cup {NoFd}] /\ uidFds'[u] = fd
        /\ \A v \in Uid \ {u} : uidFds'[v] = uidFds[v]
    BY <1>0, <1>1, <1>2 DEF InputsTypeOK
  <1>5. InputsTypeOK'
    BY <1>0, <1>1, <1>2, <1>4 DEF InputsTypeOK, world, system, input
  <1>6. Standing = fdDevs /\ Standing' = fdDevs \cup {fd}
    BY <1>1 DEF Standing
  <1>7. Tables'
    <2>1. ToSet(pollFds)' = ToSet(pollFds) /\ IsInjective(pollFds)' = IsInjective(pollFds)
      BY <1>1
    <2> QED
      BY <1>0, <1>1, <1>2, <1>6, <2>1 DEF Tables
  <1>8. \A g : Owner(g)' = Owner(g) /\ FileOf(g)' = FileOf(g)
    BY <1>1 DEF Owner, FileOf
  <1>9. \A g \in fdDevs : NameOf(Owner(g)) \in Uid
    BY <1>0, TwoOfAName DEF Tables, Owner
  <1>10. Names'
    <2>1. ASSUME NEW v \in Uid, uidFds'[v] # NoFd
          PROVE  uidFds'[v] \in Standing' /\ NameOf(Owner(uidFds'[v])) = v
      BY <1>0, <1>4, <1>6, <2>1 DEF Names
    <2>2. ASSUME NEW g \in Standing'
          PROVE  uidFds'[NameOf(Owner(g))] = g \/ NameOf(Owner(g)) \in shared
      <3>1. CASE g = fd
        BY <1>4, <3>1
      <3>2. CASE g \in fdDevs
        <4>1. uidFds[NameOf(Owner(g))] = g \/ NameOf(Owner(g)) \in shared
          BY <1>0, <1>6, <3>2 DEF Names
        <4>2. g # NoFd
          BY <1>0, <3>2, NoFdIsNone DEF InputsTypeOK
        <4> QED
          BY <1>2, <1>4, <1>9, <3>2, <4>1, <4>2
      <3> QED
        BY <1>6, <3>1, <3>2
    <2> QED
      BY <1>1, <1>8, <2>1, <2>2 DEF Names
  <1>11. Attached'
    BY <1>0, <1>1, <1>2, <1>6, <1>8 DEF Attached
  <1>12. Fresh'
    <2>1. ASSUME NEW e \in fresh PROVE Free(e)'
      <3>1. NameOf(e) \in Uid /\ Free(e) /\ (NameOf(e) = u => NameOf(e) \in shared)
        BY <1>0, <1>1, TwoOfAName DEF InputsTypeOK, Fresh
      <3> QED
        BY <1>1, <1>4, <3>1 DEF Free
    <2> QED
      BY <1>0, <1>1, <2>1 DEF Fresh
  <1> QED
    BY <1>5, <1>7, <1>10, <1>11, <1>12 DEF InputInv

\* and what was scanned is known when all that has gone is removed,
LEMMA FinishInv == InputInv /\ Finish => InputInv'
  <1> SUFFICES ASSUME InputInv, Finish PROVE InputInv'
    OBVIOUS
  <1>0. InputsTypeOK /\ Tables /\ Names /\ Attached
    BY DEF InputInv
  <1>1. /\ dpc = "next" /\ gone = {} /\ known' = scanned /\ dpc' = "scan"
        /\ UNCHANGED <<world, system, scanned, shared, gone, fresh, fd, tables, input, failed>>
    BY DEF Finish
  <1>2. InputsTypeOK'
    BY <1>0, <1>1 DEF InputsTypeOK, world, system, tables, input
  <1>3. Standing = fdDevs /\ Standing' = fdDevs
    BY <1>1 DEF Standing, tables
  <1>4. Tables' /\ Names' /\ Attached'
    BY <1>0, <1>1, <1>3 DEF Tables, Names, Attached, Owner, FileOf, tables
  <1>5. Fresh'
    BY <1>1 DEF Fresh
  <1> QED
    BY <1>2, <1>4, <1>5 DEF InputInv

\* so by every step.
LEMMA InputStep == InputInv /\ [InputsNext]_inputVars => InputInv'
  <1> SUFFICES ASSUME InputInv, [InputsNext]_inputVars PROVE InputInv'
    OBVIOUS
  <1>1. CASE UNCHANGED inputVars
    <2>1. UNCHANGED <<tables, detector>> /\ UNCHANGED <<world, system, input, failed>>
      BY <1>1 DEF inputVars
    <2>2. InputsTypeOK'
      BY <2>1 DEF InputInv, InputsTypeOK, world, system, detector, tables, input
    <2> QED
      BY <2>1, <2>2, SameTables
  <1>2. CASE Detect
    BY <1>2, ScanInv, RemoveInv, EraseInv, OpenInv, AddPollInv, AddDevsInv, FinishInv DEF Detect
  <1> QED
    BY <1>1, <1>2, ReadInv DEF InputsNext

\* Between two devices, mice or keyboards, what is polled is registered, and once
\* each; a name is that of one device, and what is registered has a name, unless a
\* mouse and a keyboard have had that name - however many come and go while the
\* input thread is in the middle of its loop.
THEOREM TablesAlwaysAgree == InputsSpec => []TablesAgree
  <1>1. ASSUME InputInv, dpc \in {"scan", "next"} PROVE ToSet(pollFds) = fdDevs /\ Standing = fdDevs
    BY <1>1 DEF InputInv, Tables, Standing
  <1>2. InputInv => TablesAgree
    BY <1>1 DEF InputInv, Tables, Names, Owner, TablesAgree
  <1> QED
    BY <1>2, InputInit, InputStep, PTL DEF InputsSpec

\* What is attached is known to the detector, at the file it was opened at: a
\* device that it does not know, knows no longer or knows elsewhere is not read,
\* but for those of shared names.
THEOREM AttachedIsAlwaysKnown == InputsSpec => []AttachedIsKnown
  <1>1. InputInv => AttachedIsKnown
    BY DEF InputInv, Attached, Standing, Owner, FileOf, AttachedIsKnown
  <1> QED
    BY <1>1, InputInit, InputStep, PTL DEF InputsSpec

\* Under the loop poll_fds only gets shorter; while it is as long as it was, it is
\* what it was, and what is being read is in it.
Loop ==
    ipc # "poll" =>
        /\ Len(pollFds) <= Len(loopFds)
        /\ Len(pollFds) = Len(loopFds) =>
              loopFds = pollFds /\ (ipc = "read" => dev \in ToSet(pollFds))

LEMMA LoopStep == InputInv /\ Loop /\ [InputsNext]_inputVars => Loop'
  <1> SUFFICES ASSUME InputInv, Loop, [InputsNext]_inputVars PROVE Loop'
    OBVIOUS
  <1>0. InputsTypeOK /\ pollFds \in Seq(Fds) /\ loopFds \in Seq(Fds)
    BY DEF InputInv, InputsTypeOK
  <1>1. ASSUME NEW d \in Device, RmFromPoll(d) PROVE Loop'
    <2> SUFFICES ASSUME ipc' # "poll"
                 PROVE  /\ Len(pollFds') <= Len(loopFds')
                        /\ Len(pollFds') = Len(loopFds') =>
                              loopFds' = pollFds' /\ (ipc' = "read" => dev' \in ToSet(pollFds'))
      BY DEF Loop, ToSet
    <2> DEFINE f == uidFds[NameOf(d)]
    <2>1. /\ pollFds' = Without(f) /\ UNCHANGED <<ipc, dev>>
          /\ loopFds' = [i \in DOMAIN loopFds |-> IF i <= Len(pollFds') THEN pollFds'[i] ELSE loopFds[i]]
      BY <1>1 DEF RmFromPoll
    <2> HIDE DEF f
    <2>2. /\ Len(pollFds') \in Nat /\ Len(pollFds') <= Len(pollFds)
          /\ Len(pollFds') = Len(pollFds) => pollFds' = pollFds
      BY <1>0, <2>1, WithoutLess
    <2>3. /\ Len(pollFds) <= Len(loopFds) /\ Len(pollFds) \in Nat /\ Len(loopFds) \in Nat
          /\ Len(pollFds) = Len(loopFds) => loopFds = pollFds /\ (ipc = "read" => dev \in ToSet(pollFds))
      BY <1>0, <2>1 DEF Loop
    <2>4. DOMAIN loopFds = 1..Len(loopFds) /\ Len(loopFds') = Len(loopFds)
      <3>1. DOMAIN loopFds = 1..Len(loopFds) /\ Len(loopFds) \in Nat
        BY <1>0
      <3> QED
        BY <2>1, <3>1
    <2>5. ASSUME Len(pollFds') = Len(loopFds')
          PROVE  loopFds' = pollFds' /\ (ipc' = "read" => dev' \in ToSet(pollFds'))
      <3>1. pollFds' = pollFds /\ loopFds = pollFds /\ (ipc = "read" => dev \in ToSet(pollFds))
        BY <2>2, <2>3, <2>4, <2>5
      <3>2. loopFds' = [i \in DOMAIN loopFds |-> loopFds[i]]
        BY <2>1, <3>1
      <3>3. loopFds' = loopFds
        BY <1>0, <3>2
      <3> QED
        BY <2>1, <3>1, <3>3
    <2> QED
      BY <2>2, <2>3, <2>4, <2>5
  <1>2. CASE AddToPoll
    BY <1>2 DEF AddToPoll, LockFree, input, Loop
  <1>3. CASE Poll
    BY <1>0, <1>3 DEF Poll, tables, Loop
  <1>4. CASE GetDevice
    <2>1. /\ UNCHANGED <<pollFds, loopFds>> /\ ipc # "poll" /\ ~(pos >= Len(loopFds))
          /\ ipc' = "read" => dev' = loopFds[pos + 1]
      BY <1>4 DEF GetDevice, LoopEnds, tables
    <2> DEFINE i == pos + 1
    <2>2. i \in 1..Len(loopFds)
      BY <1>0, <2>1 DEF InputsTypeOK
    <2> HIDE DEF i
    <2>3. ipc' = "read" /\ loopFds = pollFds => dev' \in ToSet(pollFds)
      BY <2>1, <2>2 DEF ToSet, i
    <2> QED
      BY <2>1, <2>3 DEF Loop, ToSet
  <1>5. CASE ReadDevice \/ EndLoop
    BY <1>5 DEF ReadDevice, EndLoop, tables, Loop
  <1>6. CASE UNCHANGED <<pollFds, loopFds, ipc, dev>>
    BY <1>6 DEF Loop, ToSet
  <1> QED
    BY <1>1, <1>2, <1>3, <1>4, <1>5, <1>6
    DEF InputsNext, Plug, Happen, Detect, Read, Scan, EraseDev, AddToDevs, Finish, Open, tables, input, inputVars

\* The input thread misses a device only where the detector is at work on it: a
\* null pointer comes from a registration in progress, or from a removal since
\* poll(), never from what the tables are left as.
THEOREM AlwaysMissesInPassing == InputsSpec => MissesInPassing
  <1>1. ASSUME InputInv, Loop, [InputsNext]_inputVars, failed' # failed, loopFds = pollFds, dpc # "register"
        PROVE  FALSE
    <2>0. ToSet(pollFds) = Standing
      BY <1>1 DEF InputInv, Tables
    <2>1. CASE EraseDev
      <3>1. ~failed /\ failed' /\ dpc = "erase"
        BY <1>1, <2>1 DEF InputsNext, Plug, Happen, EraseDev, Read, Poll, GetDevice, ReadDevice, EndLoop,
                          inputVars, InputInv, InputsTypeOK, detector
      <3>2. ipc = "read" /\ dev = fd
        BY <2>1, <3>1 DEF EraseDev
      <3>3. dev \in ToSet(pollFds)
        BY <1>1, <3>2 DEF Loop
      <3> QED
        BY <2>0, <3>1, <3>2, <3>3 DEF Standing
    <2>2. CASE GetDevice
      <3>1. ToSet(pollFds) \subseteq fdDevs
        BY <2>0 DEF Standing
      <3>2. ~(pos >= Len(loopFds)) /\ loopFds[pos + 1] \notin fdDevs
        BY <1>1, <2>2 DEF GetDevice, LoopEnds
      <3>3. pos + 1 \in 1..Len(loopFds) /\ loopFds \in Seq(Fds)
        BY <1>1, <3>2 DEF InputInv, InputsTypeOK
      <3> DEFINE i == pos + 1
      <3>4. i \in 1..Len(pollFds)
        BY <1>1, <3>3
      <3> HIDE DEF i
      <3>5. pollFds[i] \in ToSet(pollFds)
        BY <3>4 DEF ToSet
      <3> QED
        BY <1>1, <3>1, <3>2, <3>5 DEF i
    <2> QED
      BY <1>1, <2>1, <2>2 DEF InputsNext, Plug, Happen, Detect, Read, Scan, RmFromPoll, Open,
                              AddToPoll, AddToDevs, Finish, Poll, ReadDevice, EndLoop, inputVars
  <1>2. InputInv /\ Loop /\ [InputsNext]_inputVars
           => [failed' # failed => dpc = "register" \/ loopFds # pollFds]_inputVars
    BY <1>1
  <1>3. InputsInit => Loop
    BY DEF InputsInit, Loop
  <1> QED
    BY <1>2, <1>3, InputInit, InputStep, LoopStep, PTL DEF InputsSpec, MissesInPassing

=============================================================================
