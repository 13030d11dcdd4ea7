----------------------- MODULE ConnectionListenerProofs -----------------------
(***************************************************************************)
(* Proofs about ConnectionListener, for every number of connections, every *)
(* set of descriptors and every number of waiting events.                  *)
(***************************************************************************)
EXTENDS ConnectionListener, TLAPS

(***************************************************************************)
(* The inductive invariant.                                                *)
(***************************************************************************)

\* A client exists once its number has been given out.
Numbered ==
    \A c \in Cid :
        /\ stage[c] = "none" <=> c >= nextCid
        /\ stage[c] = "none" =>
              inp[c] = "off" /\ outp[c] = "off" /\ c \notin Pending

\* Only clients that nobody has begun to destroy are registered, and the one
\* being constructed is not registered yet.
Registered ==
    /\ \A c \in clients : stage[c] = "made"
    /\ acc \in {"ctor", "insert"} =>
          /\ nextCid - 1 \in Cid \ clients
          /\ stage[nextCid - 1] = "made"
    /\ reap = "erase" => rms # <<>>

\* No two clients with an open socket have the same descriptor.
Exclusive ==
    \A c, d \in Cid : HasSocket(c) /\ HasSocket(d) /\ fd[c] = fd[d] => c = d

\* The writing thread asks for the removal only when its client is already
\* being destroyed, so that a client not yet destroyed is queued by its
\* reading thread, which is then finished.
QueuedLast ==
    \A c \in Cid :
        /\ outp[c] \in {"removing", "done"} => ~ClientRunning(c)
        /\ stage[c] = "made" /\ c \in Pending => inp[c] = "done"

\* A client whose reading thread still runs is destroyed only while the map is
\* cleared, when nothing is accepted any more; its descriptor, once closed,
\* is then nobody's.
LateReader ==
    /\ main \in {"clearing", "gone"} => acc = "done"
    /\ \A c \in Cid : inp[c] # "done" /\ stage[c] \notin {"none", "made"} =>
          /\ main \in {"clearing", "gone"}
          /\ ~HasSocket(c) => \A d \in Cid : HasSocket(d) => fd[d] # fd[c]

\* Without the race on the map every client is registered until it is destroyed.
NotLost ==
    \A c \in Cid : stage[c] = "made" =>
        c \in clients \/ (acc \in {"ctor", "insert"} /\ c = nextCid - 1)

\* What holds even when accesses to the map overlap.
RacyInv ==
    /\ TypeOK /\ Numbered /\ Registered /\ Exclusive /\ QueuedLast
    /\ LateReader /\ OwnConn

IInv == RacyInv /\ NotLost

-----------------------------------------------------------------------------
(* Lemmas *)

\* What appending an element to a queue adds to it.
LEMMA AppendAdds ==
    ASSUME NEW S, NEW q \in Seq(S), NEW e \in S
    PROVE  /\ Append(q, e) \in Seq(S)
           /\ Range(Append(q, e)) = Range(q) \cup {e}
  <1>1. /\ Append(q, e) \in Seq(S)
        /\ DOMAIN Append(q, e) = 1..(Len(q) + 1)
        /\ DOMAIN q = 1..Len(q)
        /\ Len(q) \in Nat
        /\ \A i \in 1..Len(q) : Append(q, e)[i] = q[i]
        /\ Append(q, e)[Len(q) + 1] = e
    OBVIOUS
  <1>2. 1..(Len(q) + 1) = 1..Len(q) \cup {Len(q) + 1}
    BY <1>1
  <1> QED
    BY <1>1, <1>2 DEF Range

\* What taking the first element of a queue leaves of it.
LEMMA TailKeeps ==
    ASSUME NEW S, NEW q \in Seq(S), q # <<>>
    PROVE  /\ Tail(q) \in Seq(S)
           /\ q[1] \in S
           /\ q[1] \in Range(q)
           /\ Range(Tail(q)) \subseteq Range(q)
  <1>1. /\ Tail(q) \in Seq(S)
        /\ Len(q) \in Nat /\ Len(q) >= 1
        /\ DOMAIN q = 1..Len(q)
        /\ DOMAIN Tail(q) = 1..(Len(q) - 1)
        /\ \A i \in 1..(Len(q) - 1) : Tail(q)[i] = q[i + 1]
        /\ \A i \in 1..Len(q) : q[i] \in S
    OBVIOUS
  <1> QED
    BY <1>1 DEF Range

\* Nothing is in the empty sequence.
LEMMA EmptyRange == Range(<<>>) = {}
  BY DEF Range

\* The same for the two kinds of queue of this module.
LEMMA RemovalQueue ==
    /\ <<>> \in Removals
    /\ \A q \in Removals, k \in 0..N :
          Append(q, k) \in Removals /\ Range(Append(q, k)) = Range(q) \cup {k}
    /\ \A q \in Removals : q # <<>> =>
          /\ Tail(q) \in Removals
          /\ q[1] \in Range(q)
          /\ Range(Tail(q)) \subseteq Range(q)
  <1>1. <<>> \in Removals
    BY DEF Removals
  <1>2. ASSUME NEW q \in Removals, NEW k \in 0..N
        PROVE  Append(q, k) \in Removals /\ Range(Append(q, k)) = Range(q) \cup {k}
    <2> DEFINE S == 0..N
    <2>1. q \in Seq(S) /\ k \in S
      BY DEF Removals
    <2>2. Append(q, k) \in Seq(S) /\ Range(Append(q, k)) = Range(q) \cup {k}
      <3> HIDE DEF S
      <3> QED
        BY <2>1, AppendAdds
    <2> QED
      BY <2>2 DEF Removals
  <1>3. ASSUME NEW q \in Removals, q # <<>>
        PROVE  /\ Tail(q) \in Removals
               /\ q[1] \in Range(q)
               /\ Range(Tail(q)) \subseteq Range(q)
    BY <1>3, TailKeeps DEF Removals
  <1> QED
    BY <1>1, <1>2, <1>3

\* Event queues, with one more and one less.
LEMMA EventQueue ==
    /\ <<>> \in EventBufs
    /\ \A q \in EventBufs, e \in {"event", "halt"} : Append(q, e) \in EventBufs
    /\ \A q \in EventBufs : q # <<>> => Tail(q) \in EventBufs
  BY AppendAdds, TailKeeps DEF EventBufs

\* A system call reaches a connection that has the descriptor, or none.
LEMMA ConnAtIs ==
    ASSUME NEW f
    PROVE  \/ ConnAt(f) = None /\ \A c \in Cid : ~(HasSocket(c) /\ fd[c] = f)
           \/ ConnAt(f) \in Cid /\ HasSocket(ConnAt(f)) /\ fd[ConnAt(f)] = f
  BY DEF ConnAt

\* A descriptor belongs to one connection or to none.
LEMMA ConnAtType == \A f : ConnAt(f) \in 0..N
  BY ConnAtIs, ListenerAssumption DEF Cid, None

-----------------------------------------------------------------------------
(* Type correctness *)

\* Every step keeps the types, given that clients are registered once.
LEMMA TypeStep == TypeOK /\ Registered /\ [RacyNext]_vars => TypeOK'
  <1> SUFFICES ASSUME TypeOK, Registered, [RacyNext]_vars PROVE TypeOK'
    OBVIOUS
  <1>0. None \in 0..N /\ Cid \subseteq 0..N
    BY ListenerAssumption DEF Cid, None
  <1> USE <1>0, RemovalQueue, EventQueue
        DEF TypeOK, listener, removal, object, in, out
  <1>1. CASE AccStep
    <2>1. ASSUME NEW f \in Fd, Accept(f) PROVE TypeOK'
      <3>1. nextCid \in Cid /\ nextCid + 1 \in 1..(N + 1)
        BY <2>1, ListenerAssumption DEF Accept, Cid
      <3>2. /\ stage' \in [Cid -> Stage] /\ fd' \in [Cid -> Fd \cup {None}]
            /\ inp' \in [Cid -> InPc] /\ acc' \in AccPc
            /\ nextCid' \in 1..(N + 1)
        BY <2>1, <3>1 DEF Accept, AccPc, Stage, InPc
      <3> QED
        BY <2>1, <3>2 DEF Accept
    <2>2. CASE StartOut
      BY <2>2 DEF StartOut, AccPc, OutPc
    <2>3. CASE Register
      <3>1. clients' \in SUBSET Cid /\ acc' \in AccPc
        BY <2>3 DEF Register, Registered, AccPc
      <3> QED
        BY <2>3, <3>1 DEF Register
    <2>4. CASE AcceptLoop \/ AcceptThrows \/ AcceptInterrupted
      BY <2>4 DEF AcceptLoop, AcceptThrows, AcceptInterrupted, AccPc
    <2> QED
      BY <1>1, <2>1, <2>2, <2>3, <2>4 DEF AccStep
  <1>2. CASE ReapStep
    <2>1. CASE ReapLoop
      BY <2>1 DEF ReapLoop, ReapPc
    <2>2. CASE GetRemovals
      BY <2>2 DEF GetRemovals, ReapPc
    <2>3. CASE SkipRemoval
      BY <2>3 DEF SkipRemoval, ReapPc
    <2>4. CASE Erase
      BY <2>4 DEF Erase, ReapPc, Stage
    <2>5. CASE Erased
      BY <2>5 DEF Erased, ReapPc, Registered
    <2> QED
      BY <1>2, <2>1, <2>2, <2>3, <2>4, <2>5 DEF ReapStep
  <1>3. CASE EraseRacesRegister
    BY <1>3 DEF EraseRacesRegister, AccPc, ReapPc, Stage
  <1>4. CASE Stop \/ MainStep
    <2>1. CASE WakeReaper
      BY <2>1 DEF WakeReaper, MainPc, None
    <2>2. ASSUME NEW c \in Cid, ClearNext(c) PROVE TypeOK'
      BY <2>2 DEF ClearNext, Stage
    <2>3. CASE Stop \/ CloseListener \/ JoinThreads \/ Cleared
      BY <2>3 DEF Stop, CloseListener, JoinThreads, Cleared, MainPc
    <2> QED
      BY <1>4, <2>1, <2>2, <2>3 DEF MainStep
  <1>5. ASSUME NEW c \in Cid, DtorStep(c) PROVE TypeOK'
    <2>1. CASE DtorShutdown(c) \/ DtorClose(c)
      BY <2>1 DEF DtorShutdown, DtorClose, Stage
    <2>2. CASE DtorHalt(c)
      BY <2>2 DEF DtorHalt, Stage
    <2>3. CASE DtorJoin(c)
      BY <2>3 DEF DtorJoin, Stage
    <2> QED
      BY <1>5, <2>1, <2>2, <2>3 DEF DtorStep
  <1>6. ASSUME NEW c \in Cid, InStep(c) PROVE TypeOK'
    <2>1. ASSUME NEW pc \in InPc, NEW k \in 0..N, InGoesTo(c, pc, k)
          PROVE  TypeOK'
      BY <2>1 DEF InGoesTo
    <2>2. CASE InRemove(c)
      BY <2>2 DEF InRemove, InPc
    <2>3. CASE InLoop(c) \/ InOp(c) \/ InReadData(c) \/ InReadEnd(c)
      BY <2>1, <2>3, ConnAtType
      DEF InLoop, InOp, InReadData, InReadEnd, InPc
    <2>4. CASE InWrite(c) \/ InWritten(c) \/ InWriteFails(c)
      BY <2>1, <2>4, ConnAtType DEF InWrite, InWritten, InWriteFails, InPc
    <2> QED
      BY <1>6, <2>2, <2>3, <2>4 DEF InStep
  <1>7. ASSUME NEW c \in Cid, OutStep(c) PROVE TypeOK'
    <2>1. ASSUME NEW pc \in OutPc, NEW k \in 0..N, NEW b \in EventBufs,
                 OutGoesTo(c, pc, k, b)
          PROVE  /\ outp' \in [Cid -> OutPc] /\ outConn' \in [Cid -> 0..N]
                 /\ batch' \in [Cid -> EventBufs]
      BY <2>1 DEF OutGoesTo
    <2>2. CASE OutLoop(c)
      BY <2>1, <2>2 DEF OutLoop, OutPc
    <2>6. CASE OutPop(c)
      BY <2>1, <2>6 DEF OutPop, OutPc
    <2>3. CASE OutNext(c)
      BY <2>1, <2>3, ConnAtType DEF OutNext, OutPc
    <2>4. CASE OutWritten(c) \/ OutWriteFails(c)
      BY <2>1, <2>4 DEF OutWritten, OutWriteFails, OutPc
    <2>5. CASE OutRemove(c)
      BY <2>5 DEF OutRemove, OutPc
    <2> QED
      BY <1>7, <2>2, <2>3, <2>4, <2>5, <2>6 DEF OutStep
  <1>8. ASSUME NEW c \in Cid, PushEvent(c) \/ PeerCloses(c) PROVE TypeOK'
    <2>1. CASE PushEvent(c)
      BY <2>1 DEF PushEvent
    <2>2. CASE PeerCloses(c)
      BY <2>2 DEF PeerCloses
    <2> QED
      BY <1>8, <2>1, <2>2
  <1>9. CASE UNCHANGED vars
    BY <1>9 DEF vars
  <1> QED
    BY <1>1, <1>2, <1>3, <1>4, <1>5, <1>6, <1>7, <1>8, <1>9
    DEF RacyNext, Next, Terminated

-----------------------------------------------------------------------------
(* What each group of steps leaves alone *)

\* What the client's own threads leave alone.
LEMMA ThreadFrame ==
    ASSUME NEW c \in Cid, InStep(c) \/ OutStep(c) \/ PushEvent(c) \/ PeerCloses(c)
    PROVE  UNCHANGED <<running, nextCid, clients, acc, reap, rms, main, stage, fd>>
  <1> USE DEF listener, removal, object
  <1>1. CASE InStep(c)
    BY <1>1 DEF InStep, InLoop, InOp, InReadData, InReadEnd, InWrite, InWritten,
                InWriteFails, InRemove, InGoesTo
  <1>2. CASE OutStep(c)
    BY <1>2 DEF OutStep, OutLoop, OutPop, OutNext, OutWritten, OutWriteFails, OutRemove
  <1>3. CASE PushEvent(c) \/ PeerCloses(c)
    BY <1>3 DEF PushEvent, PeerCloses
  <1> QED
    BY <1>1, <1>2, <1>3

\* What ~Client leaves alone, and the stages it goes through.
LEMMA DtorFrame ==
    ASSUME NEW c \in Cid, DtorStep(c)
    PROVE  /\ UNCHANGED <<running, nextCid, clients, rmq, acc, reap, rms, main,
                          fd, inp, inConn, outp>>
           /\ \/ stage[c] = "dying"  /\ stage' = [stage EXCEPT ![c] = "shut"]
              \/ stage[c] = "shut"   /\ stage' = [stage EXCEPT ![c] = "closed"]
              \/ stage[c] = "closed" /\ stage' = [stage EXCEPT ![c] = "halted"]
              \/ /\ stage[c] = "halted" /\ inp[c] = "done"
                 /\ stage' = [stage EXCEPT ![c] = "gone"]
  BY DEF DtorStep, DtorShutdown, DtorClose, DtorHalt, DtorJoin,
         listener, removal, in, out

\* What the main thread leaves alone while it stops.
LEMMA MainFrame ==
    ASSUME Stop \/ CloseListener \/ WakeReaper \/ JoinThreads \/ Cleared
    PROVE  UNCHANGED <<nextCid, clients, acc, reap, rms, stage, fd, inp, inConn, outp>>
  BY DEF Stop, CloseListener, WakeReaper, JoinThreads, Cleared,
         listener, removal, object, in, out

\* A thread step of c moves no other client's reading thread, and one that has
\* not been started or has ended does not move.
LEMMA InFrame ==
    ASSUME TypeOK, NEW c \in Cid,
           InStep(c) \/ OutStep(c) \/ PushEvent(c) \/ PeerCloses(c)
    PROVE  /\ inp' = [inp EXCEPT ![c] = inp'[c]]
           /\ inConn' = [inConn EXCEPT ![c] = inConn'[c]]
           /\ inp[c] \in {"off", "done"} => inp' = inp /\ inConn' = inConn
           /\ outp' = [outp EXCEPT ![c] = outp'[c]]
           /\ outp[c] \in {"off", "done"} => outp' = outp
  <1> USE DEF TypeOK, in, out
  <1>1. CASE InStep(c)
    BY <1>1 DEF InStep, InLoop, InOp, InReadData, InReadEnd, InWrite, InWritten,
                InWriteFails, InRemove, InGoesTo
  <1>2. CASE OutStep(c)
    BY <1>2 DEF OutStep, OutLoop, OutPop, OutNext, OutWritten, OutWriteFails,
                OutRemove, OutGoesTo
  <1>3. CASE PushEvent(c) \/ PeerCloses(c)
    BY <1>3 DEF PushEvent, PeerCloses
  <1> QED
    BY <1>1, <1>2, <1>3

\* A thread that makes a step was started and has not ended.
LEMMA Started ==
    ASSUME NEW c \in Cid
    PROVE  /\ InStep(c) => inp[c] \notin {"off", "done"} /\ UNCHANGED <<outp, outConn>>
           /\ OutStep(c) => outp[c] \notin {"off", "done"} /\ UNCHANGED <<inp, inConn>>
  <1>1. ASSUME InStep(c)
        PROVE  inp[c] \notin {"off", "done"} /\ UNCHANGED <<outp, outConn>>
    BY <1>1 DEF InStep, InLoop, InOp, InReadData, InReadEnd, InWrite, InWritten,
                InWriteFails, InRemove, InGoesTo, out
  <1>2. ASSUME OutStep(c)
        PROVE  outp[c] \notin {"off", "done"} /\ UNCHANGED <<inp, inConn>>
    BY <1>2 DEF OutStep, OutLoop, OutPop, OutNext, OutWritten, OutWriteFails,
                OutRemove, in
  <1> QED
    BY <1>1, <1>2

-----------------------------------------------------------------------------
(* Who queues what for removal *)

\* No step of the server's own threads makes an id other than 0 pending.
LEMMA PendingKept ==
    ASSUME TypeOK, Registered,
           \/ AccStep \/ ReapStep \/ EraseRacesRegister \/ Stop \/ MainStep
           \/ (\E c \in Cid : DtorStep(c) \/ PushEvent(c) \/ PeerCloses(c))
           \/ UNCHANGED vars
    PROVE  Pending' \subseteq Pending \cup {0}
  <1> USE DEF TypeOK, listener, removal, in, out
  <1>1. CASE UNCHANGED <<rmq, rms>>
    BY <1>1 DEF Pending
  <1>2. ASSUME rms # <<>>, rms' = Tail(rms), rmq' = rmq
        PROVE  Pending' \subseteq Pending
    BY <1>2, RemovalQueue DEF Pending
  <1>3. CASE GetRemovals
    BY <1>3, EmptyRange DEF GetRemovals, Pending
  <1>4. CASE SkipRemoval
    <2>1. CASE rms' = <<>>
      BY <1>4, <2>1, EmptyRange DEF SkipRemoval, Pending
    <2>2. CASE rms # <<>> /\ rms' = Tail(rms)
      BY <1>2, <1>4, <2>2 DEF SkipRemoval
    <2> QED
      BY <1>4, <2>1, <2>2 DEF SkipRemoval
  <1>5. CASE Erased \/ EraseRacesRegister
    BY <1>1, <1>2, <1>5 DEF Erased, EraseRacesRegister, Registered
  <1>6. CASE WakeReaper
    <2>1. Range(rmq') = Range(rmq) \cup {0} /\ rms' = rms
      BY <1>6, RemovalQueue, ListenerAssumption DEF WakeReaper
    <2> QED
      BY <2>1 DEF Pending
  <1>7. CASE \/ AccStep \/ ReapLoop \/ Erase \/ Stop \/ CloseListener
             \/ JoinThreads \/ Cleared \/ UNCHANGED vars
    BY <1>1, <1>7 DEF AccStep, AcceptLoop, Accept, AcceptThrows,
       AcceptInterrupted, StartOut, Register, ReapLoop, Erase, Stop,
       CloseListener, JoinThreads, Cleared, vars
  <1>8. CASE \E c \in Cid : ClearNext(c)
    BY <1>1, <1>8 DEF ClearNext
  <1>9. CASE \E c \in Cid : DtorStep(c) \/ PushEvent(c) \/ PeerCloses(c)
    BY <1>1, <1>9, DtorFrame DEF PushEvent, PeerCloses
  <1> QED
    BY <1>3, <1>4, <1>5, <1>6, <1>7, <1>8, <1>9 DEF ReapStep, MainStep

\* A client's thread makes its own id pending, with its last step.
LEMMA PendingOwn ==
    ASSUME TypeOK, NEW c \in Cid, InStep(c) \/ OutStep(c)
    PROVE  /\ Pending' \subseteq Pending \cup {c}
           /\ c \in Pending' => \/ c \in Pending
                                \/ inp[c] = "removing" /\ inp'[c] = "done"
                                \/ outp[c] = "removing"
  <1> USE DEF TypeOK, listener, removal
  <1>1. CASE InRemove(c) \/ OutRemove(c)
    <2>1. rmq' = Append(rmq, c) /\ rms' = rms /\ c \in 0..N
      BY <1>1 DEF InRemove, OutRemove, Cid
    <2>2. Range(rmq') = Range(rmq) \cup {c}
      BY <2>1, RemovalQueue
    <2>3. (inp[c] = "removing" /\ inp'[c] = "done") \/ outp[c] = "removing"
      BY <1>1 DEF InRemove, OutRemove
    <2> QED
      BY <2>1, <2>2, <2>3 DEF Pending
  <1>2. CASE InStep(c) /\ ~InRemove(c)
    BY <1>2 DEF InStep, InLoop, InOp, InReadData, InReadEnd, InWrite,
       InWritten, InWriteFails, InGoesTo, Pending
  <1>3. CASE OutStep(c) /\ ~OutRemove(c)
    BY <1>3 DEF OutStep, OutLoop, OutPop, OutNext, OutWritten, OutWriteFails, Pending
  <1> QED
    BY <1>1, <1>2, <1>3

-----------------------------------------------------------------------------
(* The clauses of the invariant, one by one *)

\* Every step registers only clients that nobody has begun to destroy.
LEMMA RegisteredStep ==
    TypeOK /\ Numbered /\ Registered /\ [RacyNext]_vars => Registered'
  <1> SUFFICES ASSUME TypeOK, Numbered, Registered, [RacyNext]_vars PROVE Registered'
    OBVIOUS
  <1> USE DEF TypeOK, Registered, listener, removal, object
  <1>1. CASE AccStep
    <2>1. ASSUME NEW f \in Fd, Accept(f) PROVE Registered'
      BY <2>1, ListenerAssumption DEF Accept, Numbered, Cid
    <2>2. CASE AccStep /\ ~(\E f \in Fd : Accept(f))
      BY <2>2 DEF AccStep, AcceptLoop, AcceptThrows, AcceptInterrupted,
                  StartOut, Register
    <2> QED
      BY <1>1, <2>1, <2>2
  <1>2. CASE ReapStep
    BY <1>2 DEF ReapStep, ReapLoop, GetRemovals, SkipRemoval, Erase, Erased
  <1>3. CASE EraseRacesRegister
    BY <1>3 DEF EraseRacesRegister
  <1>4. CASE Stop \/ CloseListener \/ WakeReaper \/ JoinThreads \/ Cleared
    BY <1>4, MainFrame
  <1>5. ASSUME NEW c \in Cid, ClearNext(c) PROVE Registered'
    BY <1>5 DEF ClearNext
  <1>6. ASSUME NEW c \in Cid, DtorStep(c) PROVE Registered'
    <2>1. \A d \in Cid : stage[d] = "made" => stage'[d] = "made"
      BY <1>6, DtorFrame
    <2> QED
      BY <1>6, <2>1, DtorFrame
  <1>7. ASSUME NEW c \in Cid,
               InStep(c) \/ OutStep(c) \/ PushEvent(c) \/ PeerCloses(c)
        PROVE  Registered'
    BY <1>7, ThreadFrame
  <1>8. CASE UNCHANGED vars
    BY <1>8 DEF vars
  <1> QED
    BY <1>1, <1>2, <1>3, <1>4, <1>5, <1>6, <1>7, <1>8
    DEF RacyNext, Next, MainStep, Terminated

\* Every step keeps the clients that exist numbered below the next one.
LEMMA NumberedStep ==
    TypeOK /\ Numbered /\ Registered /\ QueuedLast /\ [RacyNext]_vars => Numbered'
  <1> SUFFICES ASSUME TypeOK, Numbered, Registered, QueuedLast, [RacyNext]_vars
               PROVE  Numbered'
    OBVIOUS
  <1> USE DEF TypeOK, listener, removal, object, in, out
  <1>1. ASSUME Pending' \subseteq Pending \cup {0}, UNCHANGED nextCid,
               \A c \in Cid : /\ stage'[c] = "none" <=> stage[c] = "none"
                              /\ stage[c] = "none" =>
                                    inp'[c] = inp[c] /\ outp'[c] = outp[c]
        PROVE  Numbered'
    BY <1>1 DEF Numbered, Cid
  <1>2. ASSUME NEW f \in Fd, Accept(f) PROVE Numbered'
    <2>1. Pending' \subseteq Pending \cup {0}
      BY <1>2, PendingKept DEF AccStep
    <2> QED
      BY <1>2, <2>1 DEF Accept, Numbered, Cid
  <1>3. CASE AcceptLoop \/ AcceptThrows \/ AcceptInterrupted \/ StartOut \/ Register
    BY <1>1, <1>3, PendingKept DEF AccStep, AcceptLoop, AcceptThrows,
       AcceptInterrupted, StartOut, Register, Registered
  <1>4. CASE ReapStep \/ EraseRacesRegister
    BY <1>1, <1>4, PendingKept DEF ReapStep, ReapLoop, GetRemovals, SkipRemoval,
       Erase, Erased, EraseRacesRegister, Registered
  <1>5. CASE Stop \/ MainStep
    BY <1>1, <1>5, PendingKept, MainFrame DEF MainStep, ClearNext, Registered
  <1>6. ASSUME NEW c \in Cid, DtorStep(c) PROVE Numbered'
    BY <1>1, <1>6, PendingKept, DtorFrame
  <1>7. ASSUME NEW c \in Cid, PushEvent(c) \/ PeerCloses(c) PROVE Numbered'
    BY <1>1, <1>7, PendingKept DEF PushEvent, PeerCloses
  <1>8. ASSUME NEW c \in Cid, InStep(c) \/ OutStep(c) PROVE Numbered'
    <2>1. UNCHANGED <<stage, nextCid>>
      BY <1>8, ThreadFrame
    <2>2. stage[c] # "none"
      BY <1>8, Started DEF Numbered
    <2> QED
      BY <1>8, <2>1, <2>2, InFrame, PendingOwn DEF Numbered
  <1>9. CASE UNCHANGED vars
    BY <1>1, <1>9, PendingKept DEF vars
  <1> QED
    BY <1>2, <1>3, <1>4, <1>5, <1>6, <1>7, <1>8, <1>9
    DEF RacyNext, Next, AccStep, Terminated

\* Every step keeps a removal queued behind what the thread still does.
LEMMA QueuedLastStep ==
    TypeOK /\ Numbered /\ Registered /\ QueuedLast /\ [RacyNext]_vars => QueuedLast'
  <1> SUFFICES ASSUME TypeOK, Numbered, Registered, QueuedLast, [RacyNext]_vars
               PROVE  QueuedLast'
    OBVIOUS
  <1> USE DEF TypeOK, listener, removal, object, in, out, QueuedLast
  <1>0. 0 \notin Cid
    BY DEF Cid
  <1>1. CASE AccStep
    <2>1. Pending' \subseteq Pending \cup {0}
      BY <1>1, PendingKept
    <2>2. ASSUME NEW f \in Fd, Accept(f) PROVE QueuedLast'
      BY <1>0, <2>1, <2>2 DEF Accept, Numbered, ClientRunning
    <2>3. CASE StartOut
      BY <1>0, <2>1, <2>3 DEF StartOut, ClientRunning, Registered
    <2>4. CASE AcceptLoop \/ AcceptThrows \/ AcceptInterrupted \/ Register
      BY <1>0, <2>1, <2>4
      DEF AcceptLoop, AcceptThrows, AcceptInterrupted, Register, ClientRunning
    <2> QED
      BY <1>1, <2>2, <2>3, <2>4 DEF AccStep
  <1>2. CASE ReapStep \/ EraseRacesRegister
    <2>1. Pending' \subseteq Pending \cup {0}
      BY <1>2, PendingKept
    <2> QED
      BY <1>0, <1>2, <2>1 DEF ReapStep, ReapLoop, GetRemovals, SkipRemoval,
         Erase, Erased, EraseRacesRegister, ClientRunning, Registered
  <1>3. CASE Stop \/ MainStep
    <2>1. Pending' \subseteq Pending \cup {0}
      BY <1>3, PendingKept
    <2> QED
      BY <1>0, <1>3, <2>1 DEF Stop, MainStep, CloseListener, WakeReaper,
         JoinThreads, ClearNext, Cleared, ClientRunning, Registered
  <1>4. ASSUME NEW c \in Cid, DtorStep(c) PROVE QueuedLast'
    <2>1. Pending' \subseteq Pending \cup {0}
      BY <1>4, PendingKept
    <2> QED
      BY <1>0, <1>4, <2>1, DtorFrame DEF ClientRunning
  <1>5. ASSUME NEW c \in Cid, PushEvent(c) \/ PeerCloses(c) PROVE QueuedLast'
    <2>1. Pending' \subseteq Pending \cup {0}
      BY <1>5, PendingKept
    <2> QED
      BY <1>0, <1>5, <2>1 DEF PushEvent, PeerCloses, ClientRunning
  <1>6. ASSUME NEW c \in Cid, InStep(c) PROVE QueuedLast'
    <2>1. UNCHANGED <<stage, outp>>
      BY <1>6, ThreadFrame, Started
    <2>2. outp[c] = "removing" => stage[c] # "made"
      BY DEF ClientRunning
    <2> QED
      BY <1>6, <2>1, <2>2, InFrame, PendingOwn DEF ClientRunning
  <1>7. ASSUME NEW c \in Cid, OutStep(c) PROVE QueuedLast'
    <2>1. UNCHANGED <<stage, inp>>
      BY <1>7, ThreadFrame, Started
    <2>2. outp'[c] \in {"removing", "done"} => ~ClientRunning(c)
      BY <1>7 DEF OutStep, OutLoop, OutPop, OutNext, OutWritten, OutWriteFails,
                  OutRemove, OutGoesTo
    <2> QED
      BY <1>7, <2>1, <2>2, InFrame, PendingOwn DEF ClientRunning
  <1>8. CASE UNCHANGED vars
    BY <1>8, PendingKept, <1>0 DEF vars, ClientRunning
  <1> QED
    BY <1>1, <1>2, <1>3, <1>4, <1>5, <1>6, <1>7, <1>8 DEF RacyNext, Next, Terminated

\* Every step leaves a descriptor with one connection.
LEMMA ExclusiveStep == TypeOK /\ Registered /\ Exclusive /\ [RacyNext]_vars => Exclusive'
  <1> SUFFICES ASSUME TypeOK, Registered, Exclusive, [RacyNext]_vars PROVE Exclusive'
    OBVIOUS
  <1> USE DEF TypeOK, object
  \* Opening a socket is what could break it.
  <1>1. ASSUME fd' = fd, \A c \in Cid : HasSocket(c)' => HasSocket(c)
        PROVE  Exclusive'
    BY <1>1 DEF Exclusive
  <1>2. ASSUME NEW f \in Fd, Accept(f) PROVE Exclusive'
    BY <1>2 DEF Accept, Exclusive, HasSocket, FdInUse
  <1>3. CASE AcceptLoop \/ AcceptThrows \/ AcceptInterrupted \/ StartOut \/ Register
    BY <1>1, <1>3 DEF AcceptLoop, AcceptThrows, AcceptInterrupted, StartOut,
                      Register, HasSocket
  <1>4. CASE ReapStep \/ EraseRacesRegister
    BY <1>1, <1>4 DEF ReapStep, ReapLoop, GetRemovals, SkipRemoval, Erase,
                      Erased, EraseRacesRegister, Registered, HasSocket
  <1>5. CASE Stop \/ MainStep
    BY <1>1, <1>5, MainFrame DEF MainStep, ClearNext, Registered, HasSocket
  <1>6. ASSUME NEW c \in Cid, DtorStep(c) PROVE Exclusive'
    BY <1>1, <1>6, DtorFrame DEF HasSocket
  <1>7. ASSUME NEW c \in Cid,
               InStep(c) \/ OutStep(c) \/ PushEvent(c) \/ PeerCloses(c)
        PROVE  Exclusive'
    BY <1>1, <1>7, ThreadFrame DEF HasSocket
  <1>8. CASE UNCHANGED vars
    BY <1>1, <1>8 DEF vars, HasSocket
  <1> QED
    BY <1>2, <1>3, <1>4, <1>5, <1>6, <1>7, <1>8 DEF RacyNext, Next, AccStep, Terminated

\* Every step keeps what may be said of a reader whose client is going.
LEMMA LateReaderStep ==
    /\ TypeOK /\ Numbered /\ Registered /\ Exclusive /\ QueuedLast /\ LateReader
    /\ [RacyNext]_vars
    => LateReader'
  <1> SUFFICES ASSUME TypeOK, Numbered, Registered, Exclusive, QueuedLast,
                      LateReader, [RacyNext]_vars
               PROVE  LateReader'
    OBVIOUS
  <1> USE DEF TypeOK, object, in
  <1>1. ASSUME UNCHANGED <<acc, main, stage, fd>>,
               \A c \in Cid : inp[c] = "done" => inp'[c] = "done"
        PROVE  LateReader'
    BY <1>1 DEF LateReader, HasSocket
  <1>2. ASSUME NEW f \in Fd, Accept(f) PROVE LateReader'
    <2>1. main \notin {"clearing", "gone"}
      BY <1>2 DEF Accept
    <2>2. \A c \in Cid : stage[c] \notin {"none", "made"} => inp[c] = "done"
      BY <2>1 DEF LateReader
    <2>3. stage[nextCid] = "none"
      BY <1>2 DEF Accept, Numbered, Cid
    <2> QED
      BY <1>2, <2>1, <2>2, <2>3 DEF Accept, LateReader
  <1>3. CASE AcceptLoop \/ AcceptThrows \/ AcceptInterrupted \/ StartOut \/ Register
    BY <1>3 DEF AcceptLoop, AcceptThrows, AcceptInterrupted, StartOut, Register,
                LateReader, HasSocket
  <1>4. CASE ReapStep \/ EraseRacesRegister
    <2>1. CASE UNCHANGED <<acc, main, stage, fd, inp>>
      BY <1>1, <2>1
    <2>2. CASE Erase \/ EraseRacesRegister
      <3>1. ASSUME rms # <<>>, rms[1] \in clients PROVE inp[rms[1]] = "done"
        BY <3>1, RemovalQueue DEF QueuedLast, Registered, Pending
      <3>2. /\ UNCHANGED <<main, fd, inp>>
            /\ acc = "done" => acc' = "done"
            /\ \A c \in Cid : HasSocket(c)' <=> HasSocket(c)
            /\ \A c \in Cid : inp[c] # "done" => stage'[c] = stage[c]
        BY <2>2, <3>1 DEF Erase, EraseRacesRegister, Registered, HasSocket
      <3> QED
        BY <3>2 DEF LateReader
    <2> QED
      BY <1>4, <2>1, <2>2 DEF ReapStep, ReapLoop, GetRemovals, SkipRemoval, Erased
  <1>5. CASE Stop \/ CloseListener \/ WakeReaper \/ JoinThreads \/ Cleared
    BY <1>5, MainFrame DEF Stop, CloseListener, WakeReaper, JoinThreads, Cleared,
                           LateReader, HasSocket
  <1>6. ASSUME NEW c \in Cid, ClearNext(c) PROVE LateReader'
    BY <1>6 DEF ClearNext, Registered, LateReader, HasSocket
  <1>7. ASSUME NEW c \in Cid, DtorStep(c) PROVE LateReader'
    <2>1. UNCHANGED <<acc, main, fd, inp>>
      BY <1>7, DtorFrame
    <2>2. \A d \in Cid : HasSocket(d)' => HasSocket(d)
      BY <1>7, DtorFrame DEF HasSocket
    <2>3. \A d \in Cid : stage'[d] \notin {"none", "made"}
                         <=> stage[d] \notin {"none", "made"}
      BY <1>7, DtorFrame
    <2>4. \A d \in Cid : HasSocket(d) /\ ~HasSocket(d)' =>
                \A e \in Cid : HasSocket(e)' => fd[e] # fd[d]
      BY <2>2 DEF Exclusive
    <2> QED
      BY <2>1, <2>2, <2>3, <2>4 DEF LateReader
  <1>8. ASSUME NEW c \in Cid,
               InStep(c) \/ OutStep(c) \/ PushEvent(c) \/ PeerCloses(c)
        PROVE  LateReader'
    BY <1>1, <1>8, ThreadFrame, InFrame
  <1>9. CASE UNCHANGED vars
    BY <1>1, <1>9 DEF vars
  <1> QED
    BY <1>2, <1>3, <1>4, <1>5, <1>6, <1>7, <1>8, <1>9
    DEF RacyNext, Next, AccStep, MainStep, Terminated

\* No step loses a client that was accepted; this one needs the lock.
LEMMA NotLostStep ==
    TypeOK /\ Numbered /\ Registered /\ NotLost /\ [Next]_vars => NotLost'
  <1> SUFFICES ASSUME TypeOK, Numbered, Registered, NotLost, [Next]_vars
               PROVE  \A c \in Cid : stage'[c] = "made" =>
                        c \in clients' \/ (acc' \in {"ctor", "insert"} /\ c = nextCid' - 1)
    BY DEF NotLost
  <1> USE DEF TypeOK, NotLost, listener, object
  <1>1. CASE AccStep
    <2>1. ASSUME NEW f \in Fd, Accept(f) PROVE NotLost'
      BY <2>1 DEF Accept
    <2>2. CASE AccStep /\ ~(\E f \in Fd : Accept(f))
      BY <2>2 DEF AccStep, AcceptLoop, AcceptThrows, AcceptInterrupted,
                  StartOut, Register
    <2> QED
      BY <1>1, <2>1, <2>2
  <1>2. CASE ReapStep
    BY <1>2 DEF ReapStep, ReapLoop, GetRemovals, SkipRemoval, Erase, Erased
  <1>3. CASE Stop \/ MainStep
    BY <1>3, MainFrame DEF MainStep, ClearNext
  <1>4. ASSUME NEW c \in Cid, DtorStep(c) PROVE NotLost'
    BY <1>4, DtorFrame
  <1>5. ASSUME NEW c \in Cid,
               InStep(c) \/ OutStep(c) \/ PushEvent(c) \/ PeerCloses(c)
        PROVE  NotLost'
    BY <1>5, ThreadFrame
  <1>6. CASE UNCHANGED vars
    BY <1>6 DEF vars
  <1> QED
    BY <1>1, <1>2, <1>3, <1>4, <1>5, <1>6 DEF Next, Terminated

\* Every step lets a thread read from its own connection only.
LEMMA OwnConnStep ==
    /\ TypeOK /\ Numbered /\ Exclusive /\ LateReader /\ OwnConn
    /\ [RacyNext]_vars
    => OwnConn'
  <1> SUFFICES ASSUME TypeOK, Numbered, Exclusive, LateReader, OwnConn, [RacyNext]_vars
               PROVE  OwnConn'
    OBVIOUS
  <1> USE DEF TypeOK, OwnConn, in
  <1>1. CASE UNCHANGED inConn
    BY <1>1
  <1>2. ASSUME NEW c \in Cid, InStep(c) PROVE OwnConn'
    \* The descriptor of a client whose reader runs is its own or nobody's.
    <2>1. ConnAt(fd[c]) \in {None, c}
      <3>1. CASE HasSocket(c)
        BY <3>1, ConnAtIs DEF Exclusive
      <3>2. CASE ~HasSocket(c)
        <4>1. stage[c] \notin {"none", "made"} /\ inp[c] # "done"
          BY <1>2, <3>2, Started DEF Numbered, HasSocket
        <4> QED
          BY <3>2, <4>1, ConnAtIs DEF LateReader
      <3> QED
        BY <3>1, <3>2
    <2>2. inConn'[c] \in {None, c}
      BY <1>2, <2>1 DEF InStep, InLoop, InOp, InReadData, InReadEnd, InWrite,
         InWritten, InWriteFails, InRemove, InGoesTo
    <2> QED
      BY <1>2, <2>2, InFrame
  <1>3. CASE \/ AccStep \/ ReapStep \/ EraseRacesRegister \/ Stop \/ MainStep
             \/ \E c \in Cid : DtorStep(c) \/ OutStep(c) \/ PushEvent(c) \/ PeerCloses(c)
             \/ UNCHANGED vars
    <2>1. UNCHANGED inConn
      BY <1>3, DtorFrame, MainFrame, Started
      DEF AccStep, AcceptLoop, Accept, AcceptThrows, AcceptInterrupted, StartOut,
          Register, ReapStep, ReapLoop, GetRemovals, SkipRemoval, Erase, Erased,
          EraseRacesRegister, MainStep, ClearNext, PushEvent, PeerCloses, vars
    <2> QED
      BY <1>1, <2>1
  <1> QED
    BY <1>2, <1>3 DEF RacyNext, Next, Terminated

-----------------------------------------------------------------------------
(* The theorems *)

\* All of that holds throughout, with the race ...
LEMMA RacyInvHolds == RacySpec => []RacyInv
  <1>1. Init => RacyInv
    BY ListenerAssumption, RemovalQueue, EventQueue, EmptyRange
    DEF Init, RacyInv, TypeOK, Numbered, Registered, Exclusive, QueuedLast,
        LateReader, OwnConn, HasSocket, ClientRunning, Pending, Cid,
        None, AccPc, ReapPc, MainPc, Stage, InPc, OutPc
  <1>2. RacyInv /\ [RacyNext]_vars => RacyInv'
    BY TypeStep, RegisteredStep, NumberedStep, QueuedLastStep, ExclusiveStep,
       LateReaderStep, OwnConnStep DEF RacyInv
  <1> QED
    BY <1>1, <1>2, PTL DEF RacySpec

\* ... and more without it.
LEMMA IInvHolds == Spec => []IInv
  <1>1. Init => NotLost
    BY DEF Init, NotLost
  <1>2. RacyInv /\ NotLost /\ [Next]_vars => NotLost'
    BY NotLostStep DEF RacyInv
  <1>3. [Next]_vars => [RacyNext]_vars
    BY DEF RacyNext
  <1> QED
    BY <1>1, <1>2, <1>3, RacyInvHolds, PTL DEF Spec, RacySpec, IInv

\* A reading thread never acts on another client's connection, although
\* descriptors are closed and reused while threads that know them still run,
\* and even if an entry is lost to an overlap on the map.
THEOREM ReadersKeepToTheirOwn == Spec \/ RacySpec => []InUsesOwn
  <1>1. (IInv => InUsesOwn) /\ (RacyInv => InUsesOwn)
    BY DEF IInv, RacyInv, InUsesOwn
  <1> QED
    BY <1>1, IInvHolds, RacyInvHolds, PTL

-----------------------------------------------------------------------------
(* Refinement *)

\* A step of the listener is one of the abstract registry, or none.
LEMMA RegistryStep ==
    IInv /\ IInv' /\ [Next]_vars => [Registry!Next]_(Registry!vars)
  <1> SUFFICES ASSUME IInv, IInv', [Next]_vars
               PROVE  Registry!Next \/ UNCHANGED <<connBar, phaseBar>>
    BY DEF Registry!vars
  <1> USE DEF IInv, RacyInv, TypeOK, object, listener, in
  <1>0. connBar \in [Cid -> {"absent", "connected", "left", "dropped"}]
    BY DEF connBar
  \* A step that moves one client from one status to another.
  <1>a. ASSUME NEW c \in Cid, NEW v, stage' = [stage EXCEPT ![c] = stage'[c]],
               inp' = [inp EXCEPT ![c] = inp'[c]], connBar'[c] = v
        PROVE  connBar' = [connBar EXCEPT ![c] = v]
    BY <1>a DEF connBar
  <1>b. ASSUME UNCHANGED <<stage, inp>> PROVE UNCHANGED connBar
    BY <1>b DEF connBar
  <1>c. ASSUME UNCHANGED main PROVE UNCHANGED phaseBar
    BY <1>c DEF phaseBar
  <1>1. ASSUME NEW f \in Fd, Accept(f) PROVE Registry!Next
    <2> DEFINE c == nextCid
    <2>1. c \in Cid /\ stage[c] = "none"
      BY <1>1 DEF Accept, Numbered, Cid
    <2>2. connBar' = [connBar EXCEPT ![c] = "connected"]
      <3>1. stage'[c] = "made" /\ inp'[c] = "loop"
        BY <1>1, <2>1 DEF Accept
      <3>2. connBar'[c] = "connected"
        BY <2>1, <3>1 DEF connBar
      <3> QED
        BY <1>1, <1>a, <2>1, <3>1, <3>2 DEF Accept
    <2>3. phaseBar # "stopped" /\ UNCHANGED phaseBar
      BY <1>1, <1>c DEF Accept, phaseBar
    <2>4. \A d \in Cid : d < c => connBar[d] # "absent"
      BY <2>1 DEF Numbered, connBar, Cid
    <2>5. Registry!Connect(c)
      BY <2>1, <2>2, <2>3, <2>4 DEF Registry!Connect, Registry!Client, Cid, connBar
    <2> QED
      BY <2>1, <2>5 DEF Registry!Next, Registry!Client, Cid
  <1>2. CASE AcceptLoop \/ AcceptThrows \/ AcceptInterrupted \/ StartOut \/ Register
    BY <1>2, <1>b, <1>c DEF AcceptLoop, AcceptThrows, AcceptInterrupted, StartOut, Register
  <1>3. ASSUME NEW c \in Cid, stage[c] = "made",
               stage' = [stage EXCEPT ![c] = "dying"], UNCHANGED <<inp, main>>,
               inp[c] = "done" \/ main = "clearing"
        PROVE  Registry!Next
    <2>1. connBar'[c] = "dropped" /\ stage'[c] = "dying"
      BY <1>3 DEF connBar
    <2>2. connBar' = [connBar EXCEPT ![c] = "dropped"]
      BY <1>3, <1>a, <2>1
    <2>3. connBar[c] = "left" \/ (connBar[c] = "connected" /\ phaseBar = "stopping")
      BY <1>3 DEF connBar, phaseBar
    <2>4. Registry!Drop(c)
      BY <1>3, <1>c, <2>2, <2>3 DEF Registry!Drop
    <2> QED
      BY <2>4 DEF Registry!Next, Registry!Client, Cid
  <1>4. CASE Erase
    <2>1. rms[1] \in Cid /\ stage[rms[1]] = "made" /\ inp[rms[1]] = "done"
      BY <1>4, RemovalQueue DEF Erase, Registered, QueuedLast, Pending
    <2> QED
      BY <1>3, <1>4, <2>1 DEF Erase
  <1>5. CASE ReapLoop \/ GetRemovals \/ SkipRemoval \/ Erased
    BY <1>5, <1>b, <1>c DEF ReapLoop, GetRemovals, SkipRemoval, Erased
  <1>6. ASSUME NEW c \in Cid, ClearNext(c) PROVE Registry!Next
    BY <1>3, <1>6 DEF ClearNext, Registered
  <1>7. CASE Stop
    <2>1. phaseBar = "serving" /\ phaseBar' = "stopping" /\ UNCHANGED connBar
      BY <1>7, <1>b DEF Stop, phaseBar
    <2> QED
      BY <2>1 DEF Registry!Next, Registry!Stop
  <1>8. CASE CloseListener \/ WakeReaper \/ JoinThreads
    BY <1>8, <1>b DEF CloseListener, WakeReaper, JoinThreads, phaseBar
  <1>9. CASE Cleared
    <2>1. \A c \in Cid : stage[c] # "made"
      BY <1>9 DEF Cleared, NotLost, LateReader
    <2>2. \A c \in Cid : connBar[c] \in {"absent", "dropped"}
      BY <2>1 DEF connBar
    <2>3. phaseBar = "stopping" /\ phaseBar' = "stopped" /\ UNCHANGED connBar
      BY <1>9, <1>b DEF Cleared, phaseBar
    <2> QED
      BY <2>2, <2>3 DEF Registry!Next, Registry!Stopped, Registry!Client, Cid
  <1>10. ASSUME NEW c \in Cid, DtorStep(c) PROVE UNCHANGED <<connBar, phaseBar>>
    <2>1. \A d \in Cid : (stage'[d] = stage[d]) \/ (stage[d] \notin {"none", "made"}
                                                    /\ stage'[d] \notin {"none", "made"})
      BY <1>10, DtorFrame
    <2> QED
      BY <1>10, <1>c, <2>1, DtorFrame DEF connBar
  <1>11. ASSUME NEW c \in Cid, InStep(c)
         PROVE  Registry!Next \/ UNCHANGED <<connBar, phaseBar>>
    <2>1. UNCHANGED <<stage, main>> /\ inp[c] # "done"
      BY <1>11, ThreadFrame, Started
    <2>2. CASE stage[c] = "made" /\ inp'[c] = "done"
      <3>1. connBar[c] = "connected" /\ connBar'[c] = "left"
        BY <2>1, <2>2 DEF connBar
      <3>2. connBar' = [connBar EXCEPT ![c] = "left"]
        BY <1>11, <1>a, <2>1, <3>1, InFrame
      <3>3. Registry!Leave(c)
        BY <1>c, <2>1, <3>1, <3>2 DEF Registry!Leave
      <3> QED
        BY <3>3 DEF Registry!Next, Registry!Client, Cid
    <2>3. CASE ~(stage[c] = "made" /\ inp'[c] = "done")
      <3>1. connBar'[c] = connBar[c]
        BY <2>1, <2>3 DEF connBar
      <3>2. connBar' = [connBar EXCEPT ![c] = connBar[c]]
        BY <1>11, <1>a, <2>1, <3>1, InFrame
      <3> QED
        BY <1>0, <1>c, <2>1, <3>2
    <2> QED
      BY <2>2, <2>3
  <1>12. ASSUME NEW c \in Cid, OutStep(c) \/ PushEvent(c) \/ PeerCloses(c)
         PROVE  UNCHANGED <<connBar, phaseBar>>
    <2>1. UNCHANGED <<stage, inp, main>>
      BY <1>12, ThreadFrame, Started DEF PushEvent, PeerCloses
    <2> QED
      BY <1>b, <1>c, <2>1
  <1>13. CASE UNCHANGED vars
    BY <1>13, <1>b, <1>c DEF vars
  <1> QED
    BY <1>1, <1>2, <1>4, <1>5, <1>6, <1>7, <1>8, <1>9, <1>10, <1>11, <1>12, <1>13
    DEF Next, AccStep, ReapStep, MainStep, Terminated

\* Without the race on the unlocked map, the threads together implement the
\* registry of clients: each is dropped once, while the server serves only
\* after it has stopped sending, and all of them before the listener is gone.
THEOREM ListenerImplementsRegistry == Spec => ImplementsRegistry
  <1>1. Init => Registry!Init
    BY DEF Init, Registry!Init, Registry!Client, connBar, phaseBar, Cid
  <1>2. IInv /\ IInv' /\ [Next]_vars => [Registry!Next]_(Registry!vars)
    BY RegistryStep
  <1> QED
    BY <1>1, <1>2, IInvHolds, PTL DEF Spec, Registry!Spec, ImplementsRegistry

=============================================================================
