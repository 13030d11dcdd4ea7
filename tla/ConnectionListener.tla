-------------------------- MODULE ConnectionListener --------------------------
(***************************************************************************)
(* The life of client connections in the server: the accepting thread, the *)
(* reaping thread, the reading and the writing thread of every client, and *)
(* the thread that destroys the listener (net/ConnectionListener.cpp and   *)
(* the thread loops and destructor of net/Client.cpp).                     *)
(*                                                                         *)
(* Socket descriptors are modelled because close() makes a descriptor      *)
(* available to the next accept(): a system call of client c acts on       *)
(* whichever connection holds c's descriptor when the call is entered.     *)
(***************************************************************************)
EXTENDS Integers, Sequences, Functions

CONSTANTS
    N,          \* bound: connections made during one run of the server
    Fd,         \* socket descriptors the process can have open
    MaxEvents   \* bound: events waiting in one client at the same time

ASSUME ListenerAssumption ==
    /\ N \in Nat \ {0}
    /\ MaxEvents \in Nat

Cid == 1..N      \* client ids; 0 is the id that wakes the reaper up
None == 0        \* no connection: the descriptor is closed (EBADF)

VARIABLES
    running,    \* ConnectionListener::running
    nextCid,    \* next_cid
    clients,    \* keys of the map `clients`
    rmq,        \* rm_q
    acc,        \* where the accepting thread is
    reap,       \* where the reaping thread is
    rms,        \* the removals the reaping thread has taken
    main,       \* where the thread that runs ~ConnectionListener is
    stage,      \* stage[c]: how far the object Client c has got in its life
    fd,         \* fd[c]: Client::sock
    peer,       \* peer[c]: has the program at the other end closed?
    inp,        \* inp[c]: where in_thread of c is
    inConn,     \* inConn[c]: the connection its system call acts on
    outp,       \* outp[c]: where out_thread of c is
    outConn,    \* outConn[c]: the connection its system call acts on
    evq,        \* evq[c]: event_buf_q
    batch       \* batch[c]: event_bufs still to be sent by run_out

listener == <<running, nextCid, clients, rmq>>
removal  == <<reap, rms>>
object   == <<stage, fd>>
in       == <<inp, inConn>>
out      == <<outp, outConn, batch>>
vars == <<listener, acc, removal, main, object, peer, in, out, evq>>

AccPc   == {"loop", "accept", "ctor", "insert", "done", "threw"}
ReapPc  == {"loop", "wait", "batch", "erase", "done"}
MainPc  == {"up", "stopping", "closed", "joining", "clearing", "gone"}
Stage   == {"none", "made", "dying", "shut", "closed", "halted", "gone"}
Removals == Seq(0..N)
EventBufs == Seq({"event", "halt"})
InPc    == {"off", "loop", "type", "op", "arg", "reply", "replying",
            "report", "reporting", "removing", "done"}
OutPc   == {"off", "loop", "wait", "send", "sending", "removing", "done"}

TypeOK ==
    /\ running \in BOOLEAN
    /\ nextCid \in 1..(N + 1)
    /\ clients \in SUBSET Cid
    /\ rmq \in Removals /\ rms \in Removals
    /\ acc \in AccPc /\ reap \in ReapPc /\ main \in MainPc
    /\ stage \in [Cid -> Stage]
    /\ fd \in [Cid -> Fd \cup {None}]
    /\ peer \in [Cid -> {"open", "closed"}]
    /\ inp \in [Cid -> InPc] /\ inConn \in [Cid -> 0..N]
    /\ outp \in [Cid -> OutPc] /\ outConn \in [Cid -> 0..N]
    /\ evq \in [Cid -> EventBufs]
    /\ batch \in [Cid -> EventBufs]

-----------------------------------------------------------------------------
(* Sockets *)

HasSocket(c) == stage[c] \in {"made", "dying", "shut"}
IsShut(c)    == stage[c] = "shut"
FdInUse      == {fd[c] : c \in {d \in Cid : HasSocket(d)}}
Destroying   == {c \in Cid : stage[c] \in {"dying", "shut", "closed", "halted"}}

\* The connection a system call on descriptor f reaches, or None.
ConnAt(f) ==
    IF \E c \in Cid : HasSocket(c) /\ fd[c] = f
    THEN CHOOSE c \in Cid : HasSocket(c) /\ fd[c] = f
    ELSE None

\* The call can move bytes: sent before the peer closed, or into the buffer.
CanRead(k)  == k # None /\ HasSocket(k)
CanWrite(k) == CanRead(k) /\ ~IsShut(k)
\* The call can fail, or read() return 0.
CanEnd(k)   == CanWrite(k) => peer[k] = "closed"

SendLockFree(c) ==
    inp[c] \notin {"replying", "reporting"} /\ outp[c] # "sending"

-----------------------------------------------------------------------------
(* The accepting thread: run() *)

AcceptLoop ==
    /\ acc = "loop"
    /\ acc' = IF running THEN "accept" ELSE "done"
    /\ UNCHANGED <<listener, removal, main, object, peer, in, out, evq>>

\* accept() succeeds; the Client's constructor starts in_thread.
Accept(f) ==
    /\ acc = "accept" /\ main \in {"up", "stopping"}
    /\ nextCid \in Cid /\ f \notin FdInUse
    /\ acc' = "ctor"
    /\ nextCid' = nextCid + 1
    /\ stage' = [stage EXCEPT ![nextCid] = "made"]
    /\ fd' = [fd EXCEPT ![nextCid] = f]
    /\ inp' = [inp EXCEPT ![nextCid] = "loop"]
    /\ UNCHANGED <<running, clients, rmq, removal, main, peer, inConn, out, evq>>

\* No descriptor is left: the exception leaves the thread's function.
AcceptThrows ==
    /\ acc = "accept" /\ main \in {"up", "stopping"}
    /\ nextCid \in Cid /\ Fd \subseteq FdInUse
    /\ acc' = IF running THEN "threw" ELSE "loop"
    /\ UNCHANGED <<listener, removal, main, object, peer, in, out, evq>>

\* The listening socket has been shut down.
AcceptInterrupted ==
    /\ acc = "accept" /\ main \notin {"up", "stopping"}
    /\ acc' = "loop"
    /\ UNCHANGED <<listener, removal, main, object, peer, in, out, evq>>

\* The constructor goes on: out_thread.
StartOut ==
    /\ acc = "ctor"
    /\ acc' = "insert"
    /\ outp' = [outp EXCEPT ![nextCid - 1] = "loop"]
    /\ UNCHANGED <<listener, removal, main, object, peer, in, outConn, batch, evq>>

\* clients[cid] = ...
Register ==
    /\ acc = "insert"
    /\ acc' = "loop"
    /\ clients' = clients \cup {nextCid - 1}
    /\ UNCHANGED <<running, nextCid, rmq, removal, main, object, peer, in, out, evq>>

-----------------------------------------------------------------------------
(* The reaping thread: process_removals() and get_removals() *)

ReapLoop ==
    /\ reap = "loop"
    /\ reap' = IF running THEN "wait" ELSE "done"
    /\ UNCHANGED <<listener, acc, rms, main, object, peer, in, out, evq>>

GetRemovals ==
    /\ reap = "wait" /\ rmq # <<>>
    /\ reap' = "batch"
    /\ rms' = rmq /\ rmq' = <<>>
    /\ UNCHANGED <<running, nextCid, clients, acc, main, object, peer, in, out, evq>>

\* The batch is finished, or its next id is 0, or its next id is not a key.
SkipRemoval ==
    /\ reap = "batch"
    /\ \/ /\ rms # <<>> => rms[1] = 0
          /\ reap' = "loop" /\ rms' = <<>>
       \/ /\ rms # <<>> /\ rms[1] \in Cid \ clients
          /\ reap' = "batch" /\ rms' = Tail(rms)
    /\ UNCHANGED <<listener, acc, main, object, peer, in, out, evq>>

\* clients.erase(cid): the node is unlinked, then the Client destroyed.
Erase ==
    /\ reap = "batch" /\ rms # <<>> /\ rms[1] \in clients
    /\ reap' = "erase"
    /\ clients' = clients \ {rms[1]}
    /\ stage' = [stage EXCEPT ![rms[1]] = "dying"]
    /\ UNCHANGED <<running, nextCid, rmq, rms, acc, main, fd, peer, in, out, evq>>

Erased ==
    /\ reap = "erase" /\ stage[rms[1]] = "gone"
    /\ reap' = "batch" /\ rms' = Tail(rms)
    /\ UNCHANGED <<listener, acc, main, object, peer, in, out, evq>>

\* The accepting thread inserts while the reaping thread erases: the map has
\* no lock.  The node being inserted may be lost, or the process may crash.
EraseRacesRegister ==
    /\ acc = "insert" /\ reap = "batch" /\ rms # <<>> /\ rms[1] # 0
    /\ acc' \in {"loop", "threw"}
    /\ \/ /\ rms[1] \in clients
          /\ clients' = clients \ {rms[1]}
          /\ stage' = [stage EXCEPT ![rms[1]] = "dying"]
          /\ reap' = "erase" /\ rms' = rms
       \/ /\ rms[1] \notin clients
          /\ rms' = Tail(rms)
          /\ UNCHANGED <<clients, stage, reap>>
    /\ UNCHANGED <<running, nextCid, rmq, main, fd, peer, in, out, evq>>

-----------------------------------------------------------------------------
(* ~Client, run by the reaping thread or by the one that clears the map *)

DtorShutdown(c) ==
    /\ stage[c] = "dying"
    /\ stage' = [stage EXCEPT ![c] = "shut"]
    /\ UNCHANGED <<listener, acc, removal, main, fd, peer, in, out, evq>>

DtorClose(c) ==
    /\ stage[c] = "shut"
    /\ stage' = [stage EXCEPT ![c] = "closed"]
    /\ UNCHANGED <<listener, acc, removal, main, fd, peer, in, out, evq>>

\* Mutant of DtorHalt: the HaltEvent is not pushed.
DtorHaltSilent(c) ==
    /\ stage[c] = "closed"
    /\ stage' = [stage EXCEPT ![c] = "halted"]
    /\ UNCHANGED <<listener, acc, removal, main, fd, peer, in, out, evq>>

DtorHalt(c) ==
    /\ stage[c] = "closed"
    /\ stage' = [stage EXCEPT ![c] = "halted"]
    /\ evq' = [evq EXCEPT ![c] = Append(@, "halt")]
    /\ UNCHANGED <<listener, acc, removal, main, fd, peer, in, out>>

DtorJoin(c) ==
    /\ stage[c] = "halted" /\ inp[c] = "done" /\ outp[c] = "done"
    /\ stage' = [stage EXCEPT ![c] = "gone"]
    /\ evq' = [evq EXCEPT ![c] = <<>>]
    /\ UNCHANGED <<listener, acc, removal, main, fd, peer, in, out>>

\* Client::running
ClientRunning(c) == stage[c] \in {"made", "dying"}

-----------------------------------------------------------------------------
(* ~ConnectionListener *)

Stop ==
    /\ main = "up"
    /\ main' = "stopping" /\ running' = FALSE
    /\ UNCHANGED <<nextCid, clients, rmq, acc, removal, object, peer, in, out, evq>>

CloseListener ==
    /\ main = "stopping"
    /\ main' = "closed"
    /\ UNCHANGED <<listener, acc, removal, object, peer, in, out, evq>>

\* Mutant of WakeReaper: rm_client(0) is missing.
WakeReaperNot ==
    /\ main = "closed"
    /\ main' = "joining"
    /\ UNCHANGED <<listener, acc, removal, object, peer, in, out, evq>>

WakeReaper ==
    /\ main = "closed"
    /\ main' = "joining" /\ rmq' = Append(rmq, 0)
    /\ UNCHANGED <<running, nextCid, clients, acc, removal, object, peer, in, out, evq>>

\* Mutant of JoinThreads: the accepting thread is not joined.
JoinReaperOnly ==
    /\ main = "joining" /\ reap = "done"
    /\ main' = "clearing"
    /\ UNCHANGED <<listener, acc, removal, object, peer, in, out, evq>>

JoinThreads ==
    /\ main = "joining" /\ acc = "done" /\ reap = "done"
    /\ main' = "clearing"
    /\ UNCHANGED <<listener, acc, removal, object, peer, in, out, evq>>

\* The members are destroyed: the map destroys its clients one by one.
ClearNext(c) ==
    /\ main = "clearing" /\ Destroying = {} /\ c \in clients
    /\ clients' = clients \ {c}
    /\ stage' = [stage EXCEPT ![c] = "dying"]
    /\ UNCHANGED <<running, nextCid, rmq, acc, removal, main, fd, peer, in, out, evq>>

Cleared ==
    /\ main = "clearing" /\ Destroying = {} /\ clients = {}
    /\ main' = "gone"
    /\ UNCHANGED <<listener, acc, removal, object, peer, in, out, evq>>

-----------------------------------------------------------------------------
(* in_thread: run_in() and the reads and replies of the requests *)

InGoesTo(c, pc, k) ==
    /\ inp' = [inp EXCEPT ![c] = pc]
    /\ inConn' = [inConn EXCEPT ![c] = k]
    /\ UNCHANGED <<listener, acc, removal, main, object, peer, out, evq>>

InLoop(c) ==
    /\ inp[c] = "loop"
    /\ \/ ClientRunning(c)  /\ InGoesTo(c, "type", ConnAt(fd[c]))
       \/ ~ClientRunning(c) /\ InGoesTo(c, "removing", None)

\* A request's handler reads an argument, or has read all and answers.
InOp(c) ==
    /\ inp[c] = "op"
    /\ \/ InGoesTo(c, "arg", ConnAt(fd[c]))
       \/ InGoesTo(c, "reply", None)

InReadData(c) ==
    /\ inp[c] \in {"type", "arg"} /\ CanRead(inConn[c])
    /\ InGoesTo(c, "op", None)

\* The end of the stream inside a request is a protocol error, and reported;
\* the end between requests, and a read that fails, just leave the loop.
InReadEnd(c) ==
    /\ inp[c] \in {"type", "arg"} /\ CanEnd(inConn[c])
    /\ \/ InGoesTo(c, "removing", None)
       \/ inp[c] = "arg" /\ inConn[c] # None /\ InGoesTo(c, "report", None)

InWrite(c) ==
    /\ inp[c] \in {"reply", "report"} /\ SendLockFree(c)
    /\ InGoesTo(c, IF inp[c] = "reply" THEN "replying" ELSE "reporting",
                ConnAt(fd[c]))

InWritten(c) ==
    /\ inp[c] \in {"replying", "reporting"} /\ CanWrite(inConn[c])
    /\ InGoesTo(c, IF inp[c] = "replying" THEN "loop" ELSE "removing", None)

InWriteFails(c) ==
    /\ inp[c] \in {"replying", "reporting"} /\ CanEnd(inConn[c])
    /\ InGoesTo(c, "removing", None)

InRemove(c) ==
    /\ inp[c] = "removing"
    /\ inp' = [inp EXCEPT ![c] = "done"]
    /\ rmq' = Append(rmq, c)
    /\ UNCHANGED <<running, nextCid, clients, acc, removal, main, object, peer,
                   inConn, out, evq>>

-----------------------------------------------------------------------------
(* out_thread: run_out() and pop_event_bufs() *)

OutGoesTo(c, pc, k, b) ==
    /\ outp' = [outp EXCEPT ![c] = pc]
    /\ outConn' = [outConn EXCEPT ![c] = k]
    /\ batch' = [batch EXCEPT ![c] = b]

OutLoop(c) ==
    /\ outp[c] = "loop"
    /\ OutGoesTo(c, IF ClientRunning(c) THEN "wait" ELSE "removing", None, <<>>)
    /\ UNCHANGED <<listener, acc, removal, main, object, peer, in, evq>>

OutPop(c) ==
    /\ outp[c] = "wait" /\ evq[c] # <<>>
    /\ OutGoesTo(c, "send", None, evq[c])
    /\ evq' = [evq EXCEPT ![c] = <<>>]
    /\ UNCHANGED <<listener, acc, removal, main, object, peer, in>>

\* An empty buffer, the one of HaltEvent, is not sent.
OutNext(c) ==
    /\ outp[c] = "send"
    /\ \/ batch[c] = <<>> /\ OutGoesTo(c, "loop", None, <<>>)
       \/ /\ batch[c] # <<>> /\ batch[c][1] = "halt"
          /\ OutGoesTo(c, "send", None, Tail(batch[c]))
       \/ /\ batch[c] # <<>> /\ batch[c][1] = "event" /\ SendLockFree(c)
          /\ OutGoesTo(c, "sending", ConnAt(fd[c]), Tail(batch[c]))
    /\ UNCHANGED <<listener, acc, removal, main, object, peer, in, evq>>

OutWritten(c) ==
    /\ outp[c] = "sending" /\ CanWrite(outConn[c])
    /\ OutGoesTo(c, "send", None, batch[c])
    /\ UNCHANGED <<listener, acc, removal, main, object, peer, in, evq>>

\* Mutant of OutWriteFails: a failed write ends the thread, as a return would.
OutWriteFailsReturns(c) ==
    /\ outp[c] = "sending" /\ CanEnd(outConn[c])
    /\ OutGoesTo(c, "removing", None, <<>>)
    /\ UNCHANGED <<listener, acc, removal, main, object, peer, in, evq>>

\* The rest of the batch is dropped; the loop goes on.
OutWriteFails(c) ==
    /\ outp[c] = "sending" /\ CanEnd(outConn[c])
    /\ OutGoesTo(c, "loop", None, <<>>)
    /\ UNCHANGED <<listener, acc, removal, main, object, peer, in, evq>>

OutRemove(c) ==
    /\ outp[c] = "removing"
    /\ outp' = [outp EXCEPT ![c] = "done"]
    /\ rmq' = Append(rmq, c)
    /\ UNCHANGED <<running, nextCid, clients, acc, removal, main, object, peer,
                   in, outConn, batch, evq>>

-----------------------------------------------------------------------------
(* The surroundings: event handlers of the client's widgets, and the peer *)

\* push_event(), called by other threads until the Client is destroyed.
PushEvent(c) ==
    /\ stage[c] \notin {"none", "gone"}
    /\ Len(evq[c]) + Len(batch[c]) < MaxEvents
    /\ evq' = [evq EXCEPT ![c] = Append(@, "event")]
    /\ UNCHANGED <<listener, acc, removal, main, object, peer, in, out>>

PeerCloses(c) ==
    /\ stage[c] # "none" /\ peer[c] = "open"
    /\ peer' = [peer EXCEPT ![c] = "closed"]
    /\ UNCHANGED <<listener, acc, removal, main, object, in, out, evq>>

\* The server has stopped, by the end of its destructor or by an exception.
Terminated ==
    /\ main = "gone" \/ acc = "threw"
    /\ UNCHANGED vars

-----------------------------------------------------------------------------
Init ==
    /\ running = TRUE /\ nextCid = 1 /\ clients = {} /\ rmq = <<>>
    /\ acc = "loop" /\ reap = "loop" /\ rms = <<>> /\ main = "up"
    /\ stage = [c \in Cid |-> "none"]
    /\ fd = [c \in Cid |-> None]
    /\ peer = [c \in Cid |-> "open"]
    /\ inp = [c \in Cid |-> "off"] /\ inConn = [c \in Cid |-> None]
    /\ outp = [c \in Cid |-> "off"] /\ outConn = [c \in Cid |-> None]
    /\ evq = [c \in Cid |-> <<>>] /\ batch = [c \in Cid |-> <<>>]

AccStep == AcceptLoop \/ (\E f \in Fd : Accept(f)) \/ AcceptThrows
           \/ AcceptInterrupted \/ StartOut \/ Register
ReapStep == ReapLoop \/ GetRemovals \/ SkipRemoval \/ Erase \/ Erased
DtorStep(c) == DtorShutdown(c) \/ DtorClose(c) \/ DtorHalt(c) \/ DtorJoin(c)
MainStep == CloseListener \/ WakeReaper \/ JoinThreads
            \/ (\E c \in Cid : ClearNext(c)) \/ Cleared
InStep(c) == InLoop(c) \/ InOp(c) \/ InReadData(c) \/ InReadEnd(c) \/ InWrite(c)
             \/ InWritten(c) \/ InWriteFails(c) \/ InRemove(c)
OutStep(c) == OutLoop(c) \/ OutPop(c) \/ OutNext(c) \/ OutWritten(c)
              \/ OutWriteFails(c) \/ OutRemove(c)

Next ==
    \/ /\ acc # "threw"
       /\ \/ AccStep \/ ReapStep \/ Stop \/ MainStep
          \/ \E c \in Cid : DtorStep(c) \/ InStep(c) \/ OutStep(c)
                            \/ PushEvent(c) \/ PeerCloses(c)
    \/ Terminated

Spec == Init /\ [][Next]_vars

\* The same when insert and erase on the map `clients` may overlap: the proofs
\* are about this one too.
RacyNext == Next \/ EraseRacesRegister

RacySpec == Init /\ [][RacyNext]_vars

(* Every thread is scheduled.  Nothing is assumed of the peers: a write into *)
(* a full buffer, or a read from a silent peer, may block for ever.          *)
Fairness ==
    /\ WF_vars(AcceptLoop) /\ WF_vars(AcceptInterrupted)
    /\ WF_vars(StartOut) /\ WF_vars(Register)
    /\ WF_vars(ReapStep) /\ WF_vars(MainStep)
    /\ \A c \in Cid :
        /\ WF_vars(DtorStep(c))
        /\ WF_vars(InLoop(c) \/ InOp(c) \/ InReadEnd(c) \/ InWrite(c)
                   \/ InWriteFails(c) \/ InRemove(c))
        /\ WF_vars(OutLoop(c) \/ OutPop(c) \/ OutNext(c) \/ OutWriteFails(c)
                   \/ OutRemove(c))

FairSpec == Spec /\ Fairness

\* The peers, moreover, read what they are sent, so that no write blocks.
ReadingPeers == \A c \in Cid : WF_vars(InWritten(c)) /\ WF_vars(OutWritten(c))

FairPeersSpec == FairSpec /\ ReadingPeers

-----------------------------------------------------------------------------
(* Properties *)

\* The ids whose removal has been asked for and not yet carried out.
Pending == Range(rmq) \cup Range(rms)

\* A reading thread never reads from, or answers to, the connection of another
\* client, though descriptors are closed while threads still use them and are
\* handed out again by accept(): nothing but the order "queue the removal last,
\* join the acceptor before clearing the map" prevents it.
OwnConn == \A c \in Cid : inConn[c] \in {None, c}
InUsesOwn == TypeOK /\ OwnConn

\* Once a registered client is queued for removal it is destroyed, whatever
\* its writing thread is doing: no wakeup is lost and no join waits for ever.
QueuedIsDestroyed ==
    \A c \in Cid : (c \in clients /\ c \in Pending) ~> (stage[c] = "gone" \/ acc = "threw")

\* ~ConnectionListener returns: accept() is interrupted, the reaper woken up,
\* and every client's threads are brought to their end.
ShutdownEnds == (main # "up") ~> (main = "gone" \/ acc = "threw")

\* "Deregister clients when they disconnect" (ConnectionListener.cpp:88): the
\* removal of a registered client that has stopped reading is in the queue.
DisconnectedIsRemoved ==
    \A c \in clients : inp[c] = "done" => c \in Pending

\* The promise, with a client counted as dropped from when it is destroyed.
connBar == [c \in Cid |->
    CASE stage[c] = "none" -> "absent"
      [] stage[c] = "made" /\ inp[c] # "done" -> "connected"
      [] stage[c] = "made" /\ inp[c] = "done" -> "left"
      [] OTHER -> "dropped"]
phaseBar == CASE main = "up" -> "serving" [] main = "gone" -> "stopped"
              [] OTHER -> "stopping"
Registry == INSTANCE ClientRegistry WITH conn <- connBar, phase <- phaseBar

\* The threads together implement the promise.
ImplementsRegistry == Registry!Spec

=============================================================================
