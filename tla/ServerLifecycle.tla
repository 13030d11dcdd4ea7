--------------------------- MODULE ServerLifecycle ---------------------------
(***************************************************************************)
(* The server's life: main() makes the only AerendServer on the first call *)
(* of AerendServer::the(), waits for SIGINT, and leaves the destruction of *)
(* the five members to exit().  Members start threads of their own, which  *)
(* call the() as well: it lets nobody pass before all five are made.  One  *)
(* thread of a client stands for all of the listener's threads, which      *)
(* ConnectionListener looks into; InputDevices looks into the detector.    *)
(***************************************************************************)
EXTENDS Integers, Sequences, SequencesExt

CONSTANTS
    MaxInterrupts,  \* bound on the number of SIGINTs
    MaxUpdates      \* bound on the updates in the queue

ASSUME LifecycleAssumption == MaxInterrupts \in Nat /\ MaxUpdates \in Nat

\* The members of AerendServer as they are declared, less the timer: ed_ after
\* the detector, the display, the listener, the input handler.
Members == <<"dd", "ed", "dm", "cl", "ih">>

\* Mutant of Order: the listener is declared before the display.
OrderListenerFirst == <<"dd", "ed", "cl", "dm", "ih">>

\* Members are made in the order of their declaration, and destroyed in the
\* reverse order.
Order == Members

Member == Range(Members)

\* The thread that a member starts and joins.
Thread == {"detector", "display", "client", "input"}
OwnerOf == [detector |-> "dd", display |-> "dm", client |-> "cl", input |-> "ih"]

VARIABLES
    main,       \* where main() is; "unwind" and "exit" are the destruction of the
                \* members, after an exception and after main
    life,       \* of each member: "none", "up", "dying" in its destructor, "gone"
    made,       \* the() has returned, for good
    thread,     \* where each thread is
    does,       \* what the client's thread is about to do: "push" an update, "leave"
    queue,      \* DisplayManager::update_queue: "widget" for one with a widget in it
    batch,      \* what the display thread has taken out
    halt, mtx,  \* the flag and who holds interrupt_mtx
    handlers,   \* where interrupt() runs: in main's thread, in another
    interrupts  \* SIGINTs so far
vars == <<main, life, made, thread, does, queue, batch, halt, mtx, handlers, interrupts>>

Init ==
    /\ main = "build"
    /\ life = [m \in Member |-> "none"] /\ made = FALSE
    /\ thread = [t \in Thread |-> "none"]
    /\ does = "push" /\ queue = <<>> /\ batch = <<>>
    /\ halt = FALSE /\ mtx = "free" /\ handlers = {} /\ interrupts = 0

\* A handler interrupts the thread it runs in.
MainRuns == "main" \notin handlers

\* std::atomic<bool> running of the member that owns t
Running(t) == life[OwnerOf[t]] = "up"

-----------------------------------------------------------------------------
(* The construction, in main's thread *)

Next1 == SelectInSeq(Order, LAMBDA m : life[m] = "none")

\* The last thing a constructor does is to start its thread.
Construct(m) ==
    /\ main = "build" /\ MainRuns /\ Next1 # 0 /\ m = Order[Next1]
    /\ life' = [life EXCEPT ![m] = "up"]
    /\ thread' = [t \in Thread |-> IF OwnerOf[t] = m THEN "loop" ELSE thread[t]]
    /\ UNCHANGED <<main, made, does, queue, batch, halt, mtx, handlers, interrupts>>

\* There is no card, the port is taken, there are no descriptors left: what
\* has been made is destroyed, in the constructor of AerendServer.  (That a
\* thread cannot be started is left out.)
ConstructThrows(m) ==
    /\ main = "build" /\ MainRuns /\ Next1 # 0 /\ m = Order[Next1]
    /\ m \in {"dm", "cl", "ih"}
    /\ main' = "unwind"
    /\ UNCHANGED <<life, made, thread, does, queue, batch, halt, mtx, handlers, interrupts>>

TheMade ==
    /\ main = "build" /\ MainRuns /\ Next1 = 0
    /\ main' = "lock" /\ made' = TRUE
    /\ UNCHANGED <<life, thread, does, queue, batch, halt, mtx, handlers, interrupts>>

(* Waiting for SIGINT *)

Lock ==
    /\ main = "lock" /\ MainRuns /\ mtx = "free"
    /\ mtx' = "main" /\ main' = "locked"
    /\ UNCHANGED <<life, made, thread, does, queue, batch, halt, handlers, interrupts>>


\* interrupt_cv.wait looks at halt before it lets go of the mutex and sleeps.
Wait ==
    /\ main = "locked" /\ MainRuns
    /\ IF halt THEN main' = "woken" /\ UNCHANGED mtx
       ELSE main' = "wait" /\ mtx' = "free"
    /\ UNCHANGED <<life, made, thread, does, queue, batch, halt, handlers, interrupts>>

\* notify_one has been called, or it wakes up without.
Wake ==
    /\ main = "notified" /\ MainRuns /\ mtx = "free"
    /\ mtx' = "main" /\ main' = "locked"
    /\ UNCHANGED <<life, made, thread, does, queue, batch, halt, handlers, interrupts>>

\* The lock goes out of scope, and main returns.
MainReturns ==
    /\ main = "woken" /\ MainRuns
    /\ mtx' = "free" /\ main' = "exit"
    /\ UNCHANGED <<life, made, thread, does, queue, batch, halt, handlers, interrupts>>

Interrupt(where) ==
    /\ interrupts < MaxInterrupts /\ main # "end" /\ where \notin handlers
    /\ where = "other" => \E t \in Thread : thread[t] \notin {"none", "ended"}
    /\ interrupts' = interrupts + 1 /\ handlers' = handlers \cup {where}
    /\ UNCHANGED <<main, life, made, thread, does, queue, batch, halt, mtx>>

\* interrupt().  That notify_one may not be called from a handler is left out.
HandlerRuns(where) ==
    /\ where \in handlers /\ mtx = "free"
    /\ halt' = TRUE /\ handlers' = handlers \ {where}
    /\ main' = IF main = "wait" THEN "notified" ELSE main
    /\ UNCHANGED <<life, made, thread, does, queue, batch, mtx, interrupts>>

(* The destruction, in the last phase of main's thread *)

Last1 == SelectLastInSeq(Order, LAMBDA m : life[m] \in {"up", "dying"})

\* The body of a destructor: running = false, and whatever brings its thread
\* back, which for the display is an update that does nothing.
BeginDestroy(m) ==
    /\ main \in {"unwind", "exit"} /\ MainRuns /\ Last1 # 0 /\ m = Order[Last1] /\ life[m] = "up"
    /\ life' = [life EXCEPT ![m] = "dying"]
    /\ queue' = IF m = "dm" THEN Append(queue, "empty") ELSE queue
    /\ UNCHANGED <<main, made, thread, does, batch, halt, mtx, handlers, interrupts>>

\* join(), and the members' members go.
EndDestroy(m) ==
    /\ main \in {"unwind", "exit"} /\ MainRuns /\ life[m] = "dying"
    /\ \A t \in Thread : OwnerOf[t] = m => thread[t] \in {"none", "ended"}
    /\ life' = [life EXCEPT ![m] = "gone"]
    /\ UNCHANGED <<main, made, thread, does, queue, batch, halt, mtx, handlers, interrupts>>

MainEnds ==
    /\ main \in {"unwind", "exit"} /\ MainRuns /\ Last1 = 0
    /\ main' = "end"
    /\ UNCHANGED <<life, made, thread, does, queue, batch, halt, mtx, handlers, interrupts>>

-----------------------------------------------------------------------------
(* The threads *)

Goes(t, from, to) == thread[t] = from /\ thread' = [thread EXCEPT ![t] = to]

\* The loop's condition, and for the input thread an event: without one it only
\* comes round again.  The client's loop ends with rm_client(), which is
\* behind the() too; so does one whose program goes.
TestRunning(t) ==
    /\ IF t = "client"
       THEN /\ Goes(t, "loop", "the")
            /\ does' \in IF Running(t) THEN {"push", "leave"} ELSE {"leave"}
       ELSE /\ Goes(t, "loop", IF ~Running(t) THEN "ended" ELSE IF t = "display" THEN "wait" ELSE "the")
            /\ UNCHANGED does
    /\ UNCHANGED <<main, life, made, queue, batch, halt, mtx, handlers, interrupts>>

\* AerendServer::the(): who comes while main constructs, waits.
TheReturns(t) ==
    /\ made /\ Goes(t, "the", "use")
    /\ UNCHANGED <<main, life, made, does, queue, batch, halt, mtx, handlers, interrupts>>

\* The detector looks again after a second; the input thread has dispatched.
Used(t) ==
    /\ t \in {"detector", "input"} /\ Goes(t, "use", "loop")
    /\ UNCHANGED <<main, life, made, does, queue, batch, halt, mtx, handlers, interrupts>>

\* The handler of a request pushes an update with a pointer to a widget of
\* the client.
ClientPushes ==
    /\ does = "push" /\ Len(queue) < MaxUpdates /\ Goes("client", "use", "loop")
    /\ queue' = Append(queue, "widget")
    /\ UNCHANGED <<main, life, made, does, batch, halt, mtx, handlers, interrupts>>

\* An operation without an update.
ClientUsed ==
    /\ does = "push" /\ Goes("client", "use", "loop")
    /\ UNCHANGED <<main, life, made, does, queue, batch, halt, mtx, handlers, interrupts>>

ClientLeaves ==
    /\ does = "leave" /\ Goes("client", "use", "ended")
    /\ UNCHANGED <<main, life, made, does, queue, batch, halt, mtx, handlers, interrupts>>

\* shutdown() in ~Client brings back the thread that is in read() or write(), but
\* not one that gets there after close(), on a descriptor that may be another
\* connection's by then ...
ClientIsLate ==
    /\ Goes("client", "loop", "late")
    /\ UNCHANGED <<main, life, made, does, queue, batch, halt, mtx, handlers, interrupts>>

\* ... whose peer sends, reads or goes, or not.
PeerMoves ==
    /\ Goes("client", "late", "the") /\ does' = "leave"
    /\ UNCHANGED <<main, life, made, queue, batch, halt, mtx, handlers, interrupts>>

\* The input thread may meet a device twice (InputDevices), and is in read()
\* until there is a second event, or the device goes.
InputBlocks ==
    /\ Running("input") /\ Goes("input", "loop", "read")
    /\ UNCHANGED <<main, life, made, does, queue, batch, halt, mtx, handlers, interrupts>>

DeviceMoves ==
    /\ Goes("input", "read", "the") \/ Goes("input", "read", "loop")
    /\ UNCHANGED <<main, life, made, does, queue, batch, halt, mtx, handlers, interrupts>>

PopUpdates ==
    /\ queue # <<>> /\ Goes("display", "wait", "use")
    /\ batch' = queue /\ queue' = <<>>
    /\ UNCHANGED <<main, life, made, does, halt, mtx, handlers, interrupts>>

RunUpdate ==
    /\ thread["display"] = "use" /\ batch # <<>> /\ batch' = Tail(batch)
    /\ UNCHANGED <<main, life, made, thread, does, queue, halt, mtx, handlers, interrupts>>

Apply ==
    /\ batch = <<>> /\ Goes("display", "use", "loop")
    /\ UNCHANGED <<main, life, made, does, queue, batch, halt, mtx, handlers, interrupts>>

-----------------------------------------------------------------------------

Main ==
    \/ \E m \in Member : Construct(m) \/ BeginDestroy(m) \/ EndDestroy(m)
    \/ TheMade \/ Lock \/ Wait \/ Wake \/ MainReturns \/ MainEnds

Handler == \E w \in {"main", "other"} : HandlerRuns(w)

Moves(t) ==
    \/ TestRunning(t) \/ TheReturns(t) \/ Used(t)
    \/ t = "client" /\ (ClientUsed \/ ClientLeaves)
    \/ t = "display" /\ (PopUpdates \/ RunUpdate \/ Apply)

Next ==
    \/ Main \/ Handler \/ (\E t \in Thread : Moves(t)) \/ ClientPushes
    \/ ClientIsLate \/ PeerMoves \/ InputBlocks \/ DeviceMoves
    \/ \E m \in Member : ConstructThrows(m)
    \/ \E w \in {"main", "other"} : Interrupt(w)

Spec == Init /\ [][Next]_vars

\* The system schedules main, the handlers and every thread.  No program sends
\* requests, no peer or device ends a read or write, and no interrupt comes,
\* unless it will.
FairSpec == Spec /\ WF_vars(Main) /\ WF_vars(Handler) /\ \A t \in Thread : WF_vars(Moves(t))

-----------------------------------------------------------------------------
(* Properties *)

TypeOK ==
    /\ main \in {"build", "unwind", "lock", "locked", "wait", "notified", "woken", "exit", "end"}
    /\ life \in [Member -> {"none", "up", "dying", "gone"}] /\ made \in BOOLEAN
    /\ thread \in [Thread -> {"none", "loop", "the", "wait", "use", "late", "read", "ended"}]
    /\ does \in {"push", "leave"}
    /\ \A q \in {queue, batch} : Range(q) \subseteq {"widget", "empty"} /\ Len(q) <= MaxUpdates + 1
    /\ halt \in BOOLEAN /\ mtx \in {"free", "main"}
    /\ handlers \subseteq {"main", "other"} /\ interrupts \in 0..MaxInterrupts
    /\ mtx = "main" <=> main \in {"locked", "woken"}

\* The members that a thread is using, widgets being the listener's clients'.
Using(t) ==
    IF thread[t] # "use" THEN {}
    ELSE CASE t = "detector" -> {"ih"}
           [] t = "input" -> {"ed", "dm", "cl"}
           [] t = "client" -> IF does = "push" THEN {"dm"} ELSE {"cl"}
           [] t = "display" -> IF batch # <<>> /\ Head(batch) = "widget" THEN {"dm", "cl"} ELSE {"dm"}

\* A thread uses no member that is not yet there or that is gone, with two
\* exceptions: the detector, which is the first to be made and the last to go,
\* attaches devices to an input handler that is gone; and the display thread
\* runs the updates of clients that are gone.
UsesWhatIsThere ==
    /\ TypeOK
    /\ \A t \in Thread : \A m \in Using(t) :
          \/ life[m] \in {"up", "dying"}
          \/ life[m] = "gone" /\ <<t, m>> \in {<<"detector", "ih">>, <<"display", "cl">>}

\* interrupt() waits for a mutex that the thread it interrupts holds.
Stuck == "main" \in handlers /\ mtx = "main"

\* A destructor joins a thread that waits in the() for the constructor that
\* has thrown, which is the one that waits.
Held ==
    main = "unwind" /\ \E t \in Thread : thread[t] = "the" /\ life[OwnerOf[t]] = "dying"

\* A thread that a destructor joins waits for ever for what only somebody outside
\* can give it: the peer of another connection, a device.
NoPeerMoves == <>[](thread["client"] = "late")
NoDeviceMoves == <>[](thread["input"] = "read")


=============================================================================
