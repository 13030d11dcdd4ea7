------------------------------- MODULE Protocol -------------------------------
(***************************************************************************)
(* One connection, seen from the client library: requests go out, and      *)
(* answers and events come back in a single stream of bytes, which         *)
(* libaerend.c cuts up again.  Answers are written by Client::run_in,      *)
(* events by Client::run_out; send_mtx keeps each message in one piece.    *)
(* A byte is kept as what recv_status() would take it for, with, for the   *)
(* properties, the message it begins.  "ok" is 0.  0x80..0xBF are events'  *)
(* heads: event_lens gives "event" (ACTION, MOUSE_ENTER, MOUSE_EXIT) an id,*)
(* IdLen bytes (4 in the code), and "longer" (the others, which differ by  *)
(* a few bytes) one byte more; "wild" are the heads it gives nothing for,  *)
(* 0x80 and 0x8C..0xBF.  "fail" is any other byte.                         *)
(***************************************************************************)
EXTENDS Integers, Sequences

CONSTANTS
    IdLen,          \* bytes of an id
    Capacity,       \* AeCtx.evbuf_len
    EventNumbers,   \* events are numbered modulo this, for the properties
    Lows,           \* the last bytes of ids, as recv_status() would take them
    MaxRequests,    \* bound on the requests the program makes
    MaxStream,      \* bytes the sockets hold; a writer waits when they are full
    MaxUnread       \* requests they hold on the way to the server: likewise

ASSUME ProtocolAssumption ==
    /\ IdLen \in Nat \ {0} /\ Capacity \in Nat \ {0} /\ MaxRequests \in Nat
    /\ EventNumbers \in Nat /\ EventNumbers > Capacity
    /\ MaxStream \in Nat /\ MaxStream > IdLen + 1
    /\ MaxUnread \in Nat \ {0} /\ Lows \subseteq {"ok", "fail", "event", "longer", "wild"}

VARIABLES
    requests,   \* requests on their way to the server
    stream,     \* bytes on their way to the client
    nextEvent,  \* the number of the server's next event
    asked,      \* how many requests the program has made
    pc,         \* where the library is: "idle", in send(), reading "status", "body"
                \* or "id"; "lost" when nothing is known of the program any more
    asks,       \* the call being served: "make", "op" or "event" (ae_recv_event)
    head,       \* the byte that was read as the head of an event, or an answer's
    events,     \* the events held, oldest first (EventRing)
    err,        \* AeCtx.err is not AE_NO_ERR
    errno,      \* errno is EAGAIN; recv() does not reset it when it succeeds
    ret,        \* the answer returned, with its request, until the next call
    upset       \* whether the library can be out of step: "no"; "refused", a make
                \* request has failed; "yes", a call has, or a read came short
serverVars == <<requests, stream, nextEvent>>
clientVars == <<asked, pc, asks, head, events, err, errno, ret, upset>>
vars == <<serverVars, clientVars>>

NoByte == [val |-> "fail", from |-> <<"none", 0>>, first |-> FALSE]
NoAnswer == [for |-> 0, byte |-> NoByte]

Init ==
    /\ requests = <<>> /\ stream = <<>> /\ nextEvent = 0
    /\ asked = 0 /\ pc = "idle" /\ asks = "op" /\ head = NoByte
    /\ events = <<>> /\ err = FALSE /\ errno = FALSE
    /\ ret = NoAnswer
    /\ upset = "no"

-----------------------------------------------------------------------------
(* The server *)

\* Client::send: the whole message, in one write.
Send(message) ==
    /\ Len(stream) + Len(message) <= MaxStream
    /\ stream' = stream \o message

EventHeads == {"event", "longer"}   \* the server sends these
HeadValues == EventHeads \cup {"wild"}
Values == {"ok", "fail"} \cup HeadValues

\* event_lens[type]-1.  Outside of the table lies any length, which recv() may use
\* up to what there is.
RestLen(val) == CASE val = "event" -> IdLen [] val = "longer" -> IdLen + 1
                  [] val = "wild" -> MaxStream [] OTHER -> 0

\* A message: its first byte, then an id of which only the byte `low' may
\* differ from 0.  An answer carries the id in network order, an event in the
\* order of the machine, and before what else it has to say.
Message(from, val, rest) ==
    <<[val |-> val, from |-> from, first |-> TRUE]>>
      \o [i \in 1..Len(rest) |-> [NoByte EXCEPT !.val = rest[i]]]
AnswerId(low) == [i \in 1..IdLen |-> IF i = IdLen THEN low ELSE "ok"]
EventRest(val, low) == [i \in 1..RestLen(val) |-> IF i = 1 THEN low ELSE "ok"]

\* send_status_id: make_* was carried out, and the new id follows ...
AnswerMade(low) ==
    /\ requests # <<>> /\ Head(requests).asks = "make"
    /\ Send(Message(<<"answer", Head(requests).n>>, "ok", AnswerId(low)))
    /\ requests' = Tail(requests)
    /\ UNCHANGED <<nextEvent, clientVars>>

\* ... or it failed, and an id 0 follows all the same.
AnswerNotMade ==
    /\ requests # <<>> /\ Head(requests).asks = "make"
    /\ Send(Message(<<"answer", Head(requests).n>>, "fail", AnswerId("ok")))
    /\ requests' = Tail(requests)
    /\ upset' = IF upset = "no" THEN "refused" ELSE upset
    /\ UNCHANGED <<nextEvent, asked, pc, asks, head, events, err, errno, ret>>

\* send_status: every other request.
AnswerOp(val) ==
    /\ requests # <<>> /\ Head(requests).asks = "op"
    /\ Send(Message(<<"answer", Head(requests).n>>, val, <<>>))
    /\ requests' = Tail(requests)
    /\ UNCHANGED <<nextEvent, clientVars>>

\* run_out: an event the program has asked for with ae_add_event_handler().
SendEvent(val, low) ==
    /\ Send(Message(<<"event", nextEvent>>, val, EventRest(val, low)))
    /\ nextEvent' = (nextEvent + 1) % EventNumbers
    /\ UNCHANGED <<requests, clientVars>>

-----------------------------------------------------------------------------
(* The library *)

\* The call ends, and its variables with it.
Done == pc' = "idle" /\ asks' = "op" /\ head' = NoByte

Return(byte) == Done /\ ret' = [for |-> asked, byte |-> byte]

\* The call returns 0xFF or NULL.
Fail == Done /\ err' = TRUE /\ upset' = "yes" /\ ret' = NoAnswer

\* Nothing can be said of the program any more.
Lost == pc' = "lost" /\ asks' = "op" /\ head' = NoByte /\ ret' = NoAnswer

\* ae_make_*() and the other requests, up to send_from().
Request(kind) ==
    /\ pc = "idle" /\ asked < MaxRequests
    /\ asked' = asked + 1
    /\ pc' = "send" /\ asks' = kind /\ ret' = NoAnswer
    /\ UNCHANGED <<serverVars, head, events, err, errno, upset>>

\* send() waits for room: SO_RCVTIMEO does not concern it.  With an error still
\* recorded the request is sent all the same, and the call returns without its
\* answer.
SendRequest ==
    /\ pc = "send" /\ Len(requests) < MaxUnread
    /\ requests' = Append(requests, [asks |-> asks, n |-> asked])
    /\ IF err THEN pc' = "idle" /\ asks' = "op" ELSE pc' = "status" /\ UNCHANGED asks
    /\ UNCHANGED <<stream, nextEvent, asked, head, events, err, errno, ret, upset>>

\* send() fails, as the connection has, or SIGPIPE ends the program.
SendFails ==
    /\ pc = "send"
    /\ \/ Fail /\ errno' = FALSE
       \/ Lost /\ upset' = "yes" /\ UNCHANGED <<err, errno>>
    /\ UNCHANGED <<serverVars, asked, events>>

\* ae_recv_event()
RecvEvent ==
    /\ pc = "idle" /\ ~err
    /\ asks' = "event" /\ pc' = "status" /\ ret' = NoAnswer
    /\ UNCHANGED <<serverVars, asked, head, events, err, errno, upset>>

\* recv_into() waits for one byte and takes what there is, up to what it was
\* asked for; nobody looks at how much that was.
Take(wanted, n) ==
    /\ n \in 1..wanted /\ n <= Len(stream)
    /\ stream' = SubSeq(stream, n + 1, Len(stream))

\* ae_recv_event() with an error still recorded loses the byte it reads.
RecvEventInError ==
    /\ pc = "idle" /\ err
    /\ Take(1, 1)
    /\ UNCHANGED <<requests, nextEvent, clientVars>>

Receiving == pc \in {"status", "body", "id"}
Wanted == CASE pc = "status" -> 1 [] pc = "body" -> RestLen(head.val) [] OTHER -> IdLen

\* recv_into() with SO_RCVTIMEO: nothing came in time.
RecvTimeout ==
    /\ Receiving /\ stream = <<>>
    /\ errno' = TRUE
    /\ Fail
    /\ UNCHANGED <<serverVars, asked, events>>

\* recv_into(): the server has closed the connection, or the socket failed,
\* which gives errno another value.
RecvFails ==
    /\ Receiving /\ stream = <<>>
    /\ errno' \in {errno, FALSE}
    /\ Fail
    /\ UNCHANGED <<serverVars, asked, events>>

\* recv_into() succeeds, but errno is still EAGAIN from an earlier call.
RecvStaleErrno(n) ==
    /\ Receiving /\ errno
    /\ Take(Wanted, n)
    /\ Fail
    /\ UNCHANGED <<requests, nextEvent, asked, events, errno>>

\* The first byte of an answer or of an event (recv_status, recv_status_id,
\* ae_recv_event).
RecvStatus ==
    /\ pc = "status" /\ ~errno
    /\ Take(1, 1)
    /\ LET byte == Head(stream) IN
       IF byte.val \in HeadValues
       THEN pc' = "body" /\ head' = byte /\ UNCHANGED <<asks, ret>>
       ELSE IF asks = "event" THEN Done /\ UNCHANGED ret
       ELSE IF asks = "make" /\ byte.val = "ok"
       THEN pc' = "id" /\ head' = byte /\ UNCHANGED <<asks, ret>>
       ELSE Return(byte)
    /\ UNCHANGED <<requests, nextEvent, asked, events, err, errno, upset>>

Noted(wanted, n) == upset' = IF n < wanted THEN "yes" ELSE upset

\* ae_recv_event() returns after an event, a request reads on.
AfterEvent ==
    IF asks = "event" THEN Done ELSE pc' = "status" /\ head' = NoByte /\ UNCHANGED asks

\* Mutant of RecvBody: the oldest event makes room for the new one.
RecvBodyOver(n) ==
    /\ pc = "body" /\ ~errno
    /\ Take(Wanted, n)
    /\ events' = Append(IF Len(events) < Capacity THEN events ELSE Tail(events), head)
    /\ AfterEvent
    /\ Noted(Wanted, n)
    /\ UNCHANGED <<requests, nextEvent, asked, err, errno, ret>>

\* Mutant of RecvBody: an event that finds the buffer full is dropped.
RecvBodyDrops(n) ==
    /\ pc = "body" /\ ~errno
    /\ Take(Wanted, n)
    /\ events' = IF Len(events) < Capacity THEN Append(events, head) ELSE events
    /\ AfterEvent
    /\ Noted(Wanted, n)
    /\ UNCHANGED <<requests, nextEvent, asked, err, errno, ret>>

\* The rest of an event (process_event).
RecvBody(n) ==
    /\ pc = "body" /\ ~errno
    /\ Take(Wanted, n)
    /\ IF Len(events) < Capacity
       THEN /\ events' = Append(events, head)
            /\ AfterEvent
            /\ Noted(Wanted, n) /\ UNCHANGED <<ret, err>>
       ELSE Fail /\ UNCHANGED events
    /\ UNCHANGED <<requests, nextEvent, asked, errno>>

\* A head that event_lens has no length for: 0 - 1 or what lies behind the table is
\* the length of an array on the stack.  No bytes at all come as if the server had
\* closed the connection, very many end the program or overwrite its memory;
\* with a length in between RecvBody goes on.
ReadsOutsideTable ==
    /\ pc = "body" /\ head.val = "wild"
    /\ Fail \/ (Lost /\ UNCHANGED <<err, upset>>)
    /\ UNCHANGED <<serverVars, asked, events, errno>>

\* What has become of the program may read on, or leave that to the kernel.
ReadsLost(n) ==
    /\ pc = "lost" /\ Take(MaxStream, n)
    /\ UNCHANGED <<requests, nextEvent, clientVars>>

\* Mutant of RecvId: the id is left in the stream.
RecvIdNot(n) ==
    /\ pc = "id" /\ ~errno /\ n = 1
    /\ Return(head)
    /\ UNCHANGED <<serverVars, asked, events, err, errno, upset>>

\* The id of what a request made (recv_status_id).
RecvId(n) ==
    /\ pc = "id" /\ ~errno
    /\ Take(IdLen, n)
    /\ Return(head)
    /\ Noted(IdLen, n)
    /\ UNCHANGED <<requests, nextEvent, asked, events, err, errno>>

\* ae_pop_event()
PopEvent ==
    /\ pc = "idle" /\ events # <<>>
    /\ events' = Tail(events)
    /\ UNCHANGED <<serverVars, asked, pc, asks, head, err, errno, ret, upset>>

\* The program goes on after an error, and may or may not clear errno.
ClearErr ==
    /\ pc = "idle" /\ err
    /\ err' = FALSE /\ errno' \in {errno, FALSE}
    /\ UNCHANGED <<serverVars, asked, pc, asks, head, events, ret, upset>>

Server ==
    \/ \E val \in {"ok", "fail"} : AnswerOp(val)
    \/ \E low \in Lows :
          AnswerMade(low) \/ \E val \in EventHeads : SendEvent(val, low)
    \/ AnswerNotMade
Library ==
    \/ SendRequest \/ RecvStatus \/ RecvTimeout \/ RecvFails \/ ReadsOutsideTable
    \/ \E n \in 1..MaxStream : RecvBody(n) \/ RecvId(n) \/ RecvStaleErrno(n)
Program == (\E kind \in {"make", "op"} : Request(kind)) \/ RecvEvent \/ RecvEventInError
           \/ PopEvent \/ ClearErr
Failure == SendFails \/ \E n \in 1..MaxStream : ReadsLost(n)

Next == Server \/ Library \/ Program \/ Failure

Spec == Init /\ [][Next]_vars

\* The library runs in the program's thread, which does not stop inside a call
\* but in a send() without room or a recv() whose time is not over.
FairSpec == Spec /\ WF_vars(Library)

-----------------------------------------------------------------------------
(* Properties *)

Byte == [val : Values, first : BOOLEAN,
         from : {<<"none", 0>>} \cup ({"answer"} \X (1..MaxRequests))
                \cup ({"event"} \X (0..(EventNumbers - 1)))]

TypeOK ==
    /\ requests \in Seq([asks : {"make", "op"}, n : 1..MaxRequests])
    /\ stream \in Seq(Byte) /\ events \in Seq(Byte)
    /\ Len(stream) <= MaxStream /\ Len(events) <= Capacity
    /\ nextEvent \in 0..(EventNumbers - 1) /\ asked \in 0..MaxRequests
    /\ pc \in {"idle", "send", "status", "body", "id", "lost"} /\ asks \in {"make", "op", "event"}
    /\ pc = "send" => asks # "event" /\ asked > 0
    /\ head \in Byte
    /\ err \in BOOLEAN /\ errno \in BOOLEAN
    /\ ret \in [for : 0..MaxRequests, byte : Byte]
    /\ upset \in {"no", "refused", "yes"}

\* A call that returns an answer returns the answer to its own request, however
\* answers and events have been mixed in the stream - as long as no call has
\* failed, no read came short and the server has refused no make request.
AnswerIsOwn ==
    /\ TypeOK
    /\ upset = "no" /\ ret.for # 0 =>
          ret.byte.from = <<"answer", ret.for>> /\ ret.byte.first

\* Under the same conditions the events held are the server's, none missing
\* between them, in the order the server sent them.
EventsInOrder ==
    upset = "no" => /\ \A i \in DOMAIN events : events[i].first /\ events[i].from[1] = "event"
                    /\ \A i \in 1..(Len(events) - 1) :
                         events[i + 1].from[2] = (events[i].from[2] + 1) % EventNumbers

\* send() has no room, and stays there until the server reads.
SendBlocked == pc = "send" /\ Len(requests) >= MaxUnread

\* Under the same conditions no head is looked up outside of event_lens, the program
\* is not lost, and no call waits in send() for a server that may itself be waiting
\* for the program to read.
NeverAstray ==
    upset = "no" => pc # "lost" /\ ~(pc = "body" /\ head.val = "wild") /\ ~SendBlocked

\* With SO_RCVTIMEO set, whatever goes wrong, every call returns, even if the server
\* answers nothing and events never cease: the event buffer fills up in the end.
\* Excepted are a call that waits in send(), and a program that a length from outside
\* of the table, or SIGPIPE, has undone.
CallReturns == pc # "idle" ~> (pc \in {"idle", "lost"} \/ SendBlocked)

=============================================================================
