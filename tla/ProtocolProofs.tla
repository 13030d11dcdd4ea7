----------------------------- MODULE ProtocolProofs -----------------------------
(***************************************************************************)
(* Proofs about Protocol, for ids of any length, buffers of any size and   *)
(* any number of requests; and, at the end, about EventRing, for a buffer  *)
(* of any size.                                                            *)
(***************************************************************************)
EXTENDS Protocol, EventRing, SequenceTheorems, TLAPS

-----------------------------------------------------------------------------
(* The invariant *)

IsEvent(byte) == byte.first /\ byte.from[1] = "event"
IsAnswer(byte) == byte.first /\ byte.from[1] # "event"

\* How many bytes follow the first one of a message, when the call under way asks
\* for a.
After(byte, a) == IF byte.from[1] = "event" THEN RestLen(byte.val) ELSE IF a = "make" THEN IdLen ELSE 0

Number == 0..EventNumbers-1
Follows(n) == (n + 1) % EventNumbers

\* Bytes s are cut up where the library cuts them, and f tells which event is due
\* at the first byte of each message: the one sent there, and after the last
\* message the server's next one.
LaidAt(s, f, a, i) ==
    LET end == i + After(s[i], a)
    IN  /\ end <= Len(s) /\ (end < Len(s) => s[end + 1].first)
        /\ \A k \in i+1..end : ~s[k].first
        /\ IF IsEvent(s[i]) THEN s[i].from[2] = f[i] /\ f[end + 1] = Follows(f[i])
           ELSE f[end + 1] = f[i]
Laid(s, f, a, next) ==
    /\ f \in [1..Len(s)+1 -> Number] /\ f[Len(s) + 1] = next
    /\ \A i \in 1..Len(s) : s[i].first => LaidAt(s, f, a, i)

\* Message m, and what its sending makes of the number of the next event.
Whole(m, a) ==
    m[1].first /\ Len(m) = 1 + After(m[1], a) /\ \A k \in 2..Len(m) : ~m[k].first
Counted(m, next, after) ==
    IF IsEvent(m[1]) THEN m[1].from[2] = next /\ after = Follows(next) ELSE after = next

\* Asking for b instead of a makes no difference to the bytes after the first n.
Alike(s, n, a, b) == \A i \in 1..Len(s) : i > n /\ s[i].first => After(s[i], a) = After(s[i], b)

\* What reading n bytes makes of bytes laid out along f.
Shifted(s, n, f, a, next) ==
    LET t == SubSeq(s, n + 1, Len(s)) IN
    /\ Len(t) = Len(s) - n
    /\ \E g \in [1..Len(t)+1 -> Number] :
          Laid(t, g, a, next) /\ \A i \in 1..Len(t)+1 : g[i] = f[i + n]

\* What Message() makes.
IsMessage(m, from, val, rest) ==
    /\ m \in Seq(Byte) /\ Len(m) = 1 + rest
    /\ m[1] = [val |-> val, from |-> from, first |-> TRUE]
    /\ \A i \in 2..Len(m) : ~m[i].first

\* How many bytes are left of the message that is being read: n, before the rest.
Begun == IF pc = "body" THEN RestLen(head.val) ELSE IF pc = "id" THEN IdLen ELSE 0
Rests(s, n) ==
    /\ n <= Len(s) /\ (n < Len(s) => s[n + 1].first)
    /\ \A k \in 1..n : ~s[k].first

\* The event that is due after what has been read is the next one.
InTurn(due) ==
    /\ pc = "body" => due = Follows(head.from[2])
    /\ pc # "body" /\ events # <<>> => due = Follows(events[Len(events)].from[2])

\* The only answer on its way is the one that the call under way waits for.
Awaited == pc \in {"status", "body"} /\ asks # "event"
Fits(byte, a, n) ==
    IF byte.from[1] = "event" THEN byte.val \in EventHeads
    ELSE byte.from = <<"answer", n>> /\ byte.val \notin HeadValues /\ (a = "make" => byte.val = "ok")
Answers(s, a, n) ==
    /\ \A i \in 1..Len(s) : s[i].first => Fits(s[i], a, n)
    /\ \A i, j \in 1..Len(s) : IsAnswer(s[i]) /\ IsAnswer(s[j]) => i = j
NoneIn(s) == \A i \in 1..Len(s) : ~IsAnswer(s[i])
OneAnswer ==
    /\ Answers(stream, asks, asked)
    /\ NoneIn(stream) \/ (Awaited /\ requests = <<>>)
    /\ requests # <<>> => Awaited /\ requests = <<[asks |-> asks, n |-> asked]>>

\* What the library has read of the message under way.
Heads ==
    /\ pc # "lost" /\ (pc = "idle" => asks = "op")
    /\ pc = "id" => asks = "make" /\ head.first /\ head.from = <<"answer", asked>>
    /\ pc = "body" => /\ IsEvent(head) /\ head.val \in EventHeads
                      /\ events # <<>> => head.from[2] = Follows(events[Len(events)].from[2])

InStep ==
    /\ Rests(stream, Begun)
    /\ \E f \in [1..Len(stream)+1 -> Number] :
          Laid(stream, f, asks, nextEvent) /\ InTurn(f[Begun + 1])

Calm == upset = "no"
ProtocolInv ==
    /\ TypeOK /\ AnswerIsOwn /\ EventsInOrder
    /\ Calm => ~err /\ OneAnswer /\ Heads /\ InStep

-----------------------------------------------------------------------------
(* Messages and types *)

\* What event_lens gives is a length, at least an id's for the server's events.
LEMMA RestIs ==
    ASSUME NEW val
    PROVE  RestLen(val) \in Nat /\ (val \in EventHeads => RestLen(val) >= 1)
  <1>1. IdLen \in Nat /\ IdLen >= 1 /\ MaxStream \in Nat
    BY ProtocolAssumption
  <1>2. RestLen("event") = IdLen /\ RestLen("longer") = IdLen + 1 /\ RestLen("wild") = MaxStream
    BY DEF RestLen
  <1>3. val \notin {"event", "longer", "wild"} => RestLen(val) = 0
    BY DEF RestLen
  <1> QED
    BY <1>1, <1>2, <1>3 DEF EventHeads

LEMMA AfterIs == ASSUME NEW byte, NEW a PROVE After(byte, a) \in Nat
  BY RestIs, ProtocolAssumption DEF After

\* The bytes of a message: where it begins, and what it is from.
LEMMA MessageIs ==
    ASSUME NEW from, NEW val \in Values, NEW rest \in Seq(Values),
           from \in ({"answer"} \X (1..MaxRequests)) \cup ({"event"} \X (0..(EventNumbers - 1)))
    PROVE  IsMessage(Message(from, val, rest), from, val, Len(rest))
  <1> DEFINE a == <<[val |-> val, from |-> from, first |-> TRUE]>>
             b == [i \in 1..Len(rest) |-> [NoByte EXCEPT !.val = rest[i]]]
  <1>1. Len(rest) \in Nat /\ \A i \in 1..Len(rest) : rest[i] \in Values
    OBVIOUS
  <1>2. [val |-> val, from |-> from, first |-> TRUE] \in Byte
        /\ \A i \in 1..Len(rest) : [NoByte EXCEPT !.val = rest[i]] \in Byte /\ ~[NoByte EXCEPT !.val = rest[i]].first
    BY <1>1 DEF Byte, NoByte
  <1>3. a \in Seq(Byte) /\ Len(a) = 1 /\ a[1] = [val |-> val, from |-> from, first |-> TRUE]
    BY <1>2
  <1>4. b \in [1..Len(rest) -> Byte]
    BY <1>2
  <1>5. b \in Seq(Byte) /\ Len(b) = Len(rest) /\ \A i \in 1..Len(rest) : ~b[i].first
    <2>1. b \in Seq(Byte)
      BY <1>1, <1>4
    <2>2. Len(b) = Len(rest)
      BY <1>1, <1>4, <2>1
    <2>3. ASSUME NEW i \in 1..Len(rest) PROVE ~b[i].first
      <3>1. b[i] = [NoByte EXCEPT !.val = rest[i]]
        OBVIOUS
      <3> QED
        BY <1>2, <3>1
    <2> QED
      BY <2>1, <2>2, <2>3
  <1>6. Message(from, val, rest) = a \o b
    BY DEF Message
  <1> HIDE DEF a, b
  <1>7. /\ a \o b \in Seq(Byte) /\ Len(a \o b) = Len(a) + Len(b)
        /\ \A i \in 1..Len(a) + Len(b) : (a \o b)[i] = IF i <= Len(a) THEN a[i] ELSE b[i - Len(a)]
    <2>1. a \in Seq(Byte) /\ b \in Seq(Byte)
      BY <1>3, <1>5
    <2> QED
      BY <2>1, ConcatProperties
  <1>8. \A i \in 2..Len(a \o b) : ~(a \o b)[i].first
    BY <1>1, <1>3, <1>5, <1>7
  <1>9. (a \o b)[1] = [val |-> val, from |-> from, first |-> TRUE] /\ Len(a \o b) = 1 + Len(rest)
    <2>1. 1 \in 1..Len(a) + Len(b) /\ 1 <= Len(a) /\ Len(a) + Len(b) = 1 + Len(rest)
      BY <1>1, <1>3, <1>5
    <2>2. (a \o b)[1] = a[1]
      BY <1>7, <2>1
    <2> QED
      BY <1>3, <1>7, <2>1, <2>2
  <1> DEFINE m == a \o b
  <1>10. m \in Seq(Byte) /\ Len(m) = 1 + Len(rest) /\ m[1] = [val |-> val, from |-> from, first |-> TRUE]
         /\ \A i \in 2..Len(m) : ~m[i].first
    BY <1>7, <1>8, <1>9
  <1> HIDE DEF m
  <1>11. Message(from, val, rest) = m
    BY <1>6 DEF m
  <1> QED
    BY <1>10, <1>11 DEF IsMessage

\* The bytes of an id, and how many they are.
LEMMA IdsAre ==
    ASSUME NEW low \in Values
    PROVE  /\ AnswerId(low) \in Seq(Values) /\ Len(AnswerId(low)) = IdLen
           /\ \A val \in EventHeads : EventRest(val, low) \in Seq(Values) /\ Len(EventRest(val, low)) = RestLen(val)
  <1>1. IdLen \in Nat /\ "ok" \in Values
    BY ProtocolAssumption DEF Values
  <1>2. AnswerId(low) \in [1..IdLen -> Values]
    BY <1>1 DEF AnswerId
  <1>3. AnswerId(low) \in Seq(Values) /\ Len(AnswerId(low)) = IdLen
    BY <1>1, <1>2
  <1>4. ASSUME NEW val \in EventHeads
        PROVE  EventRest(val, low) \in Seq(Values) /\ Len(EventRest(val, low)) = RestLen(val)
    <2> DEFINE n == RestLen(val)
    <2>1. n \in Nat
      BY RestIs
    <2>2. EventRest(val, low) = [i \in 1..n |-> IF i = 1 THEN low ELSE "ok"]
      BY DEF EventRest
    <2> HIDE DEF n
    <2>3. EventRest(val, low) \in [1..n -> Values]
      BY <1>1, <2>2
    <2>4. EventRest(val, low) \in Seq(Values) /\ Len(EventRest(val, low)) = n
      BY <2>1, <2>3
    <2> QED
      BY <2>4 DEF n
  <1> QED
    BY <1>3, <1>4

\* What an id may hold is a value.
LEMMA LowsAre == Lows \subseteq Values /\ EventHeads \subseteq Values
  BY ProtocolAssumption DEF Values, HeadValues, EventHeads

\* A sequence without its first n elements ...
LEMMA DropIs ==
    ASSUME NEW S, NEW s \in Seq(S), NEW n \in 1..Len(s)
    PROVE  LET t == SubSeq(s, n + 1, Len(s)) IN
           t \in Seq(S) /\ Len(t) = Len(s) - n /\ \A i \in 1..Len(t) : t[i] = s[i + n]
  OBVIOUS

\* ... without its first one ...
LEMMA TailIs ==
    ASSUME NEW S, NEW s \in Seq(S), s # <<>>
    PROVE  /\ Head(s) = s[1] /\ Head(s) \in S /\ Len(s) \in Nat /\ Len(s) >= 1
           /\ Tail(s) \in Seq(S) /\ Len(Tail(s)) = Len(s) - 1
           /\ \A i \in 1..Len(Tail(s)) : Tail(s)[i] = s[i + 1]
  OBVIOUS

\* ... and two of them joined.
LEMMA JoinIs ==
    ASSUME NEW S, NEW s \in Seq(S), NEW t \in Seq(S)
    PROVE  /\ s \o t \in Seq(S) /\ Len(s \o t) = Len(s) + Len(t)
           /\ \A i \in 1..Len(s) : (s \o t)[i] = s[i]
           /\ \A i \in 1..Len(t) : (s \o t)[Len(s) + i] = t[i]
  <1>1. /\ s \o t \in Seq(S) /\ Len(s \o t) = Len(s) + Len(t)
        /\ \A i \in 1..Len(s) + Len(t) : (s \o t)[i] = IF i <= Len(s) THEN s[i] ELSE t[i - Len(s)]
    BY ConcatProperties
  <1>2. Len(s) \in Nat /\ Len(t) \in Nat
    OBVIOUS
  <1>3. \A i \in 1..Len(s) : (s \o t)[i] = s[i]
    BY <1>1, <1>2
  <1>4. ASSUME NEW i \in 1..Len(t) PROVE (s \o t)[Len(s) + i] = t[i]
    <2>1. Len(s) + i \in 1..Len(s) + Len(t) /\ ~(Len(s) + i <= Len(s)) /\ (Len(s) + i) - Len(s) = i
      BY <1>2
    <2> QED
      BY <1>1, <2>1
  <1> QED
    BY <1>1, <1>3, <1>4

\* What each action does to the types of things.
LEMMA TypeStep == TypeOK /\ [Next]_vars => TypeOK'
  <1> SUFFICES ASSUME TypeOK, [Next]_vars PROVE TypeOK'
    OBVIOUS
  <1> USE ProtocolAssumption
  <1>t. NoByte \in Byte /\ NoAnswer \in [for : 0..MaxRequests, byte : Byte]
    BY DEF NoByte, NoAnswer, Byte, Values
  <1>1. CASE Server
    <2>1. ASSUME NEW m \in Seq(Byte), Send(m), requests' = requests \/ (requests # <<>> /\ requests' = Tail(requests)),
                 nextEvent' = nextEvent \/ nextEvent' = (nextEvent + 1) % EventNumbers,
                 upset' \in {"no", "refused", "yes"},
                 UNCHANGED <<asked, pc, asks, head, events, err, errno, ret>>
          PROVE  TypeOK'
      <3>1. stream' \in Seq(Byte) /\ Len(stream') <= MaxStream
        BY <2>1, JoinIs DEF Send, TypeOK
      <3>2. requests' \in Seq([asks : {"make", "op"}, n : 1..MaxRequests])
        <4> DEFINE R == [asks : {"make", "op"}, n : 1..MaxRequests]
        <4>1. requests \in Seq(R)
          BY DEF TypeOK
        <4> HIDE DEF R
        <4>2. requests # <<>> => Tail(requests) \in Seq(R)
          BY <4>1, TailIs
        <4> QED
          BY <2>1, <4>1, <4>2 DEF R
      <3>3. nextEvent' \in 0..(EventNumbers - 1)
        BY <2>1 DEF TypeOK
      <3> QED
        BY <2>1, <3>1, <3>2, <3>3 DEF TypeOK
    <2>2. requests # <<>> => <<"answer", Head(requests).n>> \in {"answer"} \X (1..MaxRequests)
      <3> DEFINE R == [asks : {"make", "op"}, n : 1..MaxRequests]
      <3>1. requests \in Seq(R)
        BY DEF TypeOK
      <3>2. \A r \in R : r.n \in 1..MaxRequests
        OBVIOUS
      <3> HIDE DEF R
      <3>3. requests # <<>> => Head(requests) \in R
        BY <3>1, TailIs
      <3>4. requests # <<>> => Head(requests).n \in 1..MaxRequests
        BY <3>2, <3>3
      <3> QED
        BY <3>4
    <2>3. <<"event", nextEvent>> \in {"event"} \X (0..(EventNumbers - 1))
      BY DEF TypeOK
    <2>4. ASSUME NEW val \in {"ok", "fail"}, AnswerOp(val) PROVE TypeOK'
      <3>1. Message(<<"answer", Head(requests).n>>, val, <<>>) \in Seq(Byte)
        <4>1. <<>> \in Seq(Values) /\ val \in Values /\ requests # <<>>
          BY <2>4 DEF AnswerOp, Values
        <4> QED
          BY <2>2, <4>1, MessageIs DEF IsMessage
      <3> QED
        BY <2>1, <2>4, <3>1 DEF AnswerOp, clientVars, TypeOK
    <2>5. ASSUME NEW low \in Lows, AnswerMade(low) PROVE TypeOK'
      <3>1. Message(<<"answer", Head(requests).n>>, "ok", AnswerId(low)) \in Seq(Byte)
        <4>1. low \in Values /\ "ok" \in Values /\ requests # <<>>
          BY <2>5, LowsAre DEF AnswerMade, Values
        <4>2. AnswerId(low) \in Seq(Values)
          BY <4>1, IdsAre
        <4> QED
          BY <2>2, <4>1, <4>2, MessageIs DEF IsMessage
      <3> QED
        BY <2>1, <2>5, <3>1 DEF AnswerMade, clientVars, TypeOK
    <2>6. ASSUME NEW low \in Lows, NEW val \in EventHeads, SendEvent(val, low) PROVE TypeOK'
      <3>1. Message(<<"event", nextEvent>>, val, EventRest(val, low)) \in Seq(Byte)
        <4>1. low \in Values /\ val \in Values
          BY LowsAre
        <4>2. EventRest(val, low) \in Seq(Values)
          BY <4>1, IdsAre
        <4> QED
          BY <2>3, <4>1, <4>2, MessageIs DEF IsMessage
      <3> QED
        BY <2>1, <2>6, <3>1 DEF SendEvent, clientVars, TypeOK
    <2>7. CASE AnswerNotMade
      <3>1. Message(<<"answer", Head(requests).n>>, "fail", AnswerId("ok")) \in Seq(Byte)
        <4>1. "fail" \in Values /\ "ok" \in Values /\ requests # <<>>
          BY <2>7 DEF AnswerNotMade, Values
        <4>2. AnswerId("ok") \in Seq(Values)
          BY <4>1, IdsAre
        <4> QED
          BY <2>2, <4>1, <4>2, MessageIs DEF IsMessage
      <3> QED
        BY <2>1, <2>7, <3>1 DEF AnswerNotMade, TypeOK
    <2> QED
      BY <1>1, <2>4, <2>5, <2>6, <2>7 DEF Server
  <1>s. ASSUME NEW w, NEW n, w \in Nat, Take(w, n)
        PROVE  stream' \in Seq(Byte) /\ Len(stream') <= MaxStream
    BY <1>s, DropIs DEF Take, TypeOK
  <1>w. Wanted \in Nat /\ IdLen \in Nat /\ MaxStream \in Nat
    BY RestIs DEF Wanted
  <1>2. CASE RecvStatus
    <2>1. stream # <<>> /\ Head(stream) \in Byte /\ stream' \in Seq(Byte) /\ Len(stream') <= MaxStream
      BY <1>2, <1>s, TailIs DEF RecvStatus, Take, TypeOK
    <2> QED
      BY <1>2, <1>t, <2>1 DEF RecvStatus, Done, Return, TypeOK
  <1>3. ASSUME NEW n \in 1..MaxStream, RecvBody(n) PROVE TypeOK'
    <2>1. stream' \in Seq(Byte) /\ Len(stream') <= MaxStream
      BY <1>3, <1>s, <1>w DEF RecvBody
    <2>2. Len(events) < Capacity => Append(events, head) \in Seq(Byte) /\ Len(Append(events, head)) <= Capacity
      BY DEF TypeOK
    <2>3. pc' \in {"idle", "status"} /\ asks' \in {"op", asks} /\ head' = NoByte
          /\ ret' \in {ret, NoAnswer} /\ err' \in {err, TRUE} /\ upset' \in {upset, "yes"}
          /\ UNCHANGED <<requests, nextEvent, asked, errno>>
      BY <1>3 DEF RecvBody, AfterEvent, Done, Fail, Noted
    <2>4. events' = events \/ (Len(events) < Capacity /\ events' = Append(events, head))
      BY <1>3 DEF RecvBody
    <2> QED
      BY <1>t, <2>1, <2>2, <2>3, <2>4 DEF TypeOK
  <1>4. ASSUME NEW n \in 1..MaxStream, RecvId(n) PROVE TypeOK'
    BY <1>4, <1>s, <1>t, <1>w DEF RecvId, Return, Done, Noted, TypeOK
  <1>5. ASSUME NEW n \in 1..MaxStream, RecvStaleErrno(n) PROVE TypeOK'
    BY <1>5, <1>s, <1>t, <1>w DEF RecvStaleErrno, Fail, Done, TypeOK
  <1>6. CASE RecvTimeout \/ RecvFails
    BY <1>6, <1>t DEF RecvTimeout, RecvFails, Fail, Done, serverVars, TypeOK
  <1>7. ASSUME NEW kind \in {"make", "op"}, Request(kind) PROVE TypeOK'
    <2>1. asked' \in 1..MaxRequests
      BY <1>7 DEF Request, TypeOK
    <2> QED
      BY <1>7, <1>t, <2>1 DEF Request, serverVars, TypeOK
  <1>8. CASE RecvEvent
    BY <1>8, <1>t DEF RecvEvent, serverVars, TypeOK
  <1>9. CASE RecvEventInError
    BY <1>9, <1>s DEF RecvEventInError, clientVars, TypeOK
  <1>10. CASE PopEvent
    <2>1. Tail(events) \in Seq(Byte) /\ Len(Tail(events)) <= Capacity
      BY <1>10, TailIs DEF PopEvent, TypeOK
    <2> QED
      BY <1>10, <2>1 DEF PopEvent, serverVars, TypeOK
  <1>11. CASE ClearErr
    BY <1>11 DEF ClearErr, serverVars, TypeOK
  <1>12. CASE UNCHANGED vars
    BY <1>12 DEF vars, serverVars, clientVars, TypeOK
  <1>13. CASE SendRequest
    <2>1. asks \in {"make", "op"} /\ asked \in 1..MaxRequests
      BY <1>13 DEF SendRequest, TypeOK
    <2>2. requests' \in Seq([asks : {"make", "op"}, n : 1..MaxRequests])
      BY <1>13, <2>1 DEF SendRequest, TypeOK
    <2> QED
      BY <1>13, <2>2 DEF SendRequest, TypeOK
  <1>14. CASE SendFails \/ ReadsOutsideTable
    BY <1>14, <1>t DEF SendFails, ReadsOutsideTable, Fail, Lost, Done, serverVars, TypeOK
  <1>15. ASSUME NEW n \in 1..MaxStream, ReadsLost(n) PROVE TypeOK'
    BY <1>15, <1>s, <1>w DEF ReadsLost, clientVars, TypeOK
  <1> QED
    BY <1>1, <1>2, <1>3, <1>4, <1>5, <1>6, <1>7, <1>8, <1>9, <1>10, <1>11, <1>12, <1>13, <1>14, <1>15
    DEF Next, Library, Program, Failure

-----------------------------------------------------------------------------
(* What reading and writing do to the bytes on their way *)

\* An index into what n bytes read have left, and the same one into the whole.
LEMMA Within ==
    ASSUME NEW p \in Nat, NEW q \in Nat, NEW n \in Nat, q = p - n, NEW i \in 1..q, NEW x \in Nat,
           (i + x) + n <= p
    PROVE  /\ i + x <= q /\ (i + x) + 1 \in 1..q+1 /\ i \in 1..q+1 /\ i <= i + x
           /\ ((i + x) + 1) + n = ((i + x) + n) + 1
  OBVIOUS

\* Reading n bytes shifts the rest by n; the answers may be asked for otherwise
\* than before where that makes no difference.
LEMMA LaidDrop ==
    ASSUME NEW s \in Seq(Byte), NEW f \in [1..Len(s)+1 -> Number], NEW a, NEW b, NEW next,
           NEW n \in 1..Len(s), Laid(s, f, a, next),
           Alike(s, n, a, b)
    PROVE  Shifted(s, n, f, b, next)
  <1> DEFINE t == SubSeq(s, n + 1, Len(s))
             g == [i \in 1..Len(t)+1 |-> f[i + n]]
  <1>1. t \in Seq(Byte) /\ Len(t) = Len(s) - n /\ \A i \in 1..Len(t) : t[i] = s[i + n]
    BY DropIs
  <1>2. Len(s) \in Nat /\ Len(t) \in Nat /\ n \in Nat /\ n >= 1 /\ n <= Len(s)
    BY <1>1
  <1> HIDE DEF t
  <1>3. \A i \in 1..Len(t)+1 : i + n \in 1..Len(s)+1
    BY <1>1, <1>2
  <1>4. g \in [1..Len(t)+1 -> Number] /\ \A i \in 1..Len(t)+1 : g[i] = f[i + n]
    BY <1>3
  <1> HIDE DEF g
  <1>5. g[Len(t) + 1] = next
    <2>1. Len(t) + 1 \in 1..Len(t)+1 /\ (Len(t) + 1) + n = Len(s) + 1
      BY <1>1, <1>2
    <2> QED
      BY <1>4, <2>1 DEF Laid
  <1>6. ASSUME NEW i \in 1..Len(t), t[i].first PROVE LaidAt(t, g, b, i)
    <2> DEFINE x == After(t[i], b)
    <2>1. t[i] = s[i + n] /\ i + n \in 1..Len(s) /\ i + n > n
      BY <1>1, <1>2
    <2>2. LaidAt(s, f, a, i + n)
      BY <1>6, <2>1 DEF Laid
    <2>3. After(s[i + n], a) = x
      BY <1>6, <2>1 DEF Alike
    <2>4. x \in Nat
      BY AfterIs
    <2> HIDE DEF x
    <2> DEFINE end == i + x
    <2>5. end \in Nat /\ (i + n) + x = end + n
      BY <1>2, <2>4
    <2>6. /\ end + n <= Len(s) /\ (end + n < Len(s) => s[(end + n) + 1].first)
          /\ \A k \in (i + n)+1..end + n : ~s[k].first
          /\ IF IsEvent(t[i]) THEN t[i].from[2] = f[i + n] /\ f[(end + n) + 1] = Follows(f[i + n])
             ELSE f[(end + n) + 1] = f[i + n]
      BY <2>1, <2>2, <2>3, <2>5 DEF LaidAt
    <2>7. /\ end <= Len(t) /\ end + 1 \in 1..Len(t)+1 /\ i \in 1..Len(t)+1 /\ i <= end
          /\ (end + 1) + n = (end + n) + 1
      <3>1. /\ Len(s) \in Nat /\ Len(t) \in Nat /\ n \in Nat /\ Len(t) = Len(s) - n
            /\ i \in 1..Len(t) /\ x \in Nat /\ (i + x) + n <= Len(s)
        BY <1>1, <1>2, <2>4, <2>6
      <3> QED
        BY ONLY <3>1, Within DEF end
    <2> HIDE DEF end
    <2>8. g[end + 1] = f[(end + n) + 1] /\ g[i] = f[i + n]
      BY <1>4, <2>7
    <2>9. ASSUME end < Len(t) PROVE t[end + 1].first
      <3>1. end + 1 \in 1..Len(t) /\ end + n < Len(s)
        BY <1>1, <1>2, <2>5, <2>9
      <3>2. t[end + 1] = s[(end + n) + 1]
        <4>1. t[end + 1] = s[(end + 1) + n]
          BY <1>1, <3>1
        <4> QED
          BY <2>7, <4>1
      <3> QED
        BY <2>6, <3>1, <3>2
    <2>10. ASSUME NEW k \in i+1..end PROVE ~t[k].first
      <3>1. k \in Int /\ i + 1 <= k /\ k <= end
        BY <2>5
      <3>2. k \in 1..Len(t)
        BY <1>2, <2>5, <2>7, <3>1
      <3>3. k + n \in (i + n)+1..end + n
        BY <1>2, <2>5, <3>1
      <3> QED
        BY <1>1, <2>6, <3>2, <3>3
    <2> QED
      BY <2>6, <2>7, <2>8, <2>9, <2>10 DEF LaidAt, end, x
  <1>7. Laid(t, g, b, next)
    BY <1>4, <1>5, <1>6 DEF Laid
  <1> QED
    BY <1>1, <1>4, <1>7 DEF Shifted, t

\* An index past the first p is one into the q that follow.
LEMMA Past ==
    ASSUME NEW i \in Int, NEW p \in Nat, NEW q \in Nat, i > p + 1, i <= p + q
    PROVE  i - p \in 2..q /\ i - p \in 1..q /\ p + (i - p) = i
  OBVIOUS

\* A message is written behind the others.
LEMMA LaidJoin ==
    ASSUME NEW s \in Seq(Byte), NEW f \in [1..Len(s)+1 -> Number], NEW a, NEW next, NEW after \in Number,
           Laid(s, f, a, next), NEW m \in Seq(Byte),
           Whole(m, a), Counted(m, next, after)
    PROVE  \E g \in [1..Len(s \o m)+1 -> Number] :
              Laid(s \o m, g, a, after) /\ \A i \in 1..Len(s)+1 : g[i] = f[i]
  <1> USE DEF Whole, Counted
  <1> DEFINE t == s \o m
             g == [i \in 1..Len(t)+1 |-> IF i <= Len(s) + 1 THEN f[i] ELSE after]
  <1>1. /\ t \in Seq(Byte) /\ Len(t) = Len(s) + Len(m)
        /\ \A i \in 1..Len(s) : t[i] = s[i]
        /\ \A i \in 1..Len(m) : t[Len(s) + i] = m[i]
    <2>1. s \in Seq(Byte) /\ m \in Seq(Byte)
      OBVIOUS
    <2> QED
      BY ONLY <2>1, JoinIs
  <1>2. Len(s) \in Nat /\ Len(m) \in Nat /\ Len(t) \in Nat /\ Len(m) >= 1 /\ After(m[1], a) \in Nat
    BY <1>1, AfterIs
  <1> HIDE DEF t
  <1>3. g \in [1..Len(t)+1 -> Number]
    BY <1>1, <1>2
  <1>4. /\ \A i \in 1..Len(s)+1 : i \in 1..Len(t)+1 /\ g[i] = f[i]
        /\ \A i \in 1..Len(t)+1 : i > Len(s) + 1 => g[i] = after
    <2>1. Len(s) \in Nat /\ Len(t) \in Nat /\ Len(s) <= Len(t)
      BY <1>1, <1>2
    <2>2. \A i \in 1..Len(s)+1 : i \in 1..Len(t)+1 /\ i <= Len(s) + 1
      BY ONLY <2>1
    <2>3. \A i \in 1..Len(t)+1 : g[i] = IF i <= Len(s) + 1 THEN f[i] ELSE after
      OBVIOUS
    <2>4. \A i \in 1..Len(t)+1 : i > Len(s) + 1 => ~(i <= Len(s) + 1)
      BY ONLY <2>1
    <2> HIDE DEF g
    <2> QED
      BY <2>2, <2>3, <2>4
  <1> HIDE DEF g
  <1>5. g[Len(t) + 1] = after
    <2>2. Len(s) \in Nat /\ Len(t) \in Nat /\ Len(m) \in Nat /\ Len(m) >= 1 /\ Len(t) = Len(s) + Len(m)
      BY <1>1, <1>2
    <2>1. Len(t) + 1 \in 1..Len(t)+1 /\ Len(t) + 1 > Len(s) + 1
      BY ONLY <2>2
    <2> QED
      BY <1>4, <2>1
  <1>6. t[Len(s) + 1] = m[1]
    BY <1>1, <1>2
  <1>7. ASSUME NEW i \in 1..Len(t), t[i].first PROVE LaidAt(t, g, a, i)
    <2>1. CASE i <= Len(s)
      <3> DEFINE x == After(s[i], a)
      <3>1. i \in 1..Len(s) /\ t[i] = s[i] /\ LaidAt(s, f, a, i)
        BY <1>1, <1>2, <1>7, <2>1 DEF Laid
      <3>2. x \in Nat
        BY AfterIs
      <3> HIDE DEF x
      <3> DEFINE end == i + x
      <3>3. /\ end <= Len(s) /\ (end < Len(s) => s[end + 1].first)
            /\ \A k \in i+1..end : ~s[k].first
            /\ IF IsEvent(t[i]) THEN t[i].from[2] = f[i] /\ f[end + 1] = Follows(f[i])
               ELSE f[end + 1] = f[i]
        BY <3>1 DEF LaidAt, x
      <3>4. end \in Nat /\ i <= end /\ end + 1 \in 1..Len(s)+1 /\ i \in 1..Len(s)+1 /\ end <= Len(t)
        BY <1>1, <1>2, <3>1, <3>2, <3>3
      <3> HIDE DEF end
      <3>5. g[end + 1] = f[end + 1] /\ g[i] = f[i]
        BY <1>4, <3>4
      <3>6. end < Len(t) => t[end + 1].first
        <4>1. CASE end < Len(s)
          <5>1. end + 1 \in 1..Len(s)
            BY <1>2, <3>4, <4>1
          <5> QED
            BY <1>1, <3>3, <4>1, <5>1
        <4>2. CASE ~(end < Len(s))
          <5>1. end = Len(s)
            BY <1>2, <3>3, <3>4, <4>2
          <5> QED
            BY <1>6, <5>1
        <4> QED
          BY <4>1, <4>2
      <3>7. ASSUME NEW k \in i+1..end PROVE ~t[k].first
        <4>1. k \in 1..Len(s)
          BY <1>2, <3>1, <3>3, <3>4
        <4> QED
          BY <1>1, <3>3, <4>1
      <3> QED
        BY <3>1, <3>3, <3>4, <3>5, <3>6, <3>7 DEF LaidAt, end, x
    <2>2. CASE i = Len(s) + 1
      <3> DEFINE end == i + After(m[1], a)
      <3>1. t[i] = m[1] /\ end = Len(t)
        BY <1>1, <1>2, <1>6, <2>2
      <3>8. Len(s) + 1 \in 1..Len(s)+1
        BY <1>2
      <3>2. g[end + 1] = after /\ g[i] = next
        BY <1>4, <1>5, <2>2, <3>1, <3>8 DEF Laid
      <3>4. end \in Int /\ i \in Int
        BY <1>1, <1>2, <3>1
      <3> HIDE DEF end
      <3>3. ASSUME NEW k \in i+1..end PROVE ~t[k].first
        <4>3. k \in Int /\ i + 1 <= k /\ k <= end
          BY <3>4
        <4>1. k - Len(s) \in 2..Len(m) /\ Len(s) + (k - Len(s)) = k
          BY <1>1, <1>2, <2>2, <3>1, <4>3
        <4>2. k - Len(s) \in 1..Len(m)
          BY <1>2, <4>1
        <4> QED
          BY <1>1, <4>1, <4>2
      <3>5. end = i + After(m[1], a)
        BY DEF end
      <3>6. end <= Len(t) /\ ~(end < Len(t))
        BY <1>2, <3>1
      <3>7. IF IsEvent(t[i]) THEN t[i].from[2] = g[i] /\ g[end + 1] = Follows(g[i]) ELSE g[end + 1] = g[i]
        BY <3>1, <3>2
      <3> QED
        BY <3>1, <3>3, <3>5, <3>6, <3>7 DEF LaidAt
    <2>3. CASE i > Len(s) + 1
      <3>4. i \in Int /\ i <= Len(s) + Len(m)
        BY <1>1, <1>2
      <3>1. i - Len(s) \in 2..Len(m) /\ i - Len(s) \in 1..Len(m) /\ Len(s) + (i - Len(s)) = i
        BY ONLY <1>2, <2>3, <3>4, Past
      <3>2. t[Len(s) + (i - Len(s))] = m[i - Len(s)]
        BY <1>1, <3>1
      <3> QED
        BY <1>7, <3>1, <3>2
    <2> QED
      BY <1>2, <2>1, <2>2, <2>3
  <1>8. Laid(t, g, a, after)
    BY <1>3, <1>5, <1>7 DEF Laid
  <1> QED
    BY <1>3, <1>4, <1>8 DEF t

\* A message sent behind others leaves where they begin as it was.
LEMMA RestsJoin ==
    ASSUME NEW s \in Seq(Byte), NEW n \in Nat, NEW m \in Seq(Byte), Len(m) >= 1, m[1].first, Rests(s, n)
    PROVE  Rests(s \o m, n)
  <1> DEFINE t == s \o m
  <1>1. /\ t \in Seq(Byte) /\ Len(t) = Len(s) + Len(m)
        /\ \A i \in 1..Len(s) : t[i] = s[i]
        /\ \A i \in 1..Len(m) : t[Len(s) + i] = m[i]
    BY JoinIs
  <1>2. Len(s) \in Nat /\ Len(m) \in Nat
    OBVIOUS
  <1> HIDE DEF t
  <1>3. t[Len(s) + 1] = m[1]
    BY <1>1, <1>2
  <1>4. n < Len(t) => t[n + 1].first
    <2>1. CASE n < Len(s)
      BY <1>1, <1>2, <2>1 DEF Rests
    <2>2. CASE n = Len(s)
      BY <1>3, <2>2
    <2> QED
      BY <1>2, <2>1, <2>2 DEF Rests
  <1>5. n <= Len(t) /\ \A k \in 1..n : ~t[k].first
    <2>1. n <= Len(s) /\ \A k \in 1..n : ~s[k].first
      BY DEF Rests
    <2>2. n <= Len(t)
      BY <1>1, <1>2, <2>1
    <2>3. \A k \in 1..n : k \in 1..Len(s)
      BY <1>2, <2>1
    <2> QED
      BY <1>1, <2>1, <2>2, <2>3
  <1> QED
    BY <1>4, <1>5 DEF Rests, t

\* Reading takes an answer away or leaves what is there.
LEMMA AnswersDrop ==
    ASSUME NEW s \in Seq(Byte), NEW a, NEW n, NEW d \in 1..Len(s), Answers(s, a, n), NEW b,
           \A i \in 1..Len(s) : i > d /\ IsAnswer(s[i]) => b = a
    PROVE  LET t == SubSeq(s, d + 1, Len(s)) IN
           /\ Answers(t, b, n)
           /\ (\A i \in 1..Len(s) : i > d => ~IsAnswer(s[i])) => NoneIn(t)
  <1> DEFINE t == SubSeq(s, d + 1, Len(s))
  <1>1. t \in Seq(Byte) /\ Len(t) = Len(s) - d /\ \A i \in 1..Len(t) : t[i] = s[i + d]
    BY DropIs
  <1>2. Len(s) \in Nat /\ Len(t) \in Nat /\ d \in Nat /\ d >= 1
    BY <1>1
  <1> HIDE DEF t
  <1>3. \A i \in 1..Len(t) : i + d \in 1..Len(s) /\ i + d > d
    BY <1>1, <1>2
  <1>4. ASSUME NEW i \in 1..Len(t), t[i].first PROVE Fits(t[i], b, n)
    <2>1. t[i] = s[i + d] /\ Fits(t[i], a, n)
      BY <1>1, <1>3, <1>4 DEF Answers
    <2>2. IsAnswer(t[i]) => b = a
      BY <1>3, <2>1
    <2> QED
      BY <1>4, <2>1, <2>2 DEF Fits, IsAnswer
  <1>5. ASSUME NEW i \in 1..Len(t), NEW j \in 1..Len(t), IsAnswer(t[i]), IsAnswer(t[j]) PROVE i = j
    <2>1. i + d = j + d
      BY <1>1, <1>3, <1>5 DEF Answers
    <2> QED
      BY <1>2, <2>1
  <1>6. (\A i \in 1..Len(s) : i > d => ~IsAnswer(s[i])) => NoneIn(t)
    BY <1>1, <1>3 DEF NoneIn
  <1> QED
    BY <1>4, <1>5, <1>6 DEF Answers, t

\* It adds one answer to those in the stream, or none.
LEMMA AnswersJoin ==
    ASSUME NEW s \in Seq(Byte), NEW a, NEW n, Answers(s, a, n),
           NEW m \in Seq(Byte), Len(m) >= 1, \A k \in 2..Len(m) : ~m[k].first,
           Fits(m[1], a, n),
           IsAnswer(m[1]) => NoneIn(s)
    PROVE  Answers(s \o m, a, n) /\ (NoneIn(s) /\ ~IsAnswer(m[1]) => NoneIn(s \o m))
  <1> DEFINE t == s \o m
  <1>1. /\ t \in Seq(Byte) /\ Len(t) = Len(s) + Len(m)
        /\ \A i \in 1..Len(s) : t[i] = s[i]
        /\ \A i \in 1..Len(m) : t[Len(s) + i] = m[i]
    BY JoinIs
  <1>2. Len(s) \in Nat /\ Len(m) \in Nat /\ Len(t) \in Nat
    BY <1>1
  <1> HIDE DEF t
  <1>3. \A i \in 1..Len(t) : t[i].first => (i \in 1..Len(s) /\ t[i] = s[i]) \/ (i = Len(s) + 1 /\ t[i] = m[1])
    <2> SUFFICES ASSUME NEW i \in 1..Len(t), t[i].first, ~(i \in 1..Len(s)) PROVE i = Len(s) + 1 /\ t[i] = m[1]
      BY <1>1
    <2>1. i - Len(s) \in 1..Len(m) /\ Len(s) + (i - Len(s)) = i
      BY <1>1, <1>2
    <2>2. t[i] = m[i - Len(s)]
      BY <1>1, <2>1
    <2>3. ~(i - Len(s) \in 2..Len(m))
      BY <2>2
    <2>4. i - Len(s) = 1
      BY <1>2, <2>1, <2>3
    <2> QED
      BY <1>2, <2>2, <2>4
  <1>4. ASSUME NEW i \in 1..Len(t), t[i].first PROVE Fits(t[i], a, n)
    BY <1>3, <1>4 DEF Answers
  <1>5. ASSUME NEW i \in 1..Len(t), NEW j \in 1..Len(t), IsAnswer(t[i]), IsAnswer(t[j]) PROVE i = j
    <2>1. t[i].first /\ t[j].first
      BY <1>5 DEF IsAnswer
    <2>2. CASE i \in 1..Len(s) /\ t[i] = s[i] /\ j \in 1..Len(s) /\ t[j] = s[j]
      BY <1>5, <2>2 DEF Answers
    <2>3. CASE i \in 1..Len(s) /\ t[i] = s[i] /\ j = Len(s) + 1 /\ t[j] = m[1]
      BY <1>5, <2>3 DEF NoneIn
    <2>4. CASE j \in 1..Len(s) /\ t[j] = s[j] /\ i = Len(s) + 1 /\ t[i] = m[1]
      BY <1>5, <2>4 DEF NoneIn
    <2> QED
      BY <1>3, <2>1, <2>2, <2>3, <2>4
  <1>6. ASSUME NoneIn(s), ~IsAnswer(m[1]), NEW i \in 1..Len(t), IsAnswer(t[i]) PROVE FALSE
    <2>1. t[i].first
      BY <1>6 DEF IsAnswer
    <2> QED
      BY <1>3, <1>6, <2>1 DEF NoneIn
  <1> QED
    BY <1>4, <1>5, <1>6 DEF Answers, NoneIn, t

-----------------------------------------------------------------------------
(* The steps *)

\* Once something has gone wrong, the invariant asks for the types only.
LEMMA NoLongerCalm == TypeOK' /\ upset' # "no" => ProtocolInv'
  BY DEF ProtocolInv, AnswerIsOwn, EventsInOrder, Calm

\* The server writes message m: its answer to the request that waits, or an event.
LEMMA SendStep ==
    ASSUME ProtocolInv, Calm, TypeOK', NEW m \in Seq(Byte), stream' = stream \o m,
           UNCHANGED clientVars,
           Len(m) >= 1, m[1].first, \A k \in 2..Len(m) : ~m[k].first,
           \/ /\ requests # <<>> /\ requests' = Tail(requests) /\ nextEvent' = nextEvent
              /\ m[1].from = <<"answer", Head(requests).n>>
              /\ IF Head(requests).asks = "make" THEN m[1].val = "ok" /\ Len(m) = 1 + IdLen
                 ELSE m[1].val \notin HeadValues /\ Len(m) = 1
           \/ /\ requests' = requests /\ nextEvent' = Follows(nextEvent)
              /\ m[1].from = <<"event", nextEvent>> /\ m[1].val \in EventHeads
              /\ Len(m) = 1 + RestLen(m[1].val)
    PROVE  ProtocolInv'
  <1>1. /\ stream \in Seq(Byte) /\ nextEvent \in Number /\ nextEvent' \in Number
        /\ ~err /\ OneAnswer /\ Heads /\ InStep
    BY DEF ProtocolInv, TypeOK, Number
  <1>2. /\ UNCHANGED <<asked, pc, asks, head, events, err, errno, ret, upset>>
    BY DEF clientVars
  <1>3. AnswerIsOwn' /\ EventsInOrder' /\ ~err' /\ Heads'
    BY <1>1, <1>2 DEF ProtocolInv, AnswerIsOwn, EventsInOrder, Heads, IsEvent
  <1>4. requests # <<>> => /\ Awaited /\ Head(requests) = [asks |-> asks, n |-> asked] /\ Tail(requests) = <<>>
                           /\ NoneIn(stream)
    <2> DEFINE r == [asks |-> asks, n |-> asked]
    <2>1. requests # <<>> => Awaited /\ requests = <<r>> /\ NoneIn(stream)
      BY <1>1 DEF OneAnswer
    <2> HIDE DEF r
    <2>2. Head(<<r>>) = r /\ Tail(<<r>>) = <<>>
      OBVIOUS
    <2> QED
      BY <2>1, <2>2 DEF r
  <1>5. /\ Fits(m[1], asks, asked) /\ Len(m) = 1 + After(m[1], asks)
        /\ IF IsEvent(m[1]) THEN m[1].from[2] = nextEvent /\ nextEvent' = Follows(nextEvent)
           ELSE nextEvent' = nextEvent
        /\ IsAnswer(m[1]) => requests # <<>> /\ requests' = <<>> /\ NoneIn(stream)
        /\ ~IsAnswer(m[1]) => requests' = requests
    <2>1. CASE requests # <<>> /\ m[1].from = <<"answer", Head(requests).n>>
               /\ requests' = Tail(requests) /\ nextEvent' = nextEvent
               /\ IF Head(requests).asks = "make" THEN m[1].val = "ok" /\ Len(m) = 1 + IdLen
                  ELSE m[1].val \notin HeadValues /\ Len(m) = 1
      <3>1. m[1].from[1] = "answer" /\ m[1].from[1] # "event"
        BY <2>1
      <3>2. m[1].from = <<"answer", asked>> /\ (IF asks = "make" THEN m[1].val = "ok" /\ Len(m) = 1 + IdLen
                  ELSE m[1].val \notin HeadValues /\ Len(m) = 1)
        BY <1>4, <2>1
      <3> QED
        BY <1>4, <2>1, <3>1, <3>2 DEF Fits, After, IsEvent, IsAnswer, HeadValues, EventHeads
    <2>2. CASE requests' = requests /\ nextEvent' = Follows(nextEvent)
               /\ m[1].from = <<"event", nextEvent>> /\ m[1].val \in EventHeads
               /\ Len(m) = 1 + RestLen(m[1].val)
      <3>1. m[1].from[1] = "event" /\ m[1].from[2] = nextEvent
        BY <2>2
      <3> QED
        BY <2>2, <3>1 DEF Fits, After, IsEvent, IsAnswer
    <2> QED
      BY <2>1, <2>2
  <1>6. OneAnswer'
    <2>1. Answers(stream, asks, asked)
      BY <1>1 DEF OneAnswer
    <2>2. Answers(stream \o m, asks, asked) /\ (NoneIn(stream) /\ ~IsAnswer(m[1]) => NoneIn(stream \o m))
      BY <1>1, <1>5, <2>1, AnswersJoin
    <2>3. Awaited' = Awaited
      BY <1>2 DEF Awaited
    <2>4. Answers(stream, asks, asked)'
      BY <1>2, <2>2
    <2>5. CASE IsAnswer(m[1])
      BY <1>4, <1>5, <2>3, <2>4, <2>5 DEF OneAnswer
    <2>6. CASE ~IsAnswer(m[1])
      <3>1. NoneIn(stream)' \/ (Awaited /\ requests = <<>>)
        BY <1>1, <2>2, <2>6 DEF OneAnswer
      <3> QED
        BY <1>1, <1>2, <1>5, <2>3, <2>4, <2>6, <3>1 DEF OneAnswer
    <2> QED
      BY <2>5, <2>6
  <1>7. InStep'
    <2>1. PICK f \in [1..Len(stream)+1 -> Number] :
             Laid(stream, f, asks, nextEvent) /\ InTurn(f[Begun + 1])
      BY <1>1 DEF InStep
    <2>2. PICK g \in [1..Len(stream \o m)+1 -> Number] :
             Laid(stream \o m, g, asks, nextEvent') /\ \A i \in 1..Len(stream)+1 : g[i] = f[i]
      <3>1. /\ stream \in Seq(Byte) /\ nextEvent' \in Number /\ f \in [1..Len(stream)+1 -> Number]
            /\ Laid(stream, f, asks, nextEvent) /\ m \in Seq(Byte)
            /\ Whole(m, asks) /\ Counted(m, nextEvent, nextEvent')
        BY <1>1, <1>5, <2>1 DEF Whole, Counted
      <3> QED
        BY ONLY <3>1, LaidJoin
    <2>3. Begun' = Begun /\ Begun \in Nat /\ Begun <= Len(stream) /\ Rests(stream, Begun)
      BY <1>1, <1>2, RestIs, ProtocolAssumption DEF Begun, InStep, Rests
    <2>4. Rests(stream \o m, Begun)
      BY <1>1, <2>3, RestsJoin
    <2>5. g[Begun + 1] = f[Begun + 1]
      <3>1. Len(stream) \in Nat
        BY <1>1
      <3>2. Begun + 1 \in 1..Len(stream)+1
        BY <2>3, <3>1
      <3> QED
        BY <2>2, <3>2
    <2>6. InTurn(g[Begun + 1])'
      BY <1>2, <2>1, <2>3, <2>5 DEF InTurn
    <2> QED
      BY <1>2, <2>2, <2>3, <2>4, <2>6 DEF InStep
  <1> QED
    BY <1>3, <1>6, <1>7 DEF ProtocolInv

\* Reading the first byte of a message leaves the rest of it to be read.
LEMMA RestsDrop ==
    ASSUME NEW s \in Seq(Byte), NEW f, NEW a, Len(s) >= 1, LaidAt(s, f, a, 1)
    PROVE  Rests(SubSeq(s, 1 + 1, Len(s)), After(s[1], a))
  <1> DEFINE t == SubSeq(s, 1 + 1, Len(s))
             x == After(s[1], a)
  <1>1. 1 \in 1..Len(s)
    OBVIOUS
  <1>2. t \in Seq(Byte) /\ Len(t) = Len(s) - 1 /\ \A i \in 1..Len(t) : t[i] = s[i + 1]
    BY <1>1, DropIs
  <1>3. x \in Nat /\ Len(s) \in Nat
    BY AfterIs
  <1>4. /\ 1 + x <= Len(s) /\ (1 + x < Len(s) => s[(1 + x) + 1].first)
        /\ \A k \in 1+1..1+x : ~s[k].first
    BY DEF LaidAt
  <1> HIDE DEF t, x
  <1>5. x <= Len(t)
    BY <1>2, <1>3, <1>4
  <1>6. ASSUME x < Len(t) PROVE t[x + 1].first
    <2>1. x + 1 \in 1..Len(t) /\ (x + 1) + 1 = (1 + x) + 1 /\ 1 + x < Len(s)
      BY <1>2, <1>3, <1>6
    <2> QED
      BY <1>2, <1>4, <2>1
  <1>7. ASSUME NEW k \in 1..x PROVE ~t[k].first
    <2>1. k \in 1..Len(t) /\ k + 1 \in 1+1..1+x
      BY <1>2, <1>3, <1>5
    <2> QED
      BY <1>2, <1>4, <2>1
  <1> QED
    BY <1>5, <1>6, <1>7 DEF Rests, t, x

\* Once the message has been read to its end another one begins.
LEMMA RestsNone ==
    ASSUME NEW s \in Seq(Byte), NEW n \in 1..Len(s), Rests(s, n)
    PROVE  Rests(SubSeq(s, n + 1, Len(s)), 0)
  <1> DEFINE t == SubSeq(s, n + 1, Len(s))
  <1>1. t \in Seq(Byte) /\ Len(t) = Len(s) - n /\ \A i \in 1..Len(t) : t[i] = s[i + n]
    BY DropIs
  <1>2. Len(s) \in Nat /\ Len(t) \in Nat
    BY <1>1
  <1> HIDE DEF t
  <1>3. ASSUME 0 < Len(t) PROVE t[0 + 1].first
    <2>1. 1 \in 1..Len(t) /\ 0 + 1 = 1 /\ 1 + n = n + 1 /\ n < Len(s)
      BY <1>1, <1>2, <1>3
    <2>2. t[1] = s[n + 1]
      BY <1>1, <2>1
    <2> QED
      BY <2>1, <2>2 DEF Rests
  <1> QED
    BY <1>2, <1>3 DEF Rests, t

\* With no answer on its way it does not matter what is asked for.
LEMMA LaidSame ==
    ASSUME NEW s, NEW f, NEW a, NEW b, NEW next, Laid(s, f, a, next), Alike(s, 0, a, b)
    PROVE  Laid(s, f, b, next)
  <1>1. \A i \in 1..Len(s) : s[i].first => LaidAt(s, f, b, i)
    <2> SUFFICES ASSUME NEW i \in 1..Len(s), s[i].first PROVE LaidAt(s, f, b, i)
      OBVIOUS
    <2>1. LaidAt(s, f, a, i)
      BY DEF Laid
    <2>2. After(s[i], a) = After(s[i], b)
      BY DEF Alike
    <2> QED
      BY <2>1, <2>2 DEF LaidAt
  <1> QED
    BY <1>1 DEF Laid

\* In a stream without answers it does not matter which one is waited for.
LEMMA AnswersSame ==
    ASSUME NEW s, NEW a, NEW b, NEW n, NEW k, Answers(s, a, n), NoneIn(s)
    PROVE  Answers(s, b, k)
  BY DEF Answers, NoneIn, IsAnswer, Fits

\* Reading the first byte of a message keeps the invariant ...
LEMMA StatusStep == ProtocolInv /\ Calm /\ TypeOK' /\ RecvStatus => ProtocolInv'
  <1> SUFFICES ASSUME ProtocolInv, Calm, TypeOK', RecvStatus PROVE ProtocolInv'
    OBVIOUS
  <1> DEFINE byte == stream[1]
  <1>1. /\ stream \in Seq(Byte) /\ Len(stream) >= 1 /\ 1 \in 1..Len(stream) /\ byte = Head(stream)
        /\ stream' = SubSeq(stream, 1 + 1, Len(stream))
        /\ pc = "status" /\ UNCHANGED <<requests, nextEvent, asked, events, err, errno, upset>>
    BY TailIs DEF RecvStatus, Take, ProtocolInv, TypeOK
  <1>2. ~err /\ OneAnswer /\ Heads /\ InStep /\ EventsInOrder /\ AnswerIsOwn
    BY DEF ProtocolInv
  <1>3. Begun = 0 /\ byte.first
    BY <1>1, <1>2 DEF Begun, InStep, Rests
  <1>4. PICK f \in [1..Len(stream)+1 -> Number] : Laid(stream, f, asks, nextEvent) /\ InTurn(f[1])
    BY <1>2, <1>3 DEF InStep
  <1>5. LaidAt(stream, f, asks, 1) /\ Fits(byte, asks, asked) /\ Answers(stream, asks, asked)
    BY <1>1, <1>2, <1>3, <1>4 DEF Laid, OneAnswer, Answers
  <1>6. PICK g \in [1..Len(stream')+1 -> Number] :
           /\ Len(stream') = Len(stream) - 1 /\ Laid(stream', g, asks, nextEvent)
           /\ \A i \in 1..Len(stream')+1 : g[i] = f[i + 1]
    <2>1. Alike(stream, 1, asks, asks)
      BY DEF Alike
    <2> QED
      <3>1. /\ stream \in Seq(Byte) /\ f \in [1..Len(stream)+1 -> Number] /\ 1 \in 1..Len(stream)
            /\ Laid(stream, f, asks, nextEvent) /\ Alike(stream, 1, asks, asks)
        BY <1>1, <1>4, <2>1
      <3>2. Shifted(stream, 1, f, asks, nextEvent)
        BY ONLY <3>1, LaidDrop
      <3> QED
        BY <1>1, <3>2 DEF Shifted
  <1>7. Rests(stream', After(byte, asks))
    BY <1>1, <1>5, RestsDrop
  <1>8. Answers(stream', asks, asked) /\ ((\A i \in 1..Len(stream) : i > 1 => ~IsAnswer(stream[i])) => NoneIn(stream'))
    BY <1>1, <1>5, AnswersDrop
  <1>9. /\ After(byte, asks) + 1 \in 1..Len(stream')+1
        /\ g[After(byte, asks) + 1] = f[(1 + After(byte, asks)) + 1]
    <2>1. After(byte, asks) \in Nat /\ Len(stream') \in Nat /\ After(byte, asks) <= Len(stream')
      BY <1>1, <1>7, AfterIs DEF Rests, TypeOK
    <2> HIDE DEF byte
    <2>2. After(byte, asks) + 1 \in 1..Len(stream')+1 /\ (After(byte, asks) + 1) + 1 = (1 + After(byte, asks)) + 1
      BY <2>1
    <2> QED
      BY <1>6, <2>2
  <1>10. CASE byte.val \in HeadValues
    <2>1. pc' = "body" /\ head' = byte /\ UNCHANGED <<asks, ret>>
      BY <1>1, <1>10 DEF RecvStatus
    <2>2. byte.from[1] = "event" /\ IsEvent(byte) /\ byte.val \in EventHeads
      BY <1>3, <1>5, <1>10 DEF Fits, IsEvent
    <2> DEFINE rest == RestLen(byte.val)
    <2>3. After(byte, asks) = rest /\ Begun' = rest
      BY <2>1, <2>2 DEF After, Begun
    <2> HIDE DEF rest
    <2>4. byte.from[2] = f[1] /\ f[(1 + rest) + 1] = Follows(f[1])
      BY <1>5, <2>2, <2>3 DEF LaidAt
    <2>5. Heads'
      BY <1>1, <1>4, <2>1, <2>2, <2>4 DEF Heads, InTurn, IsEvent
    <2>6. InTurn(g[Begun + 1])'
      BY <1>9, <2>1, <2>3, <2>4 DEF InTurn
    <2>7. InStep'
      BY <1>1, <1>6, <1>7, <2>1, <2>3, <2>6 DEF InStep
    <2>8. Awaited' = Awaited /\ (NoneIn(stream) => NoneIn(stream'))
      BY <1>1, <1>8, <2>1 DEF Awaited, NoneIn
    <2>9. OneAnswer'
      BY <1>1, <1>2, <1>8, <2>1, <2>8 DEF OneAnswer
    <2>10. AnswerIsOwn' /\ EventsInOrder' /\ ~err'
      BY <1>1, <1>2, <2>1 DEF AnswerIsOwn, EventsInOrder
    <2> QED
      BY <2>5, <2>7, <2>9, <2>10 DEF ProtocolInv
  <1>11. CASE byte.val \notin HeadValues
    <2>1. byte.from = <<"answer", asked>> /\ byte.from[1] # "event" /\ IsAnswer(byte) /\ (asks = "make" => byte.val = "ok")
      BY <1>3, <1>5, <1>11 DEF Fits, IsAnswer, HeadValues
    <2>2. Awaited /\ requests = <<>> /\ NoneIn(stream') /\ asks \in {"make", "op"}
      <3>1. Awaited /\ requests = <<>>
        BY <1>1, <1>2, <2>1 DEF OneAnswer, NoneIn
      <3>2. \A i \in 1..Len(stream) : i > 1 => ~IsAnswer(stream[i])
        BY <1>1, <1>5, <2>1 DEF Answers
      <3>3. asks \in {"make", "op"}
        BY <3>1 DEF Awaited, ProtocolInv, TypeOK
      <3> QED
        BY <1>8, <3>1, <3>2, <3>3
    <2>3. f[(1 + After(byte, asks)) + 1] = f[1] /\ ~IsEvent(byte)
      BY <1>5, <2>1 DEF LaidAt, IsEvent
    <2>4. g[After(byte, asks) + 1] = f[1]
      BY <1>9, <2>3
    <2>5. CASE asks = "make"
      <3>1. pc' = "id" /\ head' = byte /\ UNCHANGED <<asks, ret>>
        BY <1>1, <1>11, <2>1, <2>5 DEF RecvStatus
      <3>2. After(byte, asks) = IdLen /\ Begun' = IdLen
        BY <2>1, <2>5, <3>1 DEF After, Begun
      <3>3. InTurn(g[Begun + 1])'
        BY <1>1, <1>4, <2>4, <3>1, <3>2 DEF InTurn
      <3>4. InStep'
        BY <1>1, <1>6, <1>7, <3>1, <3>2, <3>3 DEF InStep
      <3>5. Heads'
        BY <1>1, <1>3, <2>1, <2>5, <3>1 DEF Heads
      <3>6. OneAnswer'
        BY <1>1, <1>8, <2>2, <3>1 DEF OneAnswer
      <3>7. AnswerIsOwn' /\ EventsInOrder' /\ ~err'
        BY <1>1, <1>2, <3>1 DEF AnswerIsOwn, EventsInOrder
      <3> QED
        BY <3>4, <3>5, <3>6, <3>7 DEF ProtocolInv
    <2>6. CASE asks = "op"
      <3>1. pc' = "idle" /\ asks' = "op" /\ ret' = [for |-> asked, byte |-> byte]
        BY <1>1, <1>11, <2>6 DEF RecvStatus, Return, Done
      <3>2. After(byte, asks) = 0 /\ Begun' = 0
        BY <2>1, <2>6, <3>1 DEF After, Begun
      <3>3. InTurn(g[Begun + 1])'
        BY <1>1, <1>4, <2>4, <3>1, <3>2 DEF InTurn
      <3>4. InStep'
        BY <1>1, <1>6, <1>7, <2>6, <3>1, <3>2, <3>3 DEF InStep
      <3>5. Heads'
        BY <3>1 DEF Heads
      <3>6. OneAnswer'
        BY <1>1, <1>8, <2>2, <2>6, <3>1 DEF OneAnswer
      <3>7. AnswerIsOwn'
        BY <1>3, <2>1, <3>1 DEF AnswerIsOwn
      <3>8. EventsInOrder' /\ ~err'
        BY <1>1, <1>2 DEF EventsInOrder
      <3> QED
        BY <3>4, <3>5, <3>6, <3>7, <3>8 DEF ProtocolInv
    <2> QED
      BY <2>2, <2>5, <2>6
  <1> QED
    BY <1>10, <1>11

\* ... so does reading an event's ...
LEMMA BodyStep == ASSUME ProtocolInv, Calm, TypeOK', NEW n \in 1..MaxStream, RecvBody(n) PROVE ProtocolInv'
  <1> DEFINE rest == RestLen(head.val)
  <1>b. pc = "body" /\ Wanted = rest /\ head.val \in EventHeads /\ rest \in Nat /\ rest >= 1
    BY RestIs DEF RecvBody, Wanted, ProtocolInv, Heads
  <1> HIDE DEF rest
  <1>1. CASE n < rest \/ ~(Len(events) < Capacity)
    <2>1. upset' # "no"
      BY <1>1, <1>b DEF RecvBody, Noted, Fail
    <2> QED
      BY <2>1, NoLongerCalm
  <1>2. CASE ~(n < rest) /\ Len(events) < Capacity
    <2>1. n = rest /\ rest \in Nat /\ rest >= 1
      BY <1>2, <1>b DEF RecvBody, Take
    <2>2. /\ stream \in Seq(Byte) /\ rest \in 1..Len(stream)
          /\ stream' = SubSeq(stream, rest + 1, Len(stream))
          /\ pc = "body" /\ UNCHANGED <<requests, nextEvent, asked, err, errno, upset, ret>>
          /\ events' = Append(events, head) /\ AfterEvent
      BY <1>2, <1>b, <2>1 DEF RecvBody, Take, Noted, ProtocolInv, TypeOK
    <2>3. ~err /\ OneAnswer /\ Heads /\ InStep /\ EventsInOrder /\ AnswerIsOwn /\ asks \in {"make", "op", "event"}
          /\ events \in Seq(Byte) /\ head \in Byte
      BY DEF ProtocolInv, TypeOK
    <2>4. Begun = rest
      BY <2>2 DEF Begun, rest
    <2>5. PICK f \in [1..Len(stream)+1 -> Number] :
             Laid(stream, f, asks, nextEvent) /\ f[rest + 1] = Follows(head.from[2])
      BY <2>2, <2>3, <2>4 DEF InStep, InTurn
    <2>6. \/ pc' = "idle" /\ asks = "event" /\ asks' = "op"
          \/ pc' = "status" /\ asks # "event" /\ asks' = asks
      BY <2>2 DEF AfterEvent, Done
    <2>7. NoneIn(stream) \/ asks' = asks
      BY <2>3, <2>6 DEF OneAnswer, Awaited
    <2>8. Alike(stream, rest, asks, asks')
      BY <2>6 DEF Alike, After
    <2>9. PICK g \in [1..Len(stream')+1 -> Number] :
             /\ Len(stream') = Len(stream) - rest /\ Laid(stream', g, asks', nextEvent)
             /\ \A i \in 1..Len(stream')+1 : g[i] = f[i + rest]
      <3>1. /\ stream \in Seq(Byte) /\ f \in [1..Len(stream)+1 -> Number] /\ rest \in 1..Len(stream)
            /\ Laid(stream, f, asks, nextEvent) /\ Alike(stream, rest, asks, asks')
        BY <2>2, <2>5, <2>8
      <3>2. Shifted(stream, rest, f, asks', nextEvent)
        BY ONLY <3>1, LaidDrop
      <3> QED
        BY <2>2, <3>2 DEF Shifted
    <2>10. Rests(stream', 0) /\ Begun' = 0
      BY <2>2, <2>3, <2>4, <2>6, RestsNone DEF InStep, Begun
    <2>11. g[0 + 1] = Follows(head.from[2])
      <3>1. 0 + 1 \in 1..Len(stream')+1 /\ (0 + 1) + rest = rest + 1
        BY <2>1, <2>2, <2>9
      <3> QED
        BY <2>5, <2>9, <3>1
    <2>12. /\ events' \in Seq(Byte) /\ Len(events') = Len(events) + 1 /\ Len(events) \in Nat
           /\ events'[Len(events')] = head
           /\ \A i \in 1..Len(events) : events'[i] = events[i]
      BY <2>2, <2>3
    <2>13. InTurn(g[Begun + 1])'
      BY <2>6, <2>10, <2>11, <2>12 DEF InTurn
    <2>14. InStep'
      BY <2>2, <2>9, <2>10, <2>13 DEF InStep
    <2>15. Heads'
      BY <2>3, <2>6 DEF Heads
    <2>16. OneAnswer'
      <3>1. /\ Answers(stream', asks', asked)
            /\ (\A i \in 1..Len(stream) : i > rest => ~IsAnswer(stream[i])) => NoneIn(stream')
        BY <2>2, <2>3, <2>7, AnswersDrop DEF OneAnswer, NoneIn
      <3>2. NoneIn(stream) => NoneIn(stream')
        BY <3>1 DEF NoneIn
      <3>3. Awaited => Awaited' /\ asks' = asks
        BY <2>6 DEF Awaited
      <3> QED
        BY <2>2, <2>3, <3>1, <3>2, <3>3 DEF OneAnswer
    <2>17. EventsInOrder'
      <3>1. IsEvent(head) /\ (events # <<>> => head.from[2] = Follows(events[Len(events)].from[2]))
        BY <2>2, <2>3 DEF Heads
      <3>2. \A i \in DOMAIN events' : events'[i].first /\ events'[i].from[1] = "event"
        <4> SUFFICES ASSUME NEW i \in DOMAIN events' PROVE events'[i].first /\ events'[i].from[1] = "event"
          OBVIOUS
        <4>1. i \in 1..Len(events) \/ i = Len(events')
          BY <2>12
        <4>2. \A j \in 1..Len(events) : events[j].first /\ events[j].from[1] = "event"
          BY <2>3 DEF EventsInOrder, Calm
        <4> QED
          BY <2>12, <3>1, <4>1, <4>2 DEF IsEvent
      <3>3. ASSUME NEW i \in 1..(Len(events') - 1)
            PROVE  events'[i + 1].from[2] = (events'[i].from[2] + 1) % EventNumbers
        <4>1. i \in 1..Len(events) /\ events'[i] = events[i]
          BY <2>12
        <4>2. CASE i = Len(events)
          <5>1. events # <<>> /\ events'[i + 1] = head
            BY <2>12, <4>1, <4>2
          <5> QED
            BY <3>1, <4>1, <4>2, <5>1 DEF Follows
        <4>3. CASE i # Len(events)
          <5>1. i \in 1..(Len(events) - 1) /\ i + 1 \in 1..Len(events)
            BY <2>12, <4>1, <4>3
          <5> QED
            BY <2>3, <2>12, <4>1, <5>1 DEF EventsInOrder, Calm
        <4> QED
          BY <4>2, <4>3
      <3> QED
        BY <3>2, <3>3 DEF EventsInOrder
    <2>18. AnswerIsOwn' /\ ~err'
      BY <2>2, <2>3 DEF AnswerIsOwn
    <2> QED
      BY <2>14, <2>15, <2>16, <2>17, <2>18 DEF ProtocolInv
  <1> QED
    BY <1>1, <1>2

\* ... and an answer's id ...
LEMMA IdStep == ASSUME ProtocolInv, Calm, TypeOK', NEW n \in 1..MaxStream, RecvId(n) PROVE ProtocolInv'
  <1>1. CASE n < IdLen
    <2>1. upset' # "no"
      BY <1>1 DEF RecvId, Noted
    <2> QED
      BY <2>1, NoLongerCalm
  <1>2. CASE ~(n < IdLen)
    <2>1. n = IdLen /\ IdLen \in Nat /\ IdLen >= 1
      BY <1>2, ProtocolAssumption DEF RecvId, Take
    <2>2. /\ stream \in Seq(Byte) /\ IdLen \in 1..Len(stream)
          /\ stream' = SubSeq(stream, IdLen + 1, Len(stream))
          /\ pc = "id" /\ UNCHANGED <<requests, nextEvent, asked, events, err, errno>>
          /\ pc' = "idle" /\ asks' = "op" /\ ret' = [for |-> asked, byte |-> head]
      BY <1>2, <2>1 DEF RecvId, Take, Return, Done, ProtocolInv, TypeOK
    <2>3. ~err /\ OneAnswer /\ Heads /\ InStep /\ EventsInOrder /\ Calm
      BY DEF ProtocolInv
    <2>4. Begun = IdLen /\ ~Awaited
      BY <2>2 DEF Begun, Awaited
    <2>5. PICK f \in [1..Len(stream)+1 -> Number] : Laid(stream, f, asks, nextEvent) /\ InTurn(f[IdLen + 1])
      BY <2>3, <2>4 DEF InStep
    <2>6. NoneIn(stream) /\ requests = <<>>
      BY <2>3, <2>4 DEF OneAnswer
    <2>7. Alike(stream, IdLen, asks, "op")
      BY <2>6 DEF Alike, After, NoneIn, IsAnswer
    <2>8. PICK g \in [1..Len(stream')+1 -> Number] :
             /\ Len(stream') = Len(stream) - IdLen /\ Laid(stream', g, "op", nextEvent)
             /\ \A i \in 1..Len(stream')+1 : g[i] = f[i + IdLen]
      <3>1. /\ stream \in Seq(Byte) /\ f \in [1..Len(stream)+1 -> Number] /\ IdLen \in 1..Len(stream)
            /\ Laid(stream, f, asks, nextEvent) /\ Alike(stream, IdLen, asks, "op")
        BY <2>2, <2>5, <2>7
      <3>2. Shifted(stream, IdLen, f, "op", nextEvent)
        BY ONLY <3>1, LaidDrop
      <3> QED
        BY <2>2, <3>2 DEF Shifted
    <2>9. Rests(stream', 0) /\ Begun' = 0
      BY <2>2, <2>3, <2>4, RestsNone DEF InStep, Begun
    <2>10. g[0 + 1] = f[IdLen + 1]
      <3>1. 0 + 1 \in 1..Len(stream')+1 /\ (0 + 1) + IdLen = IdLen + 1
        BY <2>1, <2>2, <2>8
      <3> QED
        BY <2>8, <3>1
    <2>11. InTurn(g[Begun + 1])'
      BY <2>2, <2>5, <2>9, <2>10 DEF InTurn
    <2>12. InStep'
      BY <2>2, <2>8, <2>9, <2>11 DEF InStep
    <2>13. Heads'
      BY <2>2 DEF Heads
    <2>14. OneAnswer'
      <3>1. /\ Answers(stream', "op", asked)
            /\ (\A i \in 1..Len(stream) : i > IdLen => ~IsAnswer(stream[i])) => NoneIn(stream')
        BY <2>2, <2>3, <2>6, AnswersDrop DEF OneAnswer, NoneIn
      <3>2. NoneIn(stream')
        BY <2>6, <3>1 DEF NoneIn
      <3> QED
        BY <2>2, <2>6, <3>1, <3>2 DEF OneAnswer
    <2>15. AnswerIsOwn'
      BY <2>2, <2>3 DEF AnswerIsOwn, Heads
    <2>16. EventsInOrder' /\ ~err'
      BY <2>2, <2>3 DEF EventsInOrder, Calm
    <2> QED
      BY <2>12, <2>13, <2>14, <2>15, <2>16 DEF ProtocolInv
  <1> QED
    BY <1>1, <1>2

\* A call begins: nothing is on its way but events, and they are read as before.
LEMMA CallStep ==
    ASSUME ProtocolInv, Calm, TypeOK', NEW kind \in {"make", "op", "event"},
           pc = "idle", asks' = kind, ret' = NoAnswer,
           UNCHANGED <<requests, stream, nextEvent, head, events, err, errno, upset>>,
           \/ kind = "event" /\ pc' = "status" /\ UNCHANGED asked
           \/ kind # "event" /\ pc' = "send" /\ asked' = asked + 1
    PROVE  ProtocolInv'
  <1>1. ~err /\ OneAnswer /\ Heads /\ InStep /\ EventsInOrder
    BY DEF ProtocolInv
  <1>2. Begun = 0 /\ Begun' = 0 /\ ~Awaited
    BY DEF Begun, Awaited
  <1>3. NoneIn(stream) /\ requests = <<>> /\ Answers(stream, asks, asked)
    BY <1>1, <1>2 DEF OneAnswer
  <1>4. PICK f \in [1..Len(stream)+1 -> Number] : Laid(stream, f, asks, nextEvent) /\ InTurn(f[0 + 1])
    BY <1>1, <1>2 DEF InStep
  <1>5. Laid(stream, f, kind, nextEvent) /\ Answers(stream, kind, asked')
    <2>1. Alike(stream, 0, asks, kind)
      BY <1>3 DEF Alike, After, NoneIn, IsAnswer
    <2>2. Laid(stream, f, kind, nextEvent)
      BY <1>4, <2>1, LaidSame
    <2>3. Answers(stream, kind, asked')
      BY <1>3, AnswersSame
    <2> QED
      BY <2>2, <2>3
  <1>6. InTurn(f[Begun + 1])'
    BY <1>2, <1>4 DEF InTurn
  <1>7. InStep'
    BY <1>1, <1>2, <1>5, <1>6 DEF InStep
  <1>8. Heads'
    BY DEF Heads
  <1>9. OneAnswer'
    <2>1. NoneIn(stream)' /\ Answers(stream, asks, asked)' /\ requests' = <<>>
      BY <1>3, <1>5
    <2> QED
      BY <2>1 DEF OneAnswer
  <1>10. AnswerIsOwn' /\ EventsInOrder' /\ ~err'
    BY <1>1 DEF AnswerIsOwn, EventsInOrder, NoAnswer, Calm
  <1> QED
    BY <1>7, <1>8, <1>9, <1>10 DEF ProtocolInv

\* ... the request goes out ...
LEMMA RequestStep == ProtocolInv /\ Calm /\ TypeOK' /\ SendRequest => ProtocolInv'
  <1> SUFFICES ASSUME ProtocolInv, Calm, TypeOK', SendRequest PROVE ProtocolInv'
    OBVIOUS
  <1>1. ~err /\ OneAnswer /\ Heads /\ InStep /\ EventsInOrder /\ AnswerIsOwn /\ asks # "event"
    BY DEF ProtocolInv, SendRequest, TypeOK
  <1>2. /\ pc = "send" /\ pc' = "status" /\ requests' = Append(requests, [asks |-> asks, n |-> asked])
        /\ UNCHANGED <<stream, nextEvent, asked, asks, head, events, err, errno, ret, upset>>
    BY <1>1 DEF SendRequest
  <1>3. Begun = 0 /\ Begun' = 0 /\ ~Awaited /\ Awaited'
    BY <1>1, <1>2 DEF Begun, Awaited
  <1>4. NoneIn(stream) /\ requests = <<>> /\ Answers(stream, asks, asked)
    BY <1>1, <1>3 DEF OneAnswer
  <1>5. requests' = <<[asks |-> asks', n |-> asked']>>
    BY <1>2, <1>4
  <1>6. OneAnswer'
    BY <1>2, <1>3, <1>4, <1>5 DEF OneAnswer
  <1>7. InStep'
    BY <1>1, <1>2, <1>3 DEF InStep, InTurn
  <1>8. Heads' /\ AnswerIsOwn' /\ EventsInOrder' /\ ~err'
    BY <1>1, <1>2 DEF Heads, AnswerIsOwn, EventsInOrder
  <1> QED
    BY <1>6, <1>7, <1>8 DEF ProtocolInv

\* ... and taking an event that was kept,
LEMMA PopStep == ProtocolInv /\ Calm /\ TypeOK' /\ PopEvent => ProtocolInv'
  <1> SUFFICES ASSUME ProtocolInv, Calm, TypeOK', PopEvent PROVE ProtocolInv'
    OBVIOUS
  <1>1. /\ pc = "idle" /\ events # <<>> /\ events' = Tail(events)
        /\ UNCHANGED <<requests, stream, nextEvent, asked, pc, asks, head, err, errno, ret, upset>>
    BY DEF PopEvent, serverVars
  <1>2. ~err /\ OneAnswer /\ Heads /\ InStep /\ EventsInOrder /\ AnswerIsOwn /\ events \in Seq(Byte)
    BY DEF ProtocolInv, TypeOK
  <1>3. /\ events' \in Seq(Byte) /\ Len(events') = Len(events) - 1 /\ Len(events) \in Nat /\ Len(events) >= 1
        /\ \A i \in 1..Len(events') : events'[i] = events[i + 1]
    BY <1>1, <1>2, TailIs
  <1>4. PICK f \in [1..Len(stream)+1 -> Number] : Laid(stream, f, asks, nextEvent) /\ InTurn(f[Begun + 1])
    BY <1>2 DEF InStep
  <1>5. Begun' = Begun
    BY <1>1 DEF Begun
  <1>6. events' # <<>> => events'[Len(events')] = events[Len(events)]
    <2> SUFFICES ASSUME events' # <<>> PROVE events'[Len(events')] = events[Len(events)]
      OBVIOUS
    <2>1. Len(events') \in 1..Len(events') /\ Len(events') + 1 = Len(events)
      BY <1>3
    <2> QED
      BY <1>3, <2>1
  <1>7. InTurn(f[Begun + 1])'
    BY <1>1, <1>4, <1>5, <1>6 DEF InTurn
  <1>8. InStep'
    BY <1>1, <1>2, <1>4, <1>5, <1>7 DEF InStep
  <1>9. OneAnswer' /\ Heads' /\ AnswerIsOwn' /\ ~err'
    BY <1>1, <1>2 DEF OneAnswer, Awaited, Heads, AnswerIsOwn
  <1>10. EventsInOrder'
    <2>1. /\ \A i \in 1..Len(events) : events[i].first /\ events[i].from[1] = "event"
          /\ \A i \in 1..(Len(events) - 1) : events[i + 1].from[2] = (events[i].from[2] + 1) % EventNumbers
      BY <1>2 DEF EventsInOrder, Calm
    <2>2. \A i \in 1..Len(events') : events'[i].first /\ events'[i].from[1] = "event"
      <3> SUFFICES ASSUME NEW i \in 1..Len(events') PROVE events'[i].first /\ events'[i].from[1] = "event"
        OBVIOUS
      <3>1. i + 1 \in 1..Len(events)
        BY <1>3
      <3> QED
        BY <1>3, <2>1, <3>1
    <2>3. ASSUME NEW i \in 1..(Len(events') - 1)
          PROVE  events'[i + 1].from[2] = (events'[i].from[2] + 1) % EventNumbers
      <3>1. i + 1 \in 1..(Len(events) - 1) /\ i + 1 \in 1..Len(events') /\ i \in 1..Len(events')
        BY <1>3
      <3> QED
        BY <1>3, <2>1, <3>1
    <2>4. DOMAIN events' = 1..Len(events')
      BY <1>3
    <2> QED
      BY <2>2, <2>3, <2>4 DEF EventsInOrder
  <1> QED
    BY <1>8, <1>9, <1>10 DEF ProtocolInv

-----------------------------------------------------------------------------
(* The theorems *)

\* so every step does.
LEMMA ProtocolStep == ProtocolInv /\ [Next]_vars => ProtocolInv'
  <1> SUFFICES ASSUME ProtocolInv, [Next]_vars PROVE ProtocolInv'
    OBVIOUS
  <1>1. TypeOK'
    BY TypeStep DEF ProtocolInv
  <1>2. CASE ~Calm
    <2>1. upset' # "no"
      BY <1>2 DEF Next, Server, Library, Program, AnswerOp, AnswerMade, SendEvent, AnswerNotMade,
                  Failure, SendRequest, SendFails, ReadsOutsideTable, ReadsLost, Lost, RecvStatus, RecvTimeout, RecvFails, RecvBody, RecvId, RecvStaleErrno, Request, RecvEvent,
                  RecvEventInError, PopEvent, ClearErr, Fail, Noted, Return, vars, serverVars, clientVars, Calm
    <2> QED
      BY <1>1, <2>1, NoLongerCalm
  <1>3. CASE Calm
    <2>e. ~err
      BY <1>3 DEF ProtocolInv
    <2>1. CASE Server
      <3>t. /\ requests # <<>> => Head(requests).asks \in {"make", "op"}
                                  /\ <<"answer", Head(requests).n>> \in {"answer"} \X (1..MaxRequests)
            /\ <<"event", nextEvent>> \in {"event"} \X (0..(EventNumbers - 1))
        <4> DEFINE R == [asks : {"make", "op"}, n : 1..MaxRequests]
        <4>1. requests \in Seq(R) /\ nextEvent \in 0..(EventNumbers - 1)
          BY DEF ProtocolInv, TypeOK
        <4>2. \A r \in R : r.n \in 1..MaxRequests /\ r.asks \in {"make", "op"}
          OBVIOUS
        <4> HIDE DEF R
        <4>3. requests # <<>> => Head(requests) \in R
          BY <4>1, TailIs
        <4>4. requests # <<>> => Head(requests).n \in 1..MaxRequests /\ Head(requests).asks \in {"make", "op"}
          BY <4>2, <4>3
        <4> QED
          BY <4>1, <4>4
      <3>l. IdLen \in Nat
        BY ProtocolAssumption
      <3>1. ASSUME NEW val \in {"ok", "fail"}, AnswerOp(val) PROVE ProtocolInv'
        <4> DEFINE m == Message(<<"answer", Head(requests).n>>, val, <<>>)
        <4>1. <<>> \in Seq(Values) /\ val \in Values /\ requests # <<>> /\ Len(<<>>) = 0 /\ val \notin HeadValues
          BY <3>1 DEF AnswerOp, Values, HeadValues, EventHeads
        <4>2. IsMessage(m, <<"answer", Head(requests).n>>, val, 0)
          BY <3>t, <4>1, MessageIs
        <4>3. stream' = stream \o m /\ requests' = Tail(requests) /\ UNCHANGED <<nextEvent, clientVars>>
              /\ Head(requests).asks = "op"
          BY <3>1 DEF AnswerOp, Send
        <4> HIDE DEF m
        <4>4. m[1].first /\ m[1].from = <<"answer", Head(requests).n>> /\ m[1].val \notin HeadValues /\ Len(m) >= 1 /\ m \in Seq(Byte)
              /\ (\A i \in 2..Len(m) : ~m[i].first) /\ Len(m) = 1
          BY <4>1, <4>2 DEF IsMessage
        <4> QED
          BY <1>1, <1>3, <4>1, <4>2, <4>3, <4>4, SendStep
      <3>2. ASSUME NEW low \in Lows, AnswerMade(low) PROVE ProtocolInv'
        <4> DEFINE m == Message(<<"answer", Head(requests).n>>, "ok", AnswerId(low))
        <4>1. requests # <<>> /\ Head(requests).asks = "make"
          BY <3>2 DEF AnswerMade
        <4>5. low \in Values /\ "ok" \in Values
          BY LowsAre DEF Values
        <4>6. AnswerId(low) \in Seq(Values) /\ Len(AnswerId(low)) = IdLen
          BY <4>5, IdsAre
        <4>2. IsMessage(m, <<"answer", Head(requests).n>>, "ok", IdLen)
          BY <3>t, <4>1, <4>5, <4>6, MessageIs
        <4>3. stream' = stream \o m /\ requests' = Tail(requests) /\ UNCHANGED <<nextEvent, clientVars>>
          BY <3>2 DEF AnswerMade, Send
        <4> HIDE DEF m
        <4>4. m[1].first /\ m[1].from = <<"answer", Head(requests).n>> /\ m[1].val = "ok" /\ Len(m) >= 1 /\ m \in Seq(Byte)
              /\ (\A i \in 2..Len(m) : ~m[i].first) /\ Len(m) = 1 + IdLen
          BY <3>l, <4>2 DEF IsMessage
        <4> QED
          BY <1>1, <1>3, <4>1, <4>2, <4>3, <4>4, SendStep
      <3>3. ASSUME NEW low \in Lows, NEW val \in EventHeads, SendEvent(val, low) PROVE ProtocolInv'
        <4> DEFINE m == Message(<<"event", nextEvent>>, val, EventRest(val, low))
        <4>5. low \in Values /\ val \in Values
          BY LowsAre
        <4>6. EventRest(val, low) \in Seq(Values) /\ Len(EventRest(val, low)) = RestLen(val) /\ RestLen(val) \in Nat
          BY <4>5, IdsAre, RestIs
        <4>2. IsMessage(m, <<"event", nextEvent>>, val, RestLen(val))
          BY <3>t, <4>5, <4>6, MessageIs
        <4>3. stream' = stream \o m /\ requests' = requests /\ nextEvent' = Follows(nextEvent) /\ UNCHANGED clientVars
          BY <3>3 DEF SendEvent, Send, Follows
        <4> HIDE DEF m
        <4>4. m[1].first /\ m[1].from = <<"event", nextEvent>> /\ m[1].val = val /\ Len(m) >= 1 /\ m \in Seq(Byte)
              /\ (\A i \in 2..Len(m) : ~m[i].first) /\ Len(m) = 1 + RestLen(val)
          BY <4>2, <4>6 DEF IsMessage
        <4> QED
          BY <1>1, <1>3, <4>2, <4>3, <4>4, SendStep
      <3>4. CASE AnswerNotMade
        <4>1. upset' # "no"
          BY <3>4 DEF AnswerNotMade
        <4> QED
          BY <1>1, <4>1, NoLongerCalm
      <3> QED
        BY <2>1, <3>1, <3>2, <3>3, <3>4 DEF Server
    <2>2. CASE RecvStatus
      BY <1>1, <1>3, <2>2, StatusStep
    <2>3. ASSUME NEW n \in 1..MaxStream, RecvBody(n) PROVE ProtocolInv'
      BY <1>1, <1>3, <2>3, BodyStep
    <2>4. ASSUME NEW n \in 1..MaxStream, RecvId(n) PROVE ProtocolInv'
      BY <1>1, <1>3, <2>4, IdStep
    <2>5. CASE RecvTimeout \/ RecvFails \/ \E n \in 1..MaxStream : RecvStaleErrno(n)
      <3>1. upset' # "no"
        BY <2>5 DEF RecvTimeout, RecvFails, RecvStaleErrno, Fail
      <3> QED
        BY <1>1, <3>1, NoLongerCalm
    <2>6. ASSUME NEW kind \in {"make", "op"}, Request(kind) PROVE ProtocolInv'
      BY <1>1, <1>3, <2>6, CallStep DEF Request, serverVars
    <2>7. CASE RecvEvent
      BY <1>1, <1>3, <2>7, CallStep DEF RecvEvent, serverVars
    <2>8. CASE RecvEventInError \/ ClearErr
      BY <2>e, <2>8 DEF RecvEventInError, ClearErr
    <2>9. CASE PopEvent
      BY <1>1, <1>3, <2>9, PopStep
    <2>10. CASE UNCHANGED vars
      BY <1>1, <2>10 DEF ProtocolInv, AnswerIsOwn, EventsInOrder, Calm, OneAnswer, Awaited, Heads, InStep, Begun,
                         InTurn, IsEvent, vars, serverVars, clientVars
    <2>11. CASE SendRequest
      BY <1>1, <1>3, <2>11, RequestStep
    <2>12. CASE SendFails
      <3>1. upset' # "no"
        BY <2>12 DEF SendFails, Fail
      <3> QED
        BY <1>1, <3>1, NoLongerCalm
    <2>13. CASE ReadsOutsideTable \/ \E n \in 1..MaxStream : ReadsLost(n)
      BY <1>3, <2>13 DEF ReadsOutsideTable, ReadsLost, ProtocolInv, Heads, EventHeads
    <2> QED
      BY <2>1, <2>2, <2>3, <2>4, <2>5, <2>6, <2>7, <2>8, <2>9, <2>10, <2>11, <2>12, <2>13
      DEF Next, Library, Program, Failure
  <1> QED
    BY <1>2, <1>3

\* Nothing is on its way at the beginning.
LEMMA ProtocolStart == Init => ProtocolInv
  <1> SUFFICES ASSUME Init PROVE ProtocolInv
    OBVIOUS
  <1> USE ProtocolAssumption
  <1>1. TypeOK
    <2>1. NoByte \in Byte
      BY DEF NoByte, Byte, Values
    <2>2. NoAnswer \in [for : 0..MaxRequests, byte : Byte]
      BY <2>1 DEF NoAnswer
    <2> QED
      <3>1. /\ requests \in Seq([asks : {"make", "op"}, n : 1..MaxRequests])
            /\ stream \in Seq(Byte) /\ events \in Seq(Byte) /\ Len(stream) = 0 /\ Len(events) = 0
        BY DEF Init
      <3>2. nextEvent \in 0..(EventNumbers - 1) /\ asked \in 0..MaxRequests
        BY DEF Init
      <3>3. head \in Byte /\ ret \in [for : 0..MaxRequests, byte : Byte]
        BY <2>1, <2>2 DEF Init
      <3> QED
        <4>1. Len(stream) <= MaxStream /\ Len(events) <= Capacity
          BY <3>1
        <4>2. pc = "idle" /\ asks = "op" /\ err = FALSE /\ errno = FALSE /\ upset = "no"
          BY DEF Init
        <4> QED
          BY <3>1, <3>2, <3>3, <4>1, <4>2 DEF TypeOK
  <1>2. AnswerIsOwn /\ EventsInOrder /\ ~err
    BY <1>1 DEF Init, AnswerIsOwn, EventsInOrder, NoAnswer
  <1>3. Len(stream) = 0 /\ Begun = 0
    BY DEF Init, Begun
  <1>4. OneAnswer /\ Heads
    BY <1>3 DEF Init, OneAnswer, Heads, Answers, NoneIn
  <1>5. InStep
    <2> DEFINE f == [i \in 1..Len(stream)+1 |-> 0]
    <2>1. 0 \in Number
      BY DEF Number
    <2>2. f \in [1..Len(stream)+1 -> Number] /\ f[Len(stream) + 1] = nextEvent
      BY <1>3, <2>1 DEF Init
    <2>3. Laid(stream, f, asks, nextEvent)
      BY <1>3, <2>2 DEF Laid
    <2>4. InTurn(f[Begun + 1]) /\ Rests(stream, Begun)
      BY <1>3 DEF Init, InTurn, Rests
    <2> QED
      BY <2>2, <2>3, <2>4 DEF InStep
  <1> QED
    BY <1>1, <1>2, <1>4, <1>5 DEF ProtocolInv

\* While no call has failed, no read has come short and no make request has been
\* refused, an answer that a call returns is the answer to that call (recv_status,
\* recv_status_id), for any mix of answers and events and any length of ids.
THEOREM AnswerIsAlwaysOwn == Spec => []AnswerIsOwn
  <1>1. ProtocolInv => AnswerIsOwn
    BY DEF ProtocolInv
  <1> QED
    BY ProtocolStart, ProtocolStep, <1>1, PTL DEF Spec

\* Under the same conditions the library holds the server's events in the order
\* they were sent, with none missing between them (process_event).
THEOREM EventsStayInOrder == Spec => []EventsInOrder
  <1>1. ProtocolInv => EventsInOrder
    BY DEF ProtocolInv
  <1> QED
    BY ProtocolStart, ProtocolStep, <1>1, PTL DEF Spec

\* Under the same conditions no length outside of event_lens is used, and no call
\* waits in send(): its request is the only one on the way to the server
\* (process_event, send_from).
THEOREM NeverGoesAstray == Spec => []NeverAstray
  <1>1. ProtocolInv => NeverAstray
    <2> SUFFICES ASSUME ProtocolInv, Calm
                 PROVE  pc # "lost" /\ ~(pc = "body" /\ head.val = "wild") /\ ~SendBlocked
      BY DEF NeverAstray, Calm
    <2>1. Heads /\ OneAnswer
      BY DEF ProtocolInv
    <2>2. pc = "send" => Len(requests) = 0
      BY <2>1 DEF OneAnswer, Awaited
    <2> QED
      BY <2>1, <2>2, ProtocolAssumption DEF Heads, EventHeads, SendBlocked
  <1> QED
    BY ProtocolStart, ProtocolStep, <1>1, PTL DEF Spec

-----------------------------------------------------------------------------
(* EventRing: the indices *)

\* ae_init() is given a buffer for at least one event.
LEMMA EvbufLenIs == EvbufLen \in Nat \ {0}
  BY EvbufAssumption

\* Up to its length, an index wraps just at the end of the buffer.
LEMMA ModWraps ==
    ASSUME NEW k \in 1..EvbufLen
    PROVE  k % EvbufLen = IF k = EvbufLen THEN 0 ELSE k
  BY EvbufLenIs

\* Where the next event goes, without the remainder.
LEMMA NextSlotIs ==
    ASSUME RingTypeOK
    PROVE  /\ NextSlot \in Slot
           /\ first_ev = NoSlot => NextSlot = 0
           /\ first_ev # NoSlot => NextSlot = IF last_ev = EvbufLen - 1 THEN 0 ELSE last_ev + 1
  <1>1. CASE first_ev = NoSlot
    BY <1>1, EvbufLenIs DEF RingTypeOK, NextSlot, Slot, NoSlot
  <1>2. CASE first_ev # NoSlot
    <2>1. last_ev \in Slot /\ last_ev + 1 \in 1..EvbufLen
      BY <1>2, EvbufLenIs DEF RingTypeOK, Slot, NoSlot
    <2> QED
      BY <1>2, <2>1, ModWraps, EvbufLenIs DEF NextSlot, Slot, NoSlot
  <1> QED
    BY <1>1, <1>2

\* The ring counts as full when all its slots hold events.
LEMMA IsFullIs ==
    ASSUME RingTypeOK
    PROVE  IsFull <=> Count = EvbufLen
  <1>1. CASE first_ev = NoSlot
    <2>1. 0 % EvbufLen = 0
      BY EvbufLenIs
    <2> QED
      BY <1>1, <2>1, EvbufLenIs DEF RingTypeOK, IsFull, Count, NoSlot
  <1>2. CASE first_ev # NoSlot
    <2>1. first_ev \in Slot /\ last_ev \in Slot /\ last_ev + 1 \in 1..EvbufLen
      BY <1>2, EvbufLenIs DEF RingTypeOK, Slot, NoSlot
    <2> QED
      BY <1>2, <2>1, ModWraps, EvbufLenIs DEF IsFull, Count, Slot
  <1> QED
    BY <1>1, <1>2

\* Every step keeps the indices in the buffer.
LEMMA RingTypeStep == RingTypeOK /\ [RingNext]_ringVars => RingTypeOK'
  <1> SUFFICES ASSUME RingTypeOK, [RingNext]_ringVars PROVE RingTypeOK'
    OBVIOUS
  <1>1. ASSUME NEW e \in Event, ProcessEvent(e) PROVE RingTypeOK'
    <2>1. CASE IsFull
      BY <1>1, <2>1 DEF ProcessEvent, RingTypeOK
    <2>2. CASE ~IsFull
      <3>1. /\ first_ev' = IF first_ev = NoSlot /\ last_ev = NoSlot THEN 0 ELSE first_ev
            /\ last_ev' = NextSlot
            /\ evbuf' = [evbuf EXCEPT ![NextSlot] = e]
            /\ evbuf_full' = evbuf_full
        BY <1>1, <2>2 DEF ProcessEvent
      <3>2. last_ev' \in Slot /\ evbuf' \in [Slot -> Event] /\ evbuf_full' \in BOOLEAN
        BY <3>1, NextSlotIs DEF RingTypeOK
      <3>3. first_ev' \in Slot
        BY <3>1, EvbufLenIs DEF RingTypeOK, Slot, NoSlot
      <3> QED
        BY <3>2, <3>3 DEF RingTypeOK, Slot, NoSlot
    <2> QED
      BY <2>1, <2>2
  <1>2. CASE Pop
    BY <1>2, EvbufLenIs DEF Pop, RingTypeOK, Slot, NoSlot
  <1>3. CASE ClearFull
    BY <1>3 DEF ClearFull, RingTypeOK
  <1>4. CASE UNCHANGED ringVars
    BY <1>4 DEF ringVars, RingTypeOK
  <1> QED
    BY <1>1, <1>2, <1>3, <1>4 DEF RingNext

\* Both indices stay in the array, or are both -1.
THEOREM RingTypeCorrect == RingSpec => []RingTypeOK
  <1>1. RingInit => RingTypeOK
    BY EvbufLenIs DEF RingInit, RingTypeOK, Slot, NoSlot
  <1> QED
    BY <1>1, RingTypeStep, PTL DEF RingSpec

-----------------------------------------------------------------------------
(* EventRing: the contents as a sequence *)

\* The events held are no more than the slots, and all of them in slots.
LEMMA CountRange ==
    ASSUME RingTypeOK
    PROVE  /\ Count \in 0..EvbufLen
           /\ Count = 0 <=> first_ev = NoSlot
           /\ \A i \in 1..Count : SlotAt(i) \in Slot
  BY EvbufLenIs DEF RingTypeOK, Count, SlotAt, Slot, NoSlot

\* What the ring holds is a sequence of events.
LEMMA ContentsSeq ==
    ASSUME RingTypeOK
    PROVE  Contents \in Seq(Event) /\ Len(Contents) = Count
  <1>1. Count \in Nat /\ \A i \in 1..Count : evbuf[SlotAt(i)] \in Event
    BY CountRange DEF RingTypeOK
  <1> QED
    BY <1>1 DEF Contents

\* Storing an event appends it to the contents.
LEMMA PutAppends ==
    ASSUME RingTypeOK, RingTypeOK', NEW e \in Event, ProcessEvent(e), ~IsFull
    PROVE  Contents' = Append(Contents, e)
  <1>1. Count < EvbufLen
    BY IsFullIs, CountRange, EvbufLenIs
  <1>a. /\ first_ev' = IF first_ev = NoSlot /\ last_ev = NoSlot THEN 0 ELSE first_ev
        /\ last_ev' = NextSlot
        /\ evbuf' = [evbuf EXCEPT ![NextSlot] = e]
    BY DEF ProcessEvent
  <1>2. /\ Count' = Count + 1
        /\ \A i \in 1..Count : SlotAt(i)' = SlotAt(i) /\ SlotAt(i) # NextSlot
        /\ \A i \in 1..(Count + 1) : i = Count + 1 => SlotAt(i)' = NextSlot
    <2>1. CASE first_ev = NoSlot
      <3>1. first_ev' = 0 /\ last_ev' = 0 /\ NextSlot = 0
        BY <1>a, <2>1, NextSlotIs DEF RingTypeOK
      <3>2. Count = 0 /\ Count' = 1 /\ 1..Count = {}
        BY <2>1, <3>1 DEF Count, NoSlot
      <3>3. SlotAt(1)' = 0
        BY <3>1, EvbufLenIs DEF SlotAt
      <3> QED
        BY <3>1, <3>2, <3>3
    <2>2. CASE first_ev # NoSlot
      <3>1. first_ev \in Slot /\ last_ev \in Slot /\ first_ev' = first_ev
        BY <1>a, <2>2 DEF RingTypeOK
      <3>2. last_ev' = IF last_ev = EvbufLen - 1 THEN 0 ELSE last_ev + 1
        BY <1>a, <2>2, NextSlotIs
      <3>3. \A i \in 1..(Count + 1) : SlotAt(i)' = SlotAt(i)
        BY <3>1 DEF SlotAt
      <3>4. Count' = Count + 1
        BY <1>1, <2>2, <3>1, <3>2, EvbufLenIs DEF Count, Slot, NoSlot
      <3>5. SlotAt(Count + 1) = last_ev'
        BY <1>1, <2>2, <3>1, <3>2, EvbufLenIs DEF Count, Slot, NoSlot, SlotAt
      <3>6. \A i \in 1..Count : SlotAt(i) # last_ev'
        BY <1>1, <2>2, <3>1, <3>2, EvbufLenIs DEF Count, Slot, NoSlot, SlotAt
      <3>7. Count \in Nat
        BY CountRange
      <3>8. \A i \in 1..(Count + 1) : i = Count + 1 => SlotAt(i)' = last_ev'
        BY <3>3, <3>5
      <3>9. \A i \in 1..Count : SlotAt(i)' = SlotAt(i)
        BY <3>3, <3>7
      <3> QED
        BY <1>a, <3>4, <3>6, <3>8, <3>9
    <2> QED
      BY <2>1, <2>2
  <1>3. Count \in Nat /\ NextSlot \in Slot
    BY CountRange, NextSlotIs
  <1>5. \A i \in 1..(Count + 1) :
            evbuf'[SlotAt(i)'] = IF i = Count + 1 THEN e ELSE evbuf[SlotAt(i)]
    <2> SUFFICES ASSUME NEW i \in 1..(Count + 1)
                 PROVE  evbuf'[SlotAt(i)'] = IF i = Count + 1 THEN e ELSE evbuf[SlotAt(i)]
      OBVIOUS
    <2>1. CASE i = Count + 1
      BY <1>a, <1>2, <1>3, <2>1 DEF RingTypeOK
    <2>2. CASE i # Count + 1
      <3>1. i \in 1..Count
        BY <1>3, <2>2
      <3>2. SlotAt(i)' = SlotAt(i) /\ SlotAt(i) # NextSlot /\ SlotAt(i) \in Slot
        BY <1>2, <3>1, CountRange
      <3> QED
        BY <1>a, <2>2, <3>2 DEF RingTypeOK
    <2> QED
      BY <2>1, <2>2
  <1>6. Contents' = [i \in 1..(Count + 1) |->
                             IF i = Count + 1 THEN e ELSE evbuf[SlotAt(i)]]
    BY <1>2, <1>5 DEF Contents
  <1>7. Append(Contents, e) = [i \in 1..(Count + 1) |->
                                     IF i = Count + 1 THEN e ELSE evbuf[SlotAt(i)]]
    BY ContentsSeq, CountRange DEF Contents
  <1> QED
    BY <1>6, <1>7

\* Popping removes the oldest event.
LEMMA PopTakesFirst ==
    ASSUME RingTypeOK, RingTypeOK', Pop
    PROVE  Contents # <<>> /\ Contents' = Tail(Contents)
  <1>1. Count > 0 /\ Count \in Nat
    BY CountRange DEF Pop, NoSlot
  <1>a. first_ev \in Slot /\ last_ev \in Slot /\ first_ev # NoSlot
    BY EvbufLenIs DEF Pop, RingTypeOK, Slot, NoSlot
  <1>b. ASSUME first_ev = last_ev
        PROVE  Count' = Count - 1 /\ \A i \in 1..(Count - 1) : SlotAt(i)' = SlotAt(i + 1)
    <2>1. Count = 1 /\ Count' = 0 /\ 1..(Count - 1) = {}
      BY <1>a, <1>b DEF Pop, Count, Slot, NoSlot
    <2> QED
      BY <2>1, <1>b
  <1>c. ASSUME first_ev # last_ev
        PROVE  Count' = Count - 1 /\ \A i \in 1..(Count - 1) : SlotAt(i)' = SlotAt(i + 1)
    <2>1. /\ first_ev' = IF first_ev = EvbufLen - 1 THEN 0 ELSE first_ev + 1
          /\ last_ev' = last_ev
      BY <1>c DEF Pop
    <2>2. Count' = Count - 1
      BY <1>a, <1>c, <2>1, EvbufLenIs DEF Count, Slot, NoSlot
    <2>3. \A i \in 1..(Count - 1) : SlotAt(i)' = SlotAt(i + 1)
      BY <1>1, <1>a, <2>1, CountRange, EvbufLenIs DEF SlotAt, Slot
    <2> QED
      BY <2>2, <2>3
  <1>2. Count' = Count - 1
    BY <1>1, <1>b, <1>c
  <1>3. \A i \in 1..(Count - 1) : SlotAt(i)' = SlotAt(i + 1)
    BY <1>b, <1>c
  <1>4. Contents' = [i \in 1..(Count - 1) |-> evbuf[SlotAt(i + 1)]]
    BY <1>2, <1>3 DEF Contents, Pop
  <1>5. Tail(Contents) = [i \in 1..(Count - 1) |-> evbuf[SlotAt(i + 1)]]
    BY <1>1, ContentsSeq DEF Contents
  <1>6. Contents # <<>>
    BY <1>1, ContentsSeq
  <1> QED
    BY <1>4, <1>5, <1>6

\* The ring implements the bounded queue, for every capacity.
THEOREM RingImplementsFifo == RingSpec => ImplementsFifo
  <1>1. RingInit => Fifo!Init
    <2> SUFFICES ASSUME RingInit PROVE Contents = <<>> /\ evbuf_full = FALSE
      BY DEF Fifo!Init
    <2> QED
      BY DEF RingInit, Contents, Count, NoSlot
  <1>2. RingTypeOK /\ RingTypeOK' /\ [RingNext]_ringVars => [Fifo!Next]_(Fifo!vars)
    <2> SUFFICES ASSUME RingTypeOK, RingTypeOK', [RingNext]_ringVars
                 PROVE  Fifo!Next \/ UNCHANGED <<Contents, evbuf_full>>
      BY DEF Fifo!vars
    <2>1. ASSUME NEW e \in Event, ProcessEvent(e), ~IsFull PROVE Fifo!Next
      <3>1. Len(Contents) < EvbufLen
        BY <2>1, IsFullIs, CountRange, ContentsSeq, EvbufLenIs
      <3>2. Contents' = Append(Contents, e) /\ evbuf_full' = evbuf_full
        BY <2>1, PutAppends DEF ProcessEvent
      <3> QED
        BY <3>1, <3>2 DEF Fifo!Next, Fifo!Put
    <2>2. ASSUME NEW e \in Event, ProcessEvent(e), IsFull PROVE Fifo!Next
      <3>1. Len(Contents) = EvbufLen
        BY <2>2, IsFullIs, ContentsSeq
      <3>2. Contents' = Contents /\ evbuf_full' = TRUE
        BY <2>2 DEF ProcessEvent, Contents, Count, SlotAt
      <3> QED
        BY <3>1, <3>2 DEF Fifo!Next, Fifo!Refuse
    <2>3. CASE Pop
      BY <2>3, PopTakesFirst DEF Pop, Fifo!Next, Fifo!Get
    <2>4. CASE ClearFull
      <3>1. Contents' = Contents
        BY <2>4 DEF ClearFull, Contents, Count, SlotAt
      <3> QED
        BY <2>4, <3>1 DEF ClearFull, Fifo!Next, Fifo!Forget
    <2>5. CASE UNCHANGED ringVars
      BY <2>5 DEF ringVars, Contents, Count, SlotAt
    <2> QED
      BY <2>1, <2>2, <2>3, <2>4, <2>5 DEF RingNext
  <1> QED
    BY <1>1, <1>2, RingTypeCorrect, PTL DEF RingSpec, Fifo!Spec, ImplementsFifo

\* An arriving event never overwrites the event ae_peek_event() points to.
THEOREM PeekedEventStays == RingSpec => PeekedStays
  <1>1. RingTypeOK /\ [RingNext]_ringVars =>
                 [PeekEvent # NoSlot /\ PeekEvent' = PeekEvent
                          => evbuf'[PeekEvent] = evbuf[PeekEvent]]_ringVars
    <2> SUFFICES ASSUME RingTypeOK, RingNext, first_ev # NoSlot, first_ev' = first_ev
                 PROVE  evbuf'[first_ev] = evbuf[first_ev]
      BY DEF PeekEvent
    <2>1. ASSUME NEW e \in Event, ProcessEvent(e), ~IsFull
          PROVE  evbuf'[first_ev] = evbuf[first_ev]
      <3>1. NextSlot # first_ev
        BY <2>1, NextSlotIs, IsFullIs, EvbufLenIs
        DEF Count, RingTypeOK, Slot, NoSlot
      <3> QED
        BY <2>1, <3>1 DEF ProcessEvent, RingTypeOK
    <2> QED
      BY <2>1 DEF RingNext, ProcessEvent, Pop, ClearFull
  <1> QED
    BY <1>1, RingTypeCorrect, PTL DEF RingSpec, PeekedStays

================================================================================
