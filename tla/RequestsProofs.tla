----------------------------- MODULE RequestsProofs -----------------------------
(***************************************************************************)
(* Proofs about Requests, for any requests of the shape that the library   *)
(* gives them.                                                             *)
(***************************************************************************)
EXTENDS Requests, SequenceTheorems, WellFoundedInduction, TLAPS

-----------------------------------------------------------------------------
(* The invariant *)

\* What the server takes for what the program keeps.
Mirror(has, mine) == \A i \in Id : has[i] = IF mine[i] = "gone" THEN None ELSE mine[i]

\* What the answer on its way says that the program has.
ToldWidgets == IF status # 0 THEN myWidgets
               ELSE IF newId # None /\ newId.kind \in Kind
                    THEN Noted(myWidgets, newId.id, newId.kind)
               ELSE IF call.op = "destroy_widget" THEN Noted(myWidgets, call.ids[1], "gone")
               ELSE myWidgets
ToldShapes == IF status # 0 THEN myShapes
              ELSE IF newId # None /\ newId.kind = "shape"
                   THEN Noted(myShapes, newId.id, newId.kind)
              ELSE IF call.op = "destroy_shape" THEN Noted(myShapes, call.ids[1], "gone")
              ELSE myShapes

\* Program and server agree, but for what the answer on its way says.
Agreed ==
    IF pc = "answered" THEN Mirror(widgets, ToldWidgets) /\ Mirror(shapes, ToldShapes)
    ELSE Mirror(widgets, myWidgets) /\ Mirror(shapes, myShapes)

\* No id from the next one on has been given to anybody, nor has the id in an
\* answer been given before.
Fresh ==
    /\ \A i \in Id : (i >= nextWid => myWidgets[i] = None) /\ (i >= nextSid => myShapes[i] = None)
    /\ pc = "answered" => \A i \in Id :
          (i >= nextWid => ToldWidgets[i] = None) /\ (i >= nextSid => ToldShapes[i] = None)
    /\ newId # None /\ newId.kind \in Kind => myWidgets[newId.id] = None
    /\ newId # None /\ newId.kind = "shape" => myShapes[newId.id] = None

\* An answer there is only between the handler and the program, with an id if it
\* is that of a make_* that was not refused; and a handler runs only for a
\* request of which both sides list the same pieces.
Served ==
    /\ pc \in {"sent", "read"} /\ call.op \in Makes => nextWid <= MaxId /\ nextSid <= MaxId
    /\ pc = "answered" =>
          /\ handler \in Makes <=> call.op \in Makes
          /\ newId # None <=> call.op \in Makes /\ status = 0
          /\ newId # None => newId.kind = KindOf[call.op]
    /\ pc # "answered" => status = 0 /\ newId = None /\ effect = None
    /\ pc = "read" => handler = Handler(call) /\ InStep(call)
    /\ pc = "lost" => ~InStep(call)
    /\ pc = "dropped" => ReadsNothing(call)

\* The two agree until a part of an answer is left behind.
RequestsInv ==
    /\ TypeOK /\ Served /\ EffectAsAsked
    /\ unread = <<>> => Agreed /\ Fresh

-----------------------------------------------------------------------------
(* Numbers *)

\* SelectInSeq finds the first that there is.
LEMMA LeastIs ==
    ASSUME NEW I, I \subseteq Nat, I # {}
    PROVE  Min(I) \in I
  <1> DEFINE R == OpToRel(<, Nat)
  <1>1. IsWellFoundedOn(R, Nat)
    BY NatLessThanWellFounded
  <1>2. ASSUME NEW m \in Nat, NEW n \in Nat, m < n PROVE <<m, n>> \in R
    BY <1>2 DEF OpToRel
  <1> HIDE DEF R
  <1>3. PICK x \in I : \A y \in I : <<y, x>> \notin R
    BY <1>1, WFMin
  <1>4. ASSUME NEW y \in I PROVE x <= y
    <2>1. x \in Nat /\ y \in Nat /\ ~(y < x)
      BY <1>2, <1>3
    <2> QED
      BY <2>1
  <1> QED
    BY <1>4 DEF Min

\* A name that is in a table is found at a place where it is ...
LEMMA NumberFinds ==
    ASSUME NEW list, NEW name, Len(list) \in Nat, NEW n \in 1..Len(list), list[n] = name
    PROVE  NumberOf(list, name) \in Nat /\ NumberOf(list, name) + 1 \in 1..Len(list) /\ list[NumberOf(list, name) + 1] = name
  <1> DEFINE I == {i \in 1..Len(list) : list[i] = name}
  <1>1. NumberOf(list, name) = (IF I # {} THEN Min(I) ELSE 0) - 1
    BY DEF NumberOf, SelectInSeq
  <1>2. I # {} /\ I \subseteq Nat
    OBVIOUS
  <1>3. Min(I) \in I
    BY <1>2, LeastIs
  <1> QED
    BY <1>1, <1>2, <1>3

\* ... and one that is not, nowhere.
LEMMA NumberOfNone ==
    ASSUME NEW list, NEW name, \A n \in 1..Len(list) : list[n] # name
    PROVE  NumberOf(list, name) = -1
  <1> DEFINE I == {i \in 1..Len(list) : list[i] = name}
  <1>1. NumberOf(list, name) = (IF I # {} THEN Min(I) ELSE 0) - 1
    BY DEF NumberOf, SelectInSeq
  <1> QED
    BY <1>1

\* The lists of library and server agree, but for what "halt" stands at.
LEMMA ListsAgree ==
    /\ Len(AeActionType) = 21 /\ DOMAIN AeActionType = 1..21
    /\ Len(AeEventType) = 12 /\ DOMAIN AeEventType = 1..12
    /\ Len(AeEventActionType) = 10 /\ DOMAIN AeEventActionType = 1..10
    /\ \A i \in 1..21 : Handlers[i] = AeActionType[i]
    /\ \A i \in 2..12 : Handlers[i + 20] = AeEventType[i]
    /\ AeEventType[1] = "halt" /\ Handlers[21] = "set_str"
    /\ EventHandlerAction = AeEventActionType
  <1>1. Len(AeActionType) = 21 /\ DOMAIN AeActionType = 1..21
    BY DEF AeActionType
  <1>2. Len(AeEventType) = 12 /\ DOMAIN AeEventType = 1..12
    BY DEF AeEventType
  <1>3. Len(AeEventActionType) = 10 /\ DOMAIN AeEventActionType = 1..10
    BY DEF AeEventActionType
  <1>4. \A i \in 1..21 : Handlers[i] = AeActionType[i]
    BY DEF Handlers, AeActionType
  <1>5. \A i \in 2..12 : Handlers[i + 20] = AeEventType[i]
    BY DEF Handlers, AeEventType
  <1>6. AeEventType[1] = "halt" /\ Handlers[21] = "set_str"
    BY DEF Handlers, AeEventType
  <1>7. EventHandlerAction = AeEventActionType
    BY DEF EventHandlerAction, AeEventActionType
  <1> QED
    BY <1>1, <1>2, <1>3, <1>4, <1>5, <1>6, <1>7

\* Which names are in the tables of the two enumerations.
LEMMA NamesAre ==
    /\ Range(AeActionType) = Makes \cup Updates \cup {"destroy_widget", "destroy_shape"}
    /\ Range(AeEventType) = EventType \cup {"halt"}
    /\ EventType \cap (Range(AeActionType) \cup {"halt"}) = {}
    /\ Makes \cap (Updates \cup {"destroy_widget", "destroy_shape", "add_event_handler"}) = {}
    /\ Updates \cap {"destroy_widget", "destroy_shape", "add_event_handler"} = {}
    /\ EventType = {"key_press", "key_release", "key_type", "mouse_press", "mouse_release",
                    "mouse_click", "mouse_move", "mouse_scroll", "action", "mouse_enter", "mouse_exit"}
    /\ Range(AeEventActionType) = Updates \cup {"notify_client"}
  <1>1. Range(AeActionType) = Makes \cup Updates \cup {"destroy_widget", "destroy_shape"}
    BY DEF Range, AeActionType, Makes, Updates
  <1>2. EventType = {"key_press", "key_release", "key_type", "mouse_press", "mouse_release",
                     "mouse_click", "mouse_move", "mouse_scroll", "action", "mouse_enter", "mouse_exit"}
    BY DEF AeEventType, EventType
  <1>3. Range(AeEventType) = EventType \cup {"halt"}
    BY ListsAgree DEF Range, EventType
  <1>4. Makes \cap (Updates \cup {"destroy_widget", "destroy_shape", "add_event_handler"}) = {}
        /\ Updates \cap {"destroy_widget", "destroy_shape", "add_event_handler"} = {}
    BY DEF Makes, Updates
  <1>5. EventType \cap (Range(AeActionType) \cup {"halt"}) = {}
    BY <1>1, <1>2 DEF Makes, Updates
  <1>6. Range(AeEventActionType) = Updates \cup {"notify_client"}
    BY DEF Range, AeEventActionType, Updates
  <1> QED
    BY <1>1, <1>2, <1>3, <1>4, <1>5, <1>6

\* The server takes a request for what it is, but for a handler of "halt".
LEMMA HandlerIs ==
    ASSUME NEW r \in Requests
    PROVE  /\ r.op # "add_event_handler" => Handler(r) = r.op
           /\ r.op = "add_event_handler" /\ r.type # "halt" => Handler(r) = r.type /\ r.type \in EventType
           /\ r.op = "add_event_handler" /\ r.type = "halt" => Handler(r) = "set_str"
           /\ r.op = "add_event_handler" => HandlerAction(r) = r.action
  <1>1. r.op # "add_event_handler" => Handler(r) = r.op
    <2> SUFFICES ASSUME r.op # "add_event_handler" PROVE Handler(r) = r.op
      OBVIOUS
    <2>1. PICK n \in 1..21 : AeActionType[n] = r.op
      BY RequestsAssumption, ListsAgree DEF Range
    <2> DEFINE k == NumberOf(AeActionType, r.op)
    <2>2. k + 1 \in 1..21 /\ AeActionType[k + 1] = r.op
      <3>1. Len(AeActionType) \in Nat /\ n \in 1..Len(AeActionType)
        BY ListsAgree
      <3>2. k + 1 \in 1..Len(AeActionType) /\ AeActionType[k + 1] = r.op
        BY <2>1, <3>1, NumberFinds, Zenon
      <3> QED
        BY <3>2, ListsAgree
    <2>3. Handler(r) = Handlers[k + 1]
      BY DEF Handler, Code
    <2> QED
      BY <2>2, <2>3, ListsAgree
  <1>2. r.op = "add_event_handler" =>
           /\ r.type # "halt" => Handler(r) = r.type /\ r.type \in EventType
           /\ r.type = "halt" => Handler(r) = "set_str"
    <2> SUFFICES ASSUME r.op = "add_event_handler"
                 PROVE  /\ r.type # "halt" => Handler(r) = r.type /\ r.type \in EventType
                        /\ r.type = "halt" => Handler(r) = "set_str"
      OBVIOUS
    <2>1. PICK n \in 1..12 : AeEventType[n] = r.type
      BY RequestsAssumption, ListsAgree DEF Range
    <2> DEFINE k == NumberOf(AeEventType, r.type)
    <2>2. k \in Nat /\ k + 1 \in 1..12 /\ AeEventType[k + 1] = r.type
      <3>1. Len(AeEventType) \in Nat /\ n \in 1..Len(AeEventType)
        BY ListsAgree
      <3>2. k \in Nat /\ k + 1 \in 1..Len(AeEventType) /\ AeEventType[k + 1] = r.type
        BY <2>1, <3>1, NumberFinds, Zenon
      <3> QED
        BY <3>2, ListsAgree
    <2>3. Handler(r) = Handlers[k + 20 + 1]
      BY DEF Handler, Code
    <2> HIDE DEF k
    <2>4. k + 1 # 1 => Handlers[(k + 1) + 20] = r.type /\ r.type \in EventType
      BY <2>2, ListsAgree DEF EventType
    <2>5. k \in Int /\ (k + 1) + 20 = k + 20 + 1
      BY <2>2
    <2>6. k + 1 = 1 => k + 20 + 1 = 21 /\ r.type = "halt"
      BY <2>2, <2>5, ListsAgree
    <2>7. k + 1 # 1 => r.type # "halt"
      BY <2>4, NamesAre
    <2> QED
      BY <2>3, <2>4, <2>5, <2>6, <2>7, ListsAgree
  <1>3. r.op = "add_event_handler" => HandlerAction(r) = r.action
    <2> SUFFICES ASSUME r.op = "add_event_handler" PROVE HandlerAction(r) = r.action
      OBVIOUS
    <2>1. PICK n \in 1..10 : AeEventActionType[n] = r.action
      BY RequestsAssumption, ListsAgree DEF Range
    <2>2. AeEventActionType[NumberOf(AeEventActionType, r.action) + 1] = r.action
      <3>1. Len(AeEventActionType) \in Nat /\ n \in 1..Len(AeEventActionType)
        BY ListsAgree
      <3> QED
        BY <2>1, <3>1, NumberFinds, Zenon
    <2> QED
      BY <2>2, ListsAgree DEF HandlerAction
  <1> QED
    BY <1>1, <1>2, <1>3

\* What a request has in it, by its kind.
LEMMA OpIs ==
    ASSUME NEW r \in Requests
    PROVE  /\ r.op \in Makes \cup Updates \cup {"destroy_widget", "destroy_shape", "add_event_handler"}
           /\ r.len \in Nat
           /\ r.op \notin Makes => r.ids[1] \in Id /\ r.ids[2] \in Id
           /\ r.op \in Updates => r.type = None /\ r.action = None
           /\ r.op = "add_event_handler" =>
                 r.type \in EventType \cup {"halt"} /\ r.action \in Updates \cup {"notify_client"} /\ r.ids[3] \in Id
  BY RequestsAssumption, NamesAre

-----------------------------------------------------------------------------
(* The pieces of a request *)

\* The pieces that a request with a string of this length is made of.
PieceName ==
    {"length", "border colour", "border", "layout", "cols", "col", "rows", "row", "str", "font",
     "font size", "colour", "background", "margin", "padding", "wrap", "args", "x", "y", "w", "h",
     "title", "pix", "x0", "y0", "x1", "y1", "id", "parent", "child", "index", "canvas", "shape",
     "size", "action"}
Piece(len) == {p \in PieceName \X Nat : p[2] \in {1, 2, 4, len}}

\* A function on 1..n is a sequence.
LEMMA FunctionIsSeq ==
    ASSUME NEW S, NEW n \in Nat, NEW f, f \in [1..n -> S]
    PROVE  f \in Seq(S)
  OBVIOUS

\* What a request is made of: the constructors stay within the pieces of its
\* length.
LEMMA PiecesAre ==
    ASSUME NEW len \in Nat
    PROVE  /\ \A s, t \in Seq(Piece(len)) : s \o t \in Seq(Piece(len))
           /\ \A name \in PieceName :
                 Octet(name) \in Seq(Piece(len)) /\ Short(name) \in Seq(Piece(len))
                 /\ Word(name) \in Seq(Piece(len)) /\ Data(name, len) \in Seq(Piece(len))
           /\ \A name \in PieceName : Str(name, len) \in Seq(Piece(len))
           /\ Border \in Seq(Piece(len)) /\ <<>> \in Seq(Piece(len))
           /\ \A set, bit : \A s \in Seq(Piece(len)) : When(set, bit, s) \in Seq(Piece(len))
           /\ \A name \in PieceName, n \in Int : Cells(name, n) \in Seq(Piece(len))
  <1> DEFINE P == Piece(len)
  <1>1. \A s, t \in Seq(P) : s \o t \in Seq(P)
    OBVIOUS
  <1>2. \A name \in PieceName : <<name, 1>> \in P /\ <<name, 2>> \in P /\ <<name, 4>> \in P /\ <<name, len>> \in P
    BY DEF Piece
  <1> HIDE DEF P
  <1>3. \A x \in P : <<x>> \in Seq(P)
    OBVIOUS
  <1>4. \A name \in PieceName : Octet(name) \in Seq(P) /\ Short(name) \in Seq(P)
                             /\ Word(name) \in Seq(P) /\ Data(name, len) \in Seq(P)
    BY <1>2, <1>3 DEF Octet, Short, Word, Data
  <1>5. \A name \in PieceName : Str(name, len) \in Seq(P)
    <2>1. Short("length") \in Seq(P)
      BY <1>4 DEF PieceName
    <2> QED
      BY <1>1, <1>4, <2>1 DEF Str
  <1>6. Border \in Seq(P) /\ <<>> \in Seq(P)
    <2>2. <<>> \in Seq(P)
      OBVIOUS
    <2>1. Word("border colour") \in Seq(P) /\ Short("border") \in Seq(P)
      BY <1>4 DEF PieceName
    <2> QED
      BY <1>1, <2>1, <2>2 DEF Border
  <1>7. \A set, bit : \A s \in Seq(P) : When(set, bit, s) \in Seq(P)
    BY <1>6 DEF When
  <1>8. ASSUME NEW name \in PieceName, NEW n \in Int PROVE Cells(name, n) \in Seq(P)
    <2>1. \A i \in 1..n : <<name, 1>> \in P
      BY <1>2
    <2>2. CASE n \in Nat
      <3>1. Cells(name, n) \in [1..n -> P]
        BY <2>1 DEF Cells
      <3> QED
        BY <2>2, <3>1, FunctionIsSeq
    <2>3. CASE n \notin Nat
      <3>1. 1..n = 1..0
        BY <2>3
      <3>2. Cells(name, n) = [i \in 1..0 |-> <<name, 1>>]
        BY <3>1 DEF Cells
      <3> QED
        BY <2>1, <3>1, <3>2
    <2> QED
      BY <2>2, <2>3
  <1> QED
    BY <1>1, <1>4, <1>5, <1>6, <1>7, <1>8 DEF P

\* Updates and destructions are read as they are written ...
LEMMA OpPieces ==
    ASSUME NEW op \in Updates \cup {"destroy_widget", "destroy_shape"}, NEW len \in Nat
    PROVE  SentOp(op, len) = OpRead(op, len) /\ OpRead(op, len) \in Seq(Piece(len))
  <1> DEFINE S == Seq(Piece(len))
  <1>0. /\ \A s, t \in S : s \o t \in S
        /\ Word("id") \in S /\ Word("parent") \in S /\ Word("child") \in S /\ Word("index") \in S
        /\ Word("canvas") \in S /\ Word("shape") \in S /\ Word("colour") \in S /\ Word("size") \in S
        /\ Data("pix", len) \in S /\ Str("str", len) \in S
    <2>1. \A s, t \in S : s \o t \in S
      BY PiecesAre
    <2>2. \A name \in PieceName : Word(name) \in S /\ Data(name, len) \in S /\ Str(name, len) \in S
      BY PiecesAre
    <2> HIDE DEF S
    <2> QED
      BY <2>1, <2>2 DEF PieceName
  <1> HIDE DEF S
  <1>1. CASE op \in {"destroy_widget", "destroy_shape", "rm_widget", "open_window", "close_window"}
    <2>1. SentOp(op, len) = Word("id")
      BY <1>1 DEF SentOp
    <2>2. OpRead(op, len) = Word("id")
      BY <1>1 DEF OpRead
    <2> QED
      BY <1>0, <2>1, <2>2 DEF S
  <1>2. CASE op = "add_widget"
    <2>1. SentOp(op, len) = OpRead(op, len) /\ OpRead(op, len) = Word("parent") \o Word("child")
      BY <1>2 DEF SentOp, OpRead
    <2> QED
      BY <1>0, <2>1 DEF S
  <1>3. CASE op = "rm_child"
    <2>1. SentOp(op, len) = OpRead(op, len) /\ OpRead(op, len) = Word("parent") \o Word("index")
      BY <1>3 DEF SentOp, OpRead
    <2> QED
      BY <1>0, <2>1 DEF S
  <1>4. CASE op = "draw_shape"
    <2>1. SentOp(op, len) = OpRead(op, len) /\ OpRead(op, len) = Word("canvas") \o Word("shape")
      BY <1>4 DEF SentOp, OpRead
    <2> QED
      BY <1>0, <2>1 DEF S
  <1>5. CASE op = "fill_canvas"
    <2>1. SentOp(op, len) = OpRead(op, len) /\ OpRead(op, len) = Word("canvas") \o Word("colour")
      BY <1>5 DEF SentOp, OpRead
    <2> QED
      BY <1>0, <2>1 DEF S
  <1>6. CASE op = "set_picture_data"
    <2>1. SentOp(op, len) = OpRead(op, len)
          /\ OpRead(op, len) = (Word("id") \o Word("size")) \o Data("pix", len)
      BY <1>6 DEF SentOp, OpRead
    <2> QED
      BY <1>0, <2>1 DEF S
  <1>7. CASE op = "set_str"
    <2>1. SentOp(op, len) = OpRead(op, len) /\ OpRead(op, len) = Word("id") \o Str("str", len)
      BY <1>7 DEF SentOp, OpRead
    <2> QED
      BY <1>0, <2>1 DEF S
  <1> QED
    BY <1>1, <1>2, <1>3, <1>4, <1>5, <1>6, <1>7 DEF Updates

\* ... so are handlers with their actions ...
LEMMA HandlerPieces ==
    ASSUME NEW r \in Requests, r.op = "add_event_handler"
    PROVE  /\ \E rest \in Seq(Piece(r.len)) : Sent(r) = (Word("id") \o Octet("action")) \o rest
           /\ HandlerRead(r.action, r.len) = Sent(r) /\ Sent(r) \in Seq(Piece(r.len))
  <1> DEFINE S == Seq(Piece(r.len))
             rest == IF r.action = "notify_client" THEN <<>> ELSE SentOp(r.action, r.len)
  <1>1. r.len \in Nat /\ r.action \in Updates \cup {"notify_client"} /\ r.op \notin Makes
    BY OpIs, NamesAre
  <1>2. Sent(r) = (Word("id") \o Octet("action")) \o rest
    BY <1>1 DEF Sent, SentHandler
  <1>3. HandlerRead(r.action, r.len)
        = (Word("id") \o Octet("action")) \o IF r.action = "notify_client" THEN <<>> ELSE OpRead(r.action, r.len)
    BY DEF HandlerRead
  <1>4. /\ \A s, t \in S : s \o t \in S
        /\ Word("id") \in S /\ Octet("action") \in S /\ <<>> \in S
    <2>1. (\A s, t \in S : s \o t \in S) /\ <<>> \in S
      BY <1>1, PiecesAre
    <2>2. \A name \in PieceName : Word(name) \in S /\ Octet(name) \in S
      BY <1>1, PiecesAre
    <2> HIDE DEF S
    <2> QED
      BY <2>1, <2>2 DEF PieceName
  <1>5. rest = (IF r.action = "notify_client" THEN <<>> ELSE OpRead(r.action, r.len)) /\ rest \in S
    BY <1>1, <1>4, OpPieces
  <1> HIDE DEF rest
  <1>6. \E t \in Seq(Piece(r.len)) : Sent(r) = (Word("id") \o Octet("action")) \o t
    BY <1>2, <1>5
  <1>7. HandlerRead(r.action, r.len) = Sent(r)
    BY <1>2, <1>3, <1>5
  <1> HIDE DEF S
  <1>8. Sent(r) \in S
    BY <1>2, <1>4, <1>5
  <1> QED
    BY <1>6, <1>7, <1>8 DEF S

\* (what the server reads, by the handler it has chosen)
LEMMA ReadIs ==
    ASSUME NEW r, NEW h, Handler(r) = h
    PROVE  /\ h \in Makes => Read(r) = MakeRead(h, r)
           /\ h \in Range(AeActionType) \ Makes => Read(r) = OpRead(h, r.len)
           /\ h \in EventType => Read(r) = HandlerRead(HandlerAction(r), r.len)
  <1>1. h \in Range(AeActionType) => NumberOf(AeActionType, h) >= 0
    <2> SUFFICES ASSUME h \in Range(AeActionType) PROVE NumberOf(AeActionType, h) >= 0
      OBVIOUS
    <2>1. PICK n \in 1..21 : AeActionType[n] = h
      BY ListsAgree DEF Range
    <2>2. Len(AeActionType) \in Nat /\ n \in 1..Len(AeActionType)
      BY ListsAgree
    <2>3. NumberOf(AeActionType, h) \in Nat
      BY <2>1, <2>2, NumberFinds, Zenon
    <2> QED
      BY <2>3
  <1>2. h \in EventType => NumberOf(AeActionType, h) = -1
    <2> SUFFICES ASSUME h \in EventType PROVE NumberOf(AeActionType, h) = -1
      OBVIOUS
    <2>1. \A n \in 1..Len(AeActionType) : AeActionType[n] # h
      <3>1. \A n \in 1..Len(AeActionType) : AeActionType[n] \in Range(AeActionType)
        BY ListsAgree DEF Range
      <3> QED
        BY <3>1, NamesAre
    <2> QED
      BY <2>1, NumberOfNone
  <1>3. h \in EventType => h \notin Makes /\ ~(NumberOf(AeActionType, h) >= 0)
    BY <1>2, NamesAre
  <1> QED
    BY <1>1, <1>3 DEF Read

\* A handler of "halt" is taken for set_str, which reads other pieces.
LEMMA HaltIsOut ==
    ASSUME NEW r \in Requests, r.op = "add_event_handler", r.type = "halt"
    PROVE  ~InStep(r)
  <1>1. Read(r) = Word("id") \o Str("str", r.len)
    <2>1. Handler(r) = "set_str" /\ "set_str" \in Range(AeActionType) \ Makes
      BY HandlerIs, NamesAre DEF Updates
    <2>2. Read(r) = OpRead("set_str", r.len)
      BY <2>1, ReadIs
    <2> QED
      BY <2>2 DEF OpRead
  <1>2. PICK rest : Sent(r) = (Word("id") \o Octet("action")) \o rest /\ rest \in Seq(Piece(r.len))
    BY HandlerPieces
  <1>3. Read(r)[2] = <<"length", 2>>
    BY <1>1 DEF Word, Str, Short, Data
  <1>4. Sent(r)[2] = <<"action", 1>>
    BY <1>2 DEF Word, Octet
  <1> QED
    BY <1>3, <1>4 DEF InStep

\* Where both sides write and read the same, piece by piece.
LEMMA LayoutPieces ==
    ASSUME NEW g, g.cols \in Int, g.rows \in Int, NEW len \in Nat
    PROVE  /\ LayoutRead(g) \in Seq(Piece(len))
           /\ g.even \/ (g.cols < Octets /\ g.rows < Octets) => LayoutRead(g) = SentLayout(g)
  <1> DEFINE S == Seq(Piece(len))
  <1>1. \A s, t \in S : s \o t \in S
    BY PiecesAre
  <1>2. \A name \in PieceName : Octet(name) \in S /\ Short(name) \in S /\ \A n \in Int : Cells(name, n) \in S
    BY PiecesAre
  <1> HIDE DEF S
  <1>3. Octet("layout") \in S /\ Short("cols") \in S /\ Short("rows") \in S
        /\ CellsRead("col", g.cols) \in S /\ CellsRead("row", g.rows) \in S
    <2>1. Octet("layout") \in S /\ Short("cols") \in S /\ Short("rows") \in S
          /\ (\A n \in Int : Cells("col", n) \in S /\ Cells("row", n) \in S)
      BY <1>2 DEF PieceName
    <2>2. \A n \in Int : CellsRead("col", n) \in S /\ CellsRead("row", n) \in S
      BY <2>1 DEF CellsRead
    <2> QED
      BY <2>1, <2>2
  <1>4. LayoutRead(g) \in S
    BY <1>1, <1>3 DEF LayoutRead
  <1>5. CASE g.even
    BY <1>4, <1>5 DEF LayoutRead, SentLayout, S
  <1>6. CASE ~g.even
    <2>1. g.cols < Octets => CellsRead("col", g.cols) = Cells("col", g.cols)
      BY DEF CellsRead
    <2>2. g.rows < Octets => CellsRead("row", g.rows) = Cells("row", g.rows)
      BY DEF CellsRead
    <2> QED
      BY <1>4, <1>6, <2>1, <2>2 DEF LayoutRead, SentLayout, S
  <1> QED
    BY <1>5, <1>6

\* Pieces put one after the other, in any grouping.
LEMMA PiecesJoin ==
    ASSUME NEW T
    PROVE  /\ \A s, t, u \in Seq(T) : (s \o t) \o u = s \o (t \o u)
           /\ \A s \in Seq(T) : s \o <<>> = s
  <1>1. ASSUME NEW s \in Seq(T), NEW t \in Seq(T), NEW u \in Seq(T)
        PROVE  (s \o t) \o u = s \o (t \o u)
    BY ONLY s \in Seq(T), t \in Seq(T), u \in Seq(T), ConcatAssociative
  <1>2. ASSUME NEW s \in Seq(T) PROVE s \o <<>> = s
    OBVIOUS
  <1> QED
    BY ONLY <1>1, <1>2, Zenon

\* ... texts, all of whose options are written one by one ...
LEMMA TextPieces ==
    ASSUME NEW f, NEW len \in Nat
    PROVE  TextRead(f, len) \in Seq(Piece(len)) /\ TextRead(f, len) = SentText(f, len)
  <1> DEFINE S == Seq(Piece(len))
             P == When(f, 0, Str("str", len))
  <1>1. \A s, t \in S : s \o t \in S
    BY PiecesAre
  <1>2. \A name \in PieceName : Short(name) \in S /\ Word(name) \in S /\ Str(name, len) \in S
    BY PiecesAre
  <1>3. \A bit : \A s \in S : When(f, bit, s) \in S
    BY PiecesAre
  <1>4. Border \in S /\ <<>> \in S
    BY PiecesAre
  <1>5. \A s, t, u \in S : (s \o t) \o u = s \o (t \o u)
    BY ONLY PiecesJoin, Zenon
  <1>6. \A s \in S : s \o <<>> = s
    BY ONLY PiecesJoin, Zenon
  <1> HIDE DEF S
  <1>7. /\ Str("str", len) \in S /\ Str("font", len) \in S /\ Short("font size") \in S
        /\ Word("colour") \in S /\ Word("background") \in S
        /\ Short("margin") \in S /\ Short("padding") \in S /\ Short("wrap") \in S
    BY <1>2 DEF PieceName
  <1>8. TextRead(f, len) \in S
    BY <1>1, <1>3, <1>4, <1>7 DEF TextRead
  <1>9. (P \o When(f, 1, Str("font", len))) \o When(f, 1, Short("font size"))
        = P \o When(f, 1, Str("font", len) \o Short("font size"))
    <2>1. P \in S
      BY <1>3, <1>7
    <2>2. CASE 1 \in f
      <3>1. (P \o Str("font", len)) \o Short("font size") = P \o (Str("font", len) \o Short("font size"))
        <4> DEFINE A == Str("font", len)  B == Short("font size")
        <4>1. A \in S /\ B \in S
          BY <1>7
        <4> HIDE DEF A, B, P
        <4>2. (P \o A) \o B = P \o (A \o B)
          BY ONLY <1>5, <2>1, <4>1
        <4> QED
          BY <4>2 DEF A, B
      <3> QED
        BY <2>2, <3>1 DEF When
    <2>3. CASE 1 \notin f
      <3>1. (P \o <<>>) \o <<>> = P \o <<>>
        BY <1>4, <1>6, <2>1
      <3> QED
        BY <2>3, <3>1 DEF When
    <2> QED
      BY <2>2, <2>3
  <1>10. TextRead(f, len) = SentText(f, len)
    BY <1>9 DEF TextRead, SentText
  <1> QED
    BY <1>8, <1>10 DEF S

\* ... windows, if all of their place and title is given or none ...
LEMMA WindowPieces ==
    ASSUME NEW r, r.op = "make_window", r.len \in Nat, r.args \subseteq 0..7
    PROVE  /\ MakeRead("make_window", r) \in Seq(Piece(r.len))
           /\ r.args \cap 0..4 \in {{}, 0..4} => MakeRead("make_window", r) = SentMake(r)
  <1> DEFINE S == Seq(Piece(r.len))
             O == Octet("args")
             X == Short("x")  Y == Short("y")  W == Short("w")  H == Short("h")
             T == Str("title", r.len)
  <1>1. \A s, t \in S : s \o t \in S
    BY PiecesAre
  <1>2. \A name \in PieceName : Octet(name) \in S /\ Short(name) \in S /\ Str(name, r.len) \in S
    BY PiecesAre
  <1>3. \A bit : \A s \in S : When(r.args, bit, s) \in S
    BY PiecesAre
  <1>4. \A s, t, u \in S : (s \o t) \o u = s \o (t \o u)
    BY ONLY PiecesJoin, Zenon
  <1>5. \A s \in S : s \o <<>> = s
    BY ONLY PiecesJoin, Zenon
  <1> HIDE DEF S
  <1>6. O \in S /\ X \in S /\ Y \in S /\ W \in S /\ H \in S /\ T \in S
    BY <1>2 DEF PieceName
  <1>7. MakeRead("make_window", r)
        = ((O \o When(r.args, 0, X \o Y)) \o When(r.args, 1, W \o H)) \o When(r.args, 2, T)
    BY DEF MakeRead
  <1>8. SentMake(r)
        = ((((O \o When(r.args, 0, X)) \o When(r.args, 1, Y)) \o When(r.args, 2, W))
            \o When(r.args, 3, H)) \o When(r.args, 4, T)
    BY DEF SentMake
  <1> HIDE DEF O, X, Y, W, H, T
  <1>9. MakeRead("make_window", r) \in S
    <2>1. When(r.args, 0, X \o Y) \in S /\ When(r.args, 1, W \o H) \in S /\ When(r.args, 2, T) \in S
      BY <1>1, <1>3, <1>6
    <2>2. O \o When(r.args, 0, X \o Y) \in S
      BY <1>1, <1>6, <2>1
    <2>3. (O \o When(r.args, 0, X \o Y)) \o When(r.args, 1, W \o H) \in S
      BY <1>1, <2>1, <2>2
    <2> QED
      BY <1>1, <1>7, <2>1, <2>3
  <1>10. CASE r.args \cap 0..4 = {}
    <2>1. 0 \notin r.args /\ 1 \notin r.args /\ 2 \notin r.args /\ 3 \notin r.args /\ 4 \notin r.args
      BY <1>10
    <2>2. MakeRead("make_window", r) = O
      BY <1>5, <1>6, <1>7, <2>1 DEF When
    <2>3. SentMake(r) = O
      BY <1>5, <1>6, <1>8, <2>1 DEF When
    <2> QED
      BY <1>9, <2>2, <2>3 DEF S
  <1>11. CASE r.args \cap 0..4 = 0..4
    <2>1. 0 \in r.args /\ 1 \in r.args /\ 2 \in r.args /\ 3 \in r.args /\ 4 \in r.args
      BY <1>11
    <2>2. MakeRead("make_window", r) = ((O \o (X \o Y)) \o (W \o H)) \o T
      BY <1>7, <2>1 DEF When
    <2>3. SentMake(r) = ((((O \o X) \o Y) \o W) \o H) \o T
      BY <1>8, <2>1 DEF When
    <2>4. (O \o X) \o Y = O \o (X \o Y) /\ (O \o X) \o Y \in S
      <3>1. (O \o X) \o Y = O \o (X \o Y)
        <4>1. O \in S /\ X \in S /\ Y \in S
          BY ONLY <1>6, Zenon
        <4> QED
          BY ONLY <1>4, <4>1, SMT
      <3>2. O \o X \in S
        BY <1>1, <1>6
      <3>3. (O \o X) \o Y \in S
        BY <1>1, <1>6, <3>2
      <3> QED
        BY <3>1, <3>3
    <2>5. (((O \o X) \o Y) \o W) \o H = ((O \o X) \o Y) \o (W \o H)
      <3> DEFINE OXY == (O \o X) \o Y
      <3>1. OXY \in S /\ W \in S /\ H \in S
        BY ONLY <1>6, <2>4, Zenon
      <3> HIDE DEF OXY
      <3>2. (OXY \o W) \o H = OXY \o (W \o H)
        BY ONLY <1>4, <3>1, SMT
      <3> QED
        BY <3>2 DEF OXY
    <2> QED
      BY <1>9, <2>2, <2>3, <2>4, <2>5 DEF S
  <1>12. CASE r.args \cap 0..4 \notin {{}, 0..4}
    BY <1>9, <1>12 DEF S
  <1> QED
    BY <1>10, <1>11, <1>12

\* ... and all that is made, but for windows given in part and large grids.
LEMMA MakePieces ==
    ASSUME NEW r \in Requests, r.op \in Makes
    PROVE  /\ MakeRead(r.op, r) \in Seq(Piece(r.len))
           /\ \/ MakeRead(r.op, r) = SentMake(r)
              \/ r.op = "make_window" /\ r.args \cap 0..4 \notin {{}, 0..4}
              \/ r.op = "make_panel" /\ 0 \in r.args /\ ~r.grid.even
                 /\ (r.grid.cols >= Octets \/ r.grid.rows >= Octets)
  <1> DEFINE S == Seq(Piece(r.len))
  <1>0. r.len \in Nat /\ r.args \subseteq 0..7 /\ r.grid.cols \in Int /\ r.grid.rows \in Int /\ Octets \in Nat
    BY RequestsAssumption
  <1>1. \A s, t \in S : s \o t \in S
    BY <1>0, PiecesAre
  <1>2. \A name \in PieceName : /\ Octet(name) \in S /\ Short(name) \in S /\ Word(name) \in S
                                /\ Data(name, r.len) \in S /\ Str(name, r.len) \in S
    BY <1>0, PiecesAre
  <1>3. \A bit : \A s \in S : When(r.args, bit, s) \in S
    BY <1>0, PiecesAre
  <1>4. Border \in S
    BY <1>0, PiecesAre
  <1>5. LayoutRead(r.grid) \in S
        /\ (r.grid.even \/ (r.grid.cols < Octets /\ r.grid.rows < Octets) => LayoutRead(r.grid) = SentLayout(r.grid))
    BY <1>0, LayoutPieces
  <1>6. TextRead(r.args, r.len) \in S /\ TextRead(r.args, r.len) = SentText(r.args, r.len)
    BY <1>0, TextPieces
  <1> HIDE DEF S
  <1>7. /\ Octet("args") \in S /\ Short("x") \in S /\ Short("y") \in S /\ Short("w") \in S /\ Short("h") \in S
        /\ Short("x0") \in S /\ Short("y0") \in S /\ Short("x1") \in S /\ Short("y1") \in S
        /\ Word("colour") \in S /\ Word("x") \in S /\ Word("y") \in S /\ Word("background") \in S
    BY <1>2 DEF PieceName
  <1>8. /\ Short("margin") \in S /\ Short("padding") \in S /\ Short("wrap") \in S /\ Short("font size") \in S
        /\ Data("pix", r.len) \in S /\ Str("str", r.len) \in S /\ Str("font", r.len) \in S
    BY <1>2 DEF PieceName
  <1>9. CASE r.op = "make_window"
    BY <1>0, <1>9, WindowPieces
  <1>10. CASE r.op = "make_panel"
    <2> DEFINE Rest(head) == head \o When(r.args, 1, Word("background")) \o When(r.args, 2, Border)
                             \o When(r.args, 3, Short("margin")) \o When(r.args, 4, Short("padding"))
    <2>1. MakeRead(r.op, r) = Rest(Octet("args") \o When(r.args, 0, LayoutRead(r.grid)))
      BY <1>10 DEF MakeRead
    <2>2. SentMake(r) = Rest(Octet("args") \o When(r.args, 0, SentLayout(r.grid)))
      BY <1>10 DEF SentMake
    <2>3. MakeRead(r.op, r) \in S
      <3>1. /\ When(r.args, 0, LayoutRead(r.grid)) \in S /\ When(r.args, 1, Word("background")) \in S
            /\ When(r.args, 2, Border) \in S /\ When(r.args, 3, Short("margin")) \in S
            /\ When(r.args, 4, Short("padding")) \in S
        BY <1>3, <1>4, <1>5, <1>7, <1>8
      <3>2. \A head \in S : Rest(head) \in S
        BY <1>1, <3>1
      <3>3. Octet("args") \o When(r.args, 0, LayoutRead(r.grid)) \in S
        BY <1>1, <1>7, <3>1
      <3> HIDE DEF Rest
      <3> QED
        BY <2>1, <3>2, <3>3
    <2> HIDE DEF Rest
    <2>4. 0 \notin r.args \/ LayoutRead(r.grid) = SentLayout(r.grid) => MakeRead(r.op, r) = SentMake(r)
      BY <2>1, <2>2 DEF When
    <2>5. 0 \notin r.args \/ LayoutRead(r.grid) = SentLayout(r.grid)
          \/ (~r.grid.even /\ (r.grid.cols >= Octets \/ r.grid.rows >= Octets))
      BY <1>0, <1>5
    <2> QED
      BY <1>10, <2>3, <2>4, <2>5 DEF S
  <1>11. CASE r.op \in {"make_button", "make_label"}
    <2>1. MakeRead(r.op, r) = Octet("args") \o TextRead(r.args, r.len)
      BY <1>11 DEF MakeRead
    <2>2. SentMake(r) = Octet("args") \o SentText(r.args, r.len)
      BY <1>11 DEF SentMake
    <2> QED
      BY <1>1, <1>6, <1>7, <2>1, <2>2 DEF S
  <1>12. CASE r.op = "make_canvas"
    <2>1. MakeRead(r.op, r) = SentMake(r) /\ MakeRead(r.op, r) = Short("w") \o Short("h")
      BY <1>12 DEF MakeRead, SentMake
    <2> QED
      BY <1>1, <1>7, <2>1 DEF S
  <1>13. CASE r.op = "make_picture"
    <2>1. MakeRead(r.op, r) = SentMake(r) /\ MakeRead(r.op, r)
          = ((Octet("args") \o Short("w")) \o Short("h")) \o When(r.args, 0, Data("pix", r.len))
      BY <1>13 DEF MakeRead, SentMake
    <2>2. When(r.args, 0, Data("pix", r.len)) \in S
      BY <1>3, <1>8
    <2>3. MakeRead(r.op, r) \in S
      BY <1>1, <1>7, <2>1, <2>2
    <2> QED
      BY <2>1, <2>3 DEF S
  <1>14. CASE r.op \in {"make_rectangle", "make_ellipse"}
    <2>1. MakeRead(r.op, r) = Octet("args") \o Short("x") \o Short("y") \o Short("w") \o Short("h")
                              \o Word("colour") \o When(r.args, 0, Border)
      BY <1>14 DEF MakeRead
    <2>2. SentMake(r) = MakeRead(r.op, r)
      BY <1>14, <2>1 DEF SentMake
    <2>3. MakeRead(r.op, r) \in S
      <3>1. When(r.args, 0, Border) \in S
        BY <1>3, <1>4
      <3>2. Octet("args") \o Short("x") \o Short("y") \o Short("w") \in S
        BY <1>1, <1>7
      <3>3. Octet("args") \o Short("x") \o Short("y") \o Short("w") \o Short("h") \o Word("colour") \in S
        BY <1>1, <1>7, <3>2
      <3> QED
        BY <1>1, <2>1, <3>1, <3>3
    <2> QED
      BY <2>2, <2>3 DEF S
  <1>15. CASE r.op = "make_line"
    <2>1. MakeRead(r.op, r) = Short("x0") \o Short("y0") \o Short("x1") \o Short("y1") \o Word("colour")
      BY <1>15 DEF MakeRead
    <2>2. SentMake(r) = MakeRead(r.op, r)
      BY <1>15, <2>1 DEF SentMake
    <2>3. MakeRead(r.op, r) \in S
      BY <1>1, <1>7, <2>1
    <2> QED
      BY <2>2, <2>3 DEF S
  <1>16. CASE r.op = "make_text"
    <2>1. MakeRead(r.op, r) = Str("str", r.len) \o Str("font", r.len) \o Short("font size") \o Word("colour")
                              \o Word("x") \o Word("y") \o Short("wrap")
      BY <1>16 DEF MakeRead
    <2>2. SentMake(r) = MakeRead(r.op, r)
      BY <1>16, <2>1 DEF SentMake
    <2>3. MakeRead(r.op, r) \in S
      <3>1. Str("str", r.len) \o Str("font", r.len) \o Short("font size") \o Word("colour") \in S
        BY <1>1, <1>7, <1>8
      <3>2. (Str("str", r.len) \o Str("font", r.len) \o Short("font size") \o Word("colour"))
            \o Word("x") \o Word("y") \in S
        BY <1>1, <1>7, <3>1
      <3> QED
        BY <1>1, <1>8, <2>1, <3>2
    <2> QED
      BY <2>2, <2>3 DEF S
  <1> QED
    BY <1>9, <1>10, <1>11, <1>12, <1>13, <1>14, <1>15, <1>16 DEF Makes

\* While a handler runs for a request in step, it is the one that was meant.
LEMMA RunsIs ==
    ASSUME TypeOK, Served, NEW h, Runs(h)
    PROVE  /\ call \in Requests
           /\ h \notin EventType => call.op = h
           /\ h \in EventType => call.op = "add_event_handler" /\ call.type = h /\ HandlerAction(call) = call.action
  <1>1. call \in Requests /\ h = Handler(call) /\ InStep(call)
    BY DEF Runs, TypeOK, Served
  <1>2. ~(call.op = "add_event_handler" /\ call.type = "halt")
    BY <1>1, HaltIsOut
  <1>3. CASE call.op = "add_event_handler"
    <2>1. h = call.type /\ call.type \in EventType /\ HandlerAction(call) = call.action
      BY <1>1, <1>2, <1>3, HandlerIs
    <2> QED
      BY <1>1, <1>3, <2>1
  <1>4. CASE call.op # "add_event_handler"
    <2>1. h = call.op
      BY <1>1, <1>4, HandlerIs
    <2>2. h \notin EventType
      BY <1>1, <1>4, <2>1, OpIs, NamesAre
    <2> QED
      BY <1>1, <2>1, <2>2
  <1> QED
    BY <1>3, <1>4

-----------------------------------------------------------------------------
(* What a request names *)

\* A handler that is not refused has the objects it needs.
LEMMA RefusalIs ==
    ASSUME NEW needs, NEW ids, Len(needs) \in Nat,
           \A i \in 1..Len(needs) : needs[i].status \in 1..4
    PROVE  /\ Refusal(needs, ids) \in 0..4
           /\ Refusal(needs, ids) = 0 => \A i \in 1..Len(needs) : IsThere(needs[i], ids)
  <1> DEFINE I == {i \in 1..Len(needs) : ~IsThere(needs[i], ids)}
             n == IF I # {} THEN Min(I) ELSE 0
  <1>1. Refusal(needs, ids) = IF n = 0 THEN 0 ELSE needs[n].status
    BY DEF Refusal, SelectInSeq
  <1>2. CASE I = {}
    BY <1>1, <1>2
  <1>3. CASE I # {}
    <2>1. Min(I) \in I
      <3>1. I \subseteq Nat
        OBVIOUS
      <3> QED
        BY <1>3, <3>1, LeastIs
    <2>2. n \in 1..Len(needs) /\ n # 0
      BY <1>3, <2>1
    <2> HIDE DEF n
    <2>3. Refusal(needs, ids) = needs[n].status
      BY <1>1, <2>2
    <2> QED
      BY <2>2, <2>3
  <1> QED
    BY <1>2, <1>3

\* Every request but those on shapes looks for a widget first, and so does
\* every action of a handler.
LEMMA NeedsAre ==
    ASSUME NEW h \in Updates \cup {"destroy_widget", "destroy_shape"}
    PROVE  /\ Len(Needs(h)) \in Nat /\ \A i \in 1..Len(Needs(h)) : Needs(h)[i].status \in 1..4
           /\ Len(Needs(h)) >= 1 /\ Needs(h)[1].at = 1
           /\ IF h = "destroy_shape" THEN Needs(h)[1].of = "shape" /\ Needs(h)[1].kinds = {"shape"}
              ELSE Needs(h)[1].of = "widget" /\ Needs(h)[1].kinds \subseteq Kind
  <1> DEFINE Shaped(s) == \/ \E k \in SUBSET Kind, n \in 1..4 : s = <<Widget(1, k, n)>>
                          \/ \E k \in SUBSET Kind, n, m \in 1..4, k2 \in SUBSET Kind :
                                s = <<Widget(1, k, n), Widget(2, k2, m)>>
                          \/ \E k \in SUBSET Kind, n, m \in 1..4 : s = <<Widget(1, k, n), Shape(2, m)>>
  <1>1. Container \subseteq Kind /\ {"canvas"} \subseteq Kind /\ {"picture"} \subseteq Kind
        /\ {"window"} \subseteq Kind /\ {"label", "button"} \subseteq Kind
    BY DEF Container, Kind
  <1>2. CASE h = "destroy_shape"
    <2>1. Needs(h) = <<Shape(1, 1)>>
      BY <1>2 DEF Needs
    <2> QED
      BY <1>2, <2>1 DEF Shape
  <1>3. CASE h # "destroy_shape"
    <2>1. Shaped(Needs(h))
      <3>1. h \in {"destroy_widget", "rm_widget", "rm_child", "fill_canvas", "set_picture_data",
                   "open_window", "close_window", "set_str"}
            => \E k \in SUBSET Kind, n \in 1..4 : Needs(h) = <<Widget(1, k, n)>>
        BY <1>1 DEF Needs
      <3>2. h = "add_widget" => Needs(h) = <<Widget(1, Container, 1), Widget(2, Kind, 2)>>
        BY DEF Needs
      <3>3. h = "draw_shape" => Needs(h) = <<Widget(1, {"canvas"}, 1), Shape(2, 2)>>
        BY DEF Needs
      <3> QED
        BY <1>1, <1>3, <3>1, <3>2, <3>3 DEF Updates
    <2>2. ASSUME NEW s, Shaped(s)
          PROVE  /\ Len(s) \in Nat /\ \A i \in 1..Len(s) : s[i].status \in 1..4
                 /\ Len(s) >= 1 /\ s[1].at = 1 /\ s[1].of = "widget" /\ s[1].kinds \subseteq Kind
      <3>1. CASE \E k \in SUBSET Kind, n \in 1..4 : s = <<Widget(1, k, n)>>
        BY <3>1 DEF Widget
      <3>2. CASE \E k \in SUBSET Kind, n, m \in 1..4, k2 \in SUBSET Kind :
                    s = <<Widget(1, k, n), Widget(2, k2, m)>>
        BY <3>2 DEF Widget
      <3>3. CASE \E k \in SUBSET Kind, n, m \in 1..4 : s = <<Widget(1, k, n), Shape(2, m)>>
        BY <3>3 DEF Widget, Shape
      <3> QED
        BY <2>2, <3>1, <3>2, <3>3
    <2> HIDE DEF Shaped
    <2> QED
      BY <1>3, <2>1, <2>2
  <1> QED
    BY <1>2, <1>3

\* What is needed to add a handler: what its action needs, and the widget.
LEMMA HandlerNeedsAre ==
    ASSUME NEW a \in Updates \cup {"notify_client"}
    PROVE  LET s == Append(HandlerNeeds(a), Widget(3, Kind, 1)) IN
           /\ Len(s) \in Nat /\ \A i \in 1..Len(s) : s[i].status \in 1..4
           /\ Len(s) >= 1 /\ s[Len(s)] = Widget(3, Kind, 1)
           /\ a # "notify_client" => s[1].at = 1 /\ s[1].of = "widget" /\ s[1].kinds \subseteq Kind
  <1> DEFINE Shaped(s) == \/ \E k \in SUBSET Kind : s = <<Widget(1, k, 3)>>
                          \/ \E k, k2 \in SUBSET Kind : s = <<Widget(1, k, 3), Widget(2, k2, 4)>>
  <1>1. Container \subseteq Kind /\ {"canvas"} \subseteq Kind /\ {"picture"} \subseteq Kind
        /\ {"window"} \subseteq Kind /\ {"label", "button"} \subseteq Kind /\ {} \subseteq Kind
    BY DEF Container, Kind
  <1>2. CASE a = "notify_client"
    <2>1. HandlerNeeds(a) = <<>>
      BY <1>2 DEF HandlerNeeds
    <2>2. Append(HandlerNeeds(a), Widget(3, Kind, 1)) = <<Widget(3, Kind, 1)>>
      BY <2>1
    <2> QED
      BY <1>2, <2>2 DEF Widget
  <1>3. CASE a # "notify_client"
    <2>1. Shaped(HandlerNeeds(a))
      <3>1. a \in {"rm_widget", "rm_child", "fill_canvas", "set_picture_data",
                   "open_window", "close_window", "set_str"}
            => \E k \in SUBSET Kind : HandlerNeeds(a) = <<Widget(1, k, 3)>>
        BY <1>1 DEF HandlerNeeds
      <3>2. a = "add_widget" => HandlerNeeds(a) = <<Widget(1, Container, 3), Widget(2, Kind, 4)>>
        BY DEF HandlerNeeds
      <3>3. a = "draw_shape" => HandlerNeeds(a) = <<Widget(1, {"canvas"}, 3), Widget(2, {}, 4)>>
        BY DEF HandlerNeeds
      <3> QED
        BY <1>1, <1>3, <3>1, <3>2, <3>3 DEF Updates
    <2>2. ASSUME NEW s, Shaped(s)
          PROVE  LET t == Append(s, Widget(3, Kind, 1)) IN
                 /\ Len(t) \in Nat /\ \A i \in 1..Len(t) : t[i].status \in 1..4
                 /\ Len(t) >= 1 /\ t[Len(t)] = Widget(3, Kind, 1)
                 /\ t[1].at = 1 /\ t[1].of = "widget" /\ t[1].kinds \subseteq Kind
      <3>1. CASE \E k \in SUBSET Kind : s = <<Widget(1, k, 3)>>
        BY <3>1 DEF Widget
      <3>2. CASE \E k, k2 \in SUBSET Kind : s = <<Widget(1, k, 3), Widget(2, k2, 4)>>
        BY <3>2 DEF Widget
      <3> QED
        BY <2>2, <3>1, <3>2
    <2> QED
      BY <1>3, <2>1, <2>2
  <1> QED
    BY <1>2, <1>3

-----------------------------------------------------------------------------
(* The steps *)

\* The kinds of what is made.
LEMMA KindsAre ==
    /\ \A h \in MakesWidget : h \in Makes /\ h \notin EventType /\ KindOf[h] \in Kind
    /\ \A h \in MakesShape : h \in Makes /\ h \notin EventType /\ KindOf[h] = "shape"
    /\ "shape" \notin Kind /\ "gone" \notin Kind
    /\ {"make_window", "make_button", "make_label"} \subseteq MakesWidget
  <1>1. Makes \cap EventType = {}
    BY NamesAre
  <1>2. "shape" \notin Kind /\ "gone" \notin Kind
    BY DEF Kind
  <1>3. {"make_window", "make_button", "make_label"} \subseteq MakesWidget
    BY DEF MakesWidget, KindOf, Makes, Kind
  <1> QED
    BY <1>1, <1>2, <1>3 DEF MakesWidget, MakesShape

\* Neither side has anything at the beginning.
LEMMA RequestsInit == Init => RequestsInv
  <1> SUFFICES ASSUME Init PROVE RequestsInv
    OBVIOUS
  <1>1. MaxId \in Nat /\ MaxId >= 1 /\ None \notin Requests
    BY RequestsAssumption DEF Plain
  <1>2. pc = "idle" /\ call = None /\ handler = None /\ status = 0 /\ newId = None /\ effect = None
        /\ nextWid = 1 /\ nextSid = 1
    BY DEF Init
  <1>3. widgets = [i \in Id |-> None] /\ shapes = [i \in Id |-> None]
        /\ myWidgets = [i \in Id |-> None] /\ myShapes = [i \in Id |-> None]
    BY DEF Init
  <1>u. unread \in Seq(Plain)
    BY DEF Init
  <1>4. TypeOK
    <2>1. nextWid \in 1..MaxId+1 /\ nextSid \in 1..MaxId+1
      BY <1>1, <1>2
    <2>2. widgets \in [Id -> Kind \cup {None}] /\ shapes \in [Id -> {"shape", None}]
          /\ myWidgets \in [Id -> Kind \cup {None, "gone"}] /\ myShapes \in [Id -> {"shape", None, "gone"}]
      BY <1>3
    <2> QED
      BY <1>2, <2>1, <2>2, <1>u DEF TypeOK
  <1>5. Agreed
    BY <1>2, <1>3 DEF Agreed, Mirror
  <1>6. Fresh
    BY <1>2, <1>3 DEF Fresh
  <1> QED
    BY <1>2, <1>4, <1>5, <1>6 DEF RequestsInv, Served, EffectAsAsked

\* What happens before a handler answers changes nothing that they know of.
LEMMA QuietStep ==
    ASSUME RequestsInv, pc # "answered", UNCHANGED <<answerVars, serverVars, programVars>>,
           pc' \in {"sent", "read", "lost", "dropped", "down"},
           call' \in Requests,
           handler' # None => pc' \in {"read", "answered", "down"},
           Served'
    PROVE  RequestsInv'
  <1>0. TypeOK /\ Served /\ (unread = <<>> => Agreed /\ Fresh)
    BY DEF RequestsInv
  <1>1. UNCHANGED <<status, newId, effect, widgets, shapes, nextWid, nextSid, myWidgets, myShapes, unread>>
        /\ pc' # "answered" /\ newId = None
    BY <1>0 DEF answerVars, serverVars, programVars, Served
  <1>2. call' # None
    BY RequestsAssumption
  <1>3. TypeOK'
    BY <1>0, <1>1, <1>2 DEF TypeOK
  <1>4. unread = <<>> => Agreed'
    BY <1>0, <1>1 DEF Agreed, Mirror
  <1>5. unread = <<>> => Fresh'
    BY <1>0, <1>1 DEF Fresh
  <1> QED
    BY <1>1, <1>3, <1>4, <1>5 DEF RequestsInv, EffectAsAsked

\* The invariant is kept by a call that writes its request ...
LEMMA AskInv ==
    ASSUME RequestsInv, NEW r \in Requests, Ask(r)
    PROVE  RequestsInv'
  <1>1. Served' /\ handler' = None
    BY DEF Ask, RequestsInv, Served, TypeOK, answerVars, serverVars
  <1> QED
    BY <1>1, QuietStep DEF Ask

\* ... by the server reading it, or failing to ...
LEMMA ReadInv ==
    ASSUME RequestsInv, Misread \/ DropClient \/ Understand \/ Uncaught
    PROVE  RequestsInv'
  <1>0. TypeOK /\ Served
    BY DEF RequestsInv
  <1>1. CASE Misread
    <2>1. Served' /\ call \in Requests /\ handler = None
      BY <1>0, <1>1 DEF Misread, Served, TypeOK, answerVars, serverVars, InStep, Read, Sent
    <2> QED
      BY <1>0, <1>1, <2>1, QuietStep DEF Misread
  <1>2. CASE DropClient
    <2>1. Served' /\ call \in Requests /\ handler = None
      BY <1>0, <1>2 DEF DropClient, Served, TypeOK, answerVars, serverVars
    <2> QED
      BY <1>0, <1>2, <2>1, QuietStep DEF DropClient
  <1>3. CASE Understand
    <2>1. Served' /\ call \in Requests
      BY <1>0, <1>3 DEF Understand, Served, TypeOK, answerVars, serverVars
    <2> QED
      BY <1>0, <1>3, <2>1, QuietStep DEF Understand
  <1>4. CASE Uncaught
    <2>1. pc = "read" /\ pc' = "down"
          /\ UNCHANGED <<call, handler, answerVars, serverVars, programVars>>
      BY <1>4 DEF Uncaught, Runs
    <2>2. Served' /\ call \in Requests
      BY <1>0, <2>1 DEF Served, TypeOK, answerVars, serverVars
    <2> QED
      BY <2>1, <2>2, QuietStep
  <1> QED
    BY <1>1, <1>2, <1>3, <1>4

\* An answer without an id, after which the program notes nothing.
LEMMA PlainAnswer ==
    ASSUME RequestsInv, pc = "read", NEW s \in 0..4, NEW what, Answer(s, None, what),
           UNCHANGED serverVars, s # 0 \/ call.op \notin {"destroy_widget", "destroy_shape"},
           handler \notin Makes, call.op \notin Makes, EffectAsAsked'
    PROVE  RequestsInv'
  <1>0. TypeOK /\ Served /\ (unread = <<>> => Agreed /\ Fresh)
    BY DEF RequestsInv
  <1>1. /\ pc' = "answered" /\ status' = s /\ newId' = None
        /\ UNCHANGED <<call, handler, myWidgets, myShapes, unread, widgets, shapes, nextWid, nextSid>>
    BY DEF Answer, programVars, serverVars
  <1>2. TypeOK'
    BY <1>0, <1>1 DEF TypeOK
  <1>3. ToldWidgets' = myWidgets /\ ToldShapes' = myShapes
    BY <1>1 DEF ToldWidgets, ToldShapes
  <1>4. unread = <<>> => Agreed'
    BY <1>0, <1>1, <1>3 DEF Agreed, Mirror
  <1>5. unread = <<>> => Fresh'
    BY <1>0, <1>1, <1>3 DEF Fresh
  <1>6. Served'
    BY <1>1 DEF Served
  <1> QED
    BY <1>1, <1>2, <1>4, <1>5, <1>6 DEF RequestsInv

\* ... by the handlers that push an update ...
LEMMA UpdateInv ==
    ASSUME RequestsInv, NEW h, Update(h)
    PROVE  RequestsInv'
  <1> DEFINE s == Refusal(Needs(h), call.ids)
  <1>0. TypeOK /\ Served
    BY DEF RequestsInv
  <1>1. h \in Updates /\ Runs(h) /\ pc = "read" /\ UNCHANGED serverVars
        /\ Answer(s, None, IF s = 0 THEN Effect(h, None, None, call.ids) ELSE None)
    BY DEF Update, Runs
  <1>2. call \in Requests /\ call.op = h
    BY <1>0, <1>1, RunsIs, NamesAre
  <1>3. call.type = None /\ call.action = None /\ h \notin {"destroy_widget", "destroy_shape", "add_event_handler"}
    BY <1>1, <1>2, OpIs, NamesAre
  <1>4. s \in 0..4 /\ (s = 0 => \A i \in 1..Len(Needs(h)) : IsThere(Needs(h)[i], call.ids))
    BY <1>1, NeedsAre, RefusalIs
  <1>5. s = 0 => widgets[call.ids[1]] \in Kind
    <2>1. Len(Needs(h)) \in Nat /\ Len(Needs(h)) >= 1 /\ Needs(h)[1].at = 1
          /\ Needs(h)[1].of = "widget" /\ Needs(h)[1].kinds \subseteq Kind
      BY <1>1, <1>3, NeedsAre
    <2>2. s = 0 => IsThere(Needs(h)[1], call.ids)
      BY <1>4, <2>1
    <2> QED
      BY <2>1, <2>2 DEF IsThere
  <1>6. EffectAsAsked'
    <2>1. UNCHANGED <<call, widgets>> /\ status' = s /\ newId' = None
          /\ effect' = IF s = 0 THEN Effect(h, None, None, call.ids) ELSE None
      BY <1>1 DEF Answer, serverVars
    <2>2. None \notin Kind
      BY RequestsAssumption
    <2> HIDE DEF s
    <2> QED
      BY <1>2, <1>3, <1>5, <2>1, <2>2 DEF EffectAsAsked
  <1>7. handler \notin Makes /\ call.op \notin Makes
    BY <1>1, <1>2, NamesAre DEF Runs
  <1> HIDE DEF s
  <1> QED
    BY <1>1, <1>2, <1>3, <1>4, <1>6, <1>7, PlainAnswer

\* ... by the one that has no parent to remove from ...
LEMMA OrphanInv ==
    ASSUME RequestsInv, RmOrphan
    PROVE  RequestsInv'
  <1>1. pc = "read" /\ Answer(1, None, None) /\ UNCHANGED serverVars
    BY DEF RmOrphan, Runs
  <1>2. EffectAsAsked'
    BY <1>1 DEF Answer, EffectAsAsked
  <1>3. handler \notin Makes /\ call.op \notin Makes
    <2>1. TypeOK /\ Served /\ Runs("rm_widget")
      BY DEF RequestsInv, RmOrphan
    <2>2. call.op = "rm_widget" /\ handler = "rm_widget"
      BY <1>1, <2>1, RunsIs, NamesAre DEF Runs
    <2> QED
      BY <2>2 DEF Makes
  <1> QED
    BY <1>1, <1>2, <1>3, PlainAnswer

\* ... by those that add handlers of events ...
LEMMA AddHandlerInv ==
    ASSUME RequestsInv, NEW h \in EventType, AddHandler(h)
    PROVE  RequestsInv'
  <1> DEFINE n == Append(HandlerNeeds(HandlerAction(call)), Widget(3, Kind, 1))
             s == Refusal(n, call.ids)
  <1>0. TypeOK /\ Served
    BY DEF RequestsInv
  <1>1. Runs(h) /\ pc = "read" /\ UNCHANGED serverVars
        /\ Answer(s, None, IF s = 0 THEN Effect("add_event_handler", h, HandlerAction(call), call.ids)
                           ELSE None)
    BY DEF AddHandler, Runs
  <1>2. call \in Requests /\ call.op = "add_event_handler" /\ call.type = h /\ HandlerAction(call) = call.action
    BY <1>0, <1>1, RunsIs
  <1>3. call.action \in Updates \cup {"notify_client"}
    BY <1>2, OpIs
  <1>4. /\ Len(n) \in Nat /\ \A i \in 1..Len(n) : n[i].status \in 1..4
        /\ Len(n) >= 1 /\ n[Len(n)] = Widget(3, Kind, 1)
        /\ call.action # "notify_client" => n[1].at = 1 /\ n[1].of = "widget" /\ n[1].kinds \subseteq Kind
    BY <1>2, <1>3, HandlerNeedsAre
  <1> HIDE DEF n
  <1>5. s \in 0..4 /\ (s = 0 => \A i \in 1..Len(n) : IsThere(n[i], call.ids))
    BY <1>4, RefusalIs
  <1>6. s = 0 => /\ widgets[call.ids[3]] \in Kind
                 /\ call.action # "notify_client" => widgets[call.ids[1]] \in Kind
    <2>1. s = 0 => IsThere(n[Len(n)], call.ids) /\ IsThere(n[1], call.ids)
      BY <1>4, <1>5
    <2>2. s = 0 => widgets[call.ids[3]] \in Kind
      BY <1>4, <2>1 DEF IsThere, Widget
    <2>3. s = 0 /\ call.action # "notify_client" => widgets[call.ids[1]] \in Kind
      BY <1>4, <2>1 DEF IsThere
    <2> QED
      BY <2>2, <2>3
  <1> HIDE DEF s
  <1>7. EffectAsAsked'
    <2>1. UNCHANGED <<call, widgets>> /\ status' = s /\ newId' = None
          /\ effect' = IF s = 0 THEN Effect("add_event_handler", h, HandlerAction(call), call.ids) ELSE None
      BY <1>1 DEF Answer, serverVars
    <2>2. None \notin Kind
      BY RequestsAssumption
    <2> QED
      BY <1>2, <1>6, <2>1, <2>2 DEF EffectAsAsked
  <1>8. handler \notin Makes /\ call.op \notin Makes
    BY <1>1, <1>2, NamesAre DEF Runs
  <1> QED
    BY <1>1, <1>2, <1>5, <1>7, <1>8, PlainAnswer

\* ... that destroy ...
LEMMA DestroyInv ==
    ASSUME RequestsInv, NEW h, Destroy(h)
    PROVE  RequestsInv'
  <1> DEFINE s == Refusal(Needs(h), call.ids)
             id == call.ids[1]
  <1>0. TypeOK /\ Served /\ (unread = <<>> => Agreed /\ Fresh)
    BY DEF RequestsInv
  <1>1. h \in {"destroy_widget", "destroy_shape"} /\ Runs(h) /\ pc = "read"
    BY DEF Destroy, Runs
  <1>2. call \in Requests /\ call.op = h
    BY <1>0, <1>1, RunsIs, NamesAre
  <1>3. id \in Id
    BY <1>1, <1>2, OpIs, NamesAre
  <1>4. s \in 0..4 /\ (s = 0 => \A i \in 1..Len(Needs(h)) : IsThere(Needs(h)[i], call.ids))
    BY <1>1, NeedsAre, RefusalIs
  <1>5. s = 0 => IF h = "destroy_widget" THEN widgets[id] # None ELSE shapes[id] # None
    <2>1. Len(Needs(h)) \in Nat /\ Len(Needs(h)) >= 1 /\ Needs(h)[1].at = 1
          /\ IF h = "destroy_shape" THEN Needs(h)[1].of = "shape" /\ Needs(h)[1].kinds = {"shape"}
             ELSE Needs(h)[1].of = "widget" /\ Needs(h)[1].kinds \subseteq Kind
      BY <1>1, NeedsAre
    <2>2. s = 0 => IsThere(Needs(h)[1], call.ids)
      BY <1>4, <2>1
    <2>3. None \notin Kind /\ None # "shape"
      BY RequestsAssumption
    <2> QED
      BY <1>1, <2>1, <2>2, <2>3 DEF IsThere
  <1>6. Answer(s, None, None)
        /\ widgets' = (IF s = 0 /\ h = "destroy_widget" THEN [widgets EXCEPT ![id] = None] ELSE widgets)
        /\ shapes' = (IF s = 0 /\ h = "destroy_shape" THEN [shapes EXCEPT ![id] = None] ELSE shapes)
        /\ UNCHANGED <<nextWid, nextSid>>
    BY DEF Destroy
  <1> HIDE DEF s, id
  <1>7. /\ pc' = "answered" /\ status' = s /\ newId' = None /\ effect' = None
        /\ UNCHANGED <<call, handler, myWidgets, myShapes, unread>>
    BY <1>6 DEF Answer, programVars
  <1>8. TypeOK'
    <2>1. widgets' \in [Id -> Kind \cup {None}] /\ shapes' \in [Id -> {"shape", None}]
      BY <1>0, <1>3, <1>6 DEF TypeOK
    <2> QED
      BY <1>0, <1>1, <1>4, <1>6, <1>7, <2>1 DEF TypeOK
  <1>9. ToldWidgets' = (IF s = 0 /\ h = "destroy_widget" THEN [myWidgets EXCEPT ![id] = "gone"] ELSE myWidgets)
        /\ ToldShapes' = (IF s = 0 /\ h = "destroy_shape" THEN [myShapes EXCEPT ![id] = "gone"] ELSE myShapes)
    BY <1>2, <1>3, <1>7 DEF ToldWidgets, ToldShapes, Noted, id
  <1>10. unread = <<>> => Mirror(widgets, myWidgets) /\ Mirror(shapes, myShapes)
    BY <1>0, <1>1 DEF Agreed
  <1>m. widgets \in [Id -> Kind \cup {None}] /\ shapes \in [Id -> {"shape", None}]
        /\ myWidgets \in [Id -> Kind \cup {None, "gone"}] /\ myShapes \in [Id -> {"shape", None, "gone"}]
    BY <1>0 DEF TypeOK
  <1>11. unread = <<>> => Agreed'
    <2> SUFFICES ASSUME unread = <<>> PROVE Agreed'
      OBVIOUS
    <2>1. Mirror(widgets', ToldWidgets')
      BY <1>3, <1>6, <1>9, <1>10, <1>m DEF Mirror
    <2>2. Mirror(shapes', ToldShapes')
      BY <1>3, <1>6, <1>9, <1>10, <1>m DEF Mirror
    <2> QED
      BY <1>7, <2>1, <2>2 DEF Agreed
  <1>12. unread = <<>> => Fresh'
    <2> SUFFICES ASSUME unread = <<>> PROVE Fresh'
      OBVIOUS
    <2>0. /\ \A i \in Id : i >= nextWid => myWidgets[i] = None
          /\ \A i \in Id : i >= nextSid => myShapes[i] = None
      BY <1>0 DEF Fresh
    <2>a. None # "gone"
      BY RequestsAssumption
    <2>1. \A i \in Id : i >= nextWid => ToldWidgets'[i] = None
      BY <1>3, <1>5, <1>9, <1>10, <1>m, <2>0, <2>a DEF Mirror
    <2>2. \A i \in Id : i >= nextSid => ToldShapes'[i] = None
      BY <1>1, <1>3, <1>5, <1>9, <1>10, <1>m, <2>0, <2>a DEF Mirror
    <2> QED
      BY <1>6, <1>7, <2>0, <2>1, <2>2 DEF Fresh
  <1>13. EffectAsAsked'
    BY <1>1, <1>2, <1>7, NamesAre DEF EffectAsAsked
  <1>14. Served'
    BY <1>1, <1>2, <1>7, NamesAre DEF Served, Runs
  <1> QED
    BY <1>7, <1>8, <1>11, <1>12, <1>13, <1>14 DEF RequestsInv

\* ... that make widgets ...
LEMMA MakeWidgetInv ==
    ASSUME RequestsInv, NEW h \in MakesWidget, MakeWidget(h)
    PROVE  RequestsInv'
  <1> DEFINE kind == KindOf[h]
             new == [kind |-> kind, id |-> nextWid]
  <1>0. TypeOK /\ Served /\ (unread = <<>> => Agreed /\ Fresh)
    BY DEF RequestsInv
  <1>1. Runs(h) /\ pc = "read" /\ h \in Makes /\ h \notin EventType /\ kind \in Kind /\ kind # "shape"
    BY KindsAre DEF MakeWidget, Runs
  <1>2. call \in Requests /\ call.op = h
    BY <1>0, <1>1, RunsIs
  <1>3. nextWid \in Id /\ nextSid \in Id /\ MaxId \in Nat
    <2>1. nextWid <= MaxId /\ nextSid <= MaxId
      BY <1>0, <1>1, <1>2 DEF Served
    <2> QED
      BY <1>0, <2>1, RequestsAssumption DEF TypeOK, Id, Plain
  <1>4. widgets' = [widgets EXCEPT ![nextWid] = kind] /\ TakeWid(kind) /\ TakeSids
        /\ Answer(0, new, None) /\ UNCHANGED shapes
    BY DEF MakeWidget
  <1>5. new \in [kind : Kind \cup {"shape"}, id : Id] /\ new # None /\ new.kind = kind /\ new.id = nextWid
    BY <1>1, <1>3, RequestsAssumption
  <1> HIDE DEF kind, new
  <1>6. nextWid' \in nextWid+1..MaxId+1 /\ nextSid' \in nextSid..MaxId+1
    BY <1>3, <1>4 DEF TakeWid, TakeSids, Id
  <1>7. /\ pc' = "answered" /\ status' = 0 /\ newId' = new /\ effect' = None
        /\ UNCHANGED <<call, handler, myWidgets, myShapes, unread>>
    BY <1>4 DEF Answer, programVars
  <1>m. widgets \in [Id -> Kind \cup {None}] /\ shapes \in [Id -> {"shape", None}]
        /\ myWidgets \in [Id -> Kind \cup {None, "gone"}] /\ myShapes \in [Id -> {"shape", None, "gone"}]
    BY <1>0 DEF TypeOK
  <1>8. TypeOK'
    <2>1. widgets' \in [Id -> Kind \cup {None}]
      BY <1>1, <1>3, <1>4, <1>m
    <2>2. nextWid' \in 1..MaxId+1 /\ nextSid' \in 1..MaxId+1
      BY <1>3, <1>6 DEF Id
    <2> QED
      BY <1>0, <1>1, <1>4, <1>5, <1>7, <2>1, <2>2 DEF TypeOK
  <1>9. ToldWidgets' = [myWidgets EXCEPT ![nextWid] = kind] /\ ToldShapes' = myShapes
    <2>1. call.op # "destroy_shape"
      BY <1>1, <1>2, NamesAre
    <2> QED
      BY <1>1, <1>2, <1>5, <1>7, <2>1 DEF ToldWidgets, ToldShapes, Noted
  <1>10. unread = <<>> => Mirror(widgets, myWidgets) /\ Mirror(shapes, myShapes)
    BY <1>0, <1>1 DEF Agreed
  <1>11. unread = <<>> => Agreed'
    <2> SUFFICES ASSUME unread = <<>> PROVE Agreed'
      OBVIOUS
    <2>1. kind # "gone"
      BY <1>1, KindsAre
    <2>2. Mirror(widgets', ToldWidgets')
      BY <1>3, <1>4, <1>9, <1>10, <1>m, <2>1 DEF Mirror
    <2>3. Mirror(shapes', ToldShapes')
      BY <1>4, <1>9, <1>10 DEF Mirror
    <2> QED
      BY <1>7, <2>2, <2>3 DEF Agreed
  <1>12. unread = <<>> => Fresh'
    <2> SUFFICES ASSUME unread = <<>> PROVE Fresh'
      OBVIOUS
    <2>1. /\ \A i \in Id : i >= nextWid => myWidgets[i] = None
          /\ \A i \in Id : i >= nextSid => myShapes[i] = None
      BY <1>0 DEF Fresh
    <2>2. \A i \in Id : i >= nextWid' => i >= nextWid /\ i # nextWid
      BY <1>3, <1>6 DEF Id
    <2>3. \A i \in Id : i >= nextSid' => i >= nextSid
      BY <1>3, <1>6 DEF Id
    <2>4. \A i \in Id : i >= nextWid' => ToldWidgets'[i] = None
      BY <1>3, <1>9, <1>m, <2>1, <2>2
    <2>5. myWidgets[nextWid] = None
      BY <1>3, <2>1 DEF Id
    <2> QED
      BY <1>1, <1>5, <1>7, <1>9, <2>1, <2>2, <2>3, <2>4, <2>5 DEF Fresh
  <1>13. EffectAsAsked'
    BY <1>1, <1>2, <1>7, NamesAre DEF EffectAsAsked
  <1>14. Served'
    BY <1>1, <1>2, <1>5, <1>7 DEF Served, Runs, kind
  <1> QED
    BY <1>7, <1>8, <1>11, <1>12, <1>13, <1>14 DEF RequestsInv

\* ... and shapes ...
LEMMA MakeShapeInv ==
    ASSUME RequestsInv, NEW h \in MakesShape, MakeShape(h)
    PROVE  RequestsInv'
  <1> DEFINE kind == KindOf[h]
             new == [kind |-> kind, id |-> nextSid]
  <1>0. TypeOK /\ Served /\ (unread = <<>> => Agreed /\ Fresh)
    BY DEF RequestsInv
  <1>1. Runs(h) /\ pc = "read" /\ h \in Makes /\ h \notin EventType /\ kind = "shape" /\ kind \notin Kind
    BY KindsAre DEF MakeShape, Runs
  <1>2. call \in Requests /\ call.op = h
    BY <1>0, <1>1, RunsIs
  <1>3. nextWid \in Id /\ nextSid \in Id /\ MaxId \in Nat
    <2>1. nextWid <= MaxId /\ nextSid <= MaxId
      BY <1>0, <1>1, <1>2 DEF Served
    <2> QED
      BY <1>0, <2>1, RequestsAssumption DEF TypeOK, Id, Plain
  <1>4. shapes' = [shapes EXCEPT ![nextSid] = kind] /\ nextSid' = nextSid + 1
        /\ Answer(0, new, None) /\ UNCHANGED <<widgets, nextWid>>
    BY DEF MakeShape
  <1>5. new \in [kind : Kind \cup {"shape"}, id : Id] /\ new # None /\ new.kind = kind /\ new.id = nextSid
    BY <1>1, <1>3, RequestsAssumption
  <1> HIDE DEF kind, new
  <1>7. /\ pc' = "answered" /\ status' = 0 /\ newId' = new /\ effect' = None
        /\ UNCHANGED <<call, handler, myWidgets, myShapes, unread>>
    BY <1>4 DEF Answer, programVars
  <1>m. widgets \in [Id -> Kind \cup {None}] /\ shapes \in [Id -> {"shape", None}]
        /\ myWidgets \in [Id -> Kind \cup {None, "gone"}] /\ myShapes \in [Id -> {"shape", None, "gone"}]
    BY <1>0 DEF TypeOK
  <1>8. TypeOK'
    <2>1. shapes' \in [Id -> {"shape", None}]
      BY <1>1, <1>3, <1>4, <1>m
    <2>2. nextSid' \in 1..MaxId+1
      BY <1>3, <1>4 DEF Id
    <2> QED
      BY <1>0, <1>1, <1>4, <1>5, <1>7, <2>1, <2>2 DEF TypeOK
  <1>9. ToldWidgets' = myWidgets /\ ToldShapes' = [myShapes EXCEPT ![nextSid] = kind]
    <2>1. call.op # "destroy_widget"
      BY <1>1, <1>2, NamesAre
    <2> QED
      BY <1>1, <1>2, <1>5, <1>7, <2>1 DEF ToldWidgets, ToldShapes, Noted
  <1>10. unread = <<>> => Mirror(widgets, myWidgets) /\ Mirror(shapes, myShapes)
    BY <1>0, <1>1 DEF Agreed
  <1>11. unread = <<>> => Agreed'
    <2> SUFFICES ASSUME unread = <<>> PROVE Agreed'
      OBVIOUS
    <2>2. Mirror(widgets', ToldWidgets')
      BY <1>4, <1>9, <1>10 DEF Mirror
    <2>3. Mirror(shapes', ToldShapes')
      BY <1>1, <1>3, <1>4, <1>9, <1>10, <1>m DEF Mirror
    <2> QED
      BY <1>7, <2>2, <2>3 DEF Agreed
  <1>12. unread = <<>> => Fresh'
    <2> SUFFICES ASSUME unread = <<>> PROVE Fresh'
      OBVIOUS
    <2>1. /\ \A i \in Id : i >= nextWid => myWidgets[i] = None
          /\ \A i \in Id : i >= nextSid => myShapes[i] = None
      BY <1>0 DEF Fresh
    <2>2. \A i \in Id : i >= nextSid' => i >= nextSid /\ i # nextSid
      BY <1>3, <1>4 DEF Id
    <2>4. \A i \in Id : i >= nextSid' => ToldShapes'[i] = None
      BY <1>3, <1>9, <1>m, <2>1, <2>2
    <2>5. myShapes[nextSid] = None
      BY <1>3, <2>1 DEF Id
    <2> QED
      BY <1>1, <1>4, <1>5, <1>7, <1>9, <2>1, <2>2, <2>4, <2>5 DEF Fresh
  <1>13. EffectAsAsked'
    BY <1>1, <1>2, <1>7, NamesAre DEF EffectAsAsked
  <1>14. Served'
    BY <1>1, <1>2, <1>5, <1>7 DEF Served, Runs, kind
  <1> QED
    BY <1>7, <1>8, <1>11, <1>12, <1>13, <1>14 DEF RequestsInv

\* ... or refuse to ...
LEMMA RefusedInv ==
    ASSUME RequestsInv, NEW h \in MakesWidget, MakeRefused(h)
    PROVE  RequestsInv'
  <1>0. TypeOK /\ Served /\ (unread = <<>> => Agreed /\ Fresh)
    BY DEF RequestsInv
  <1>1. Runs(h) /\ pc = "read" /\ h \in Makes /\ h \notin EventType
    BY KindsAre DEF MakeRefused, Runs
  <1>2. call \in Requests /\ call.op = h
    BY <1>0, <1>1, RunsIs
  <1>3. nextWid \in Id /\ nextSid \in Id /\ MaxId \in Nat
    <2>1. nextWid <= MaxId /\ nextSid <= MaxId
      BY <1>0, <1>1, <1>2 DEF Served
    <2> QED
      BY <1>0, <2>1, RequestsAssumption DEF TypeOK, Id, Plain
  <1>6. nextWid' \in nextWid+1..MaxId+1 /\ nextSid' \in nextSid..MaxId+1
    BY <1>3 DEF MakeRefused, TakeWid, TakeSids, Id
  <1>7. /\ pc' = "answered" /\ status' \in {1, 2} /\ newId' = None /\ effect' = None
        /\ UNCHANGED <<call, handler, myWidgets, myShapes, unread, widgets, shapes>>
    BY DEF MakeRefused, Answer, programVars
  <1>8. TypeOK'
    <2>2. nextWid' \in 1..MaxId+1 /\ nextSid' \in 1..MaxId+1
      BY <1>3, <1>6 DEF Id
    <2> QED
      BY <1>0, <1>1, <1>7, <2>2 DEF TypeOK
  <1>9. ToldWidgets' = myWidgets /\ ToldShapes' = myShapes
    BY <1>7 DEF ToldWidgets, ToldShapes
  <1>11. unread = <<>> => Agreed'
    BY <1>0, <1>1, <1>7, <1>9 DEF Agreed, Mirror
  <1>12. unread = <<>> => Fresh'
    <2> SUFFICES ASSUME unread = <<>> PROVE Fresh'
      OBVIOUS
    <2>2. \A i \in Id : (i >= nextWid' => i >= nextWid) /\ (i >= nextSid' => i >= nextSid)
      BY <1>3, <1>6 DEF Id
    <2> QED
      BY <1>0, <1>7, <1>9, <2>2 DEF Fresh
  <1>13. EffectAsAsked'
    BY <1>7 DEF EffectAsAsked
  <1>14. Served'
    BY <1>1, <1>2, <1>7 DEF Served, Runs
  <1> QED
    BY <1>7, <1>8, <1>11, <1>12, <1>13, <1>14 DEF RequestsInv

\* The bytes of an answer: a status, and for a make_* an id, which is 0 when there is none.
LEMMA AnswerIs ==
    ASSUME RequestsInv, pc = "answered"
    PROVE  /\ AnswerBytes \in Seq(Plain)
           /\ Len(AnswerBytes) = IF call.op \in Makes THEN 1 + IdLen ELSE 1
           /\ AnswerBytes[1] = status
           /\ call.op \in Makes => /\ \A i \in 2..IdLen : AnswerBytes[i] = 0
                                   /\ newId # None => AnswerBytes[IdLen + 1] = newId.id
  <1>0. TypeOK /\ Served
    BY DEF RequestsInv
  <1>1. IdLen \in Nat /\ IdLen >= 1 /\ MaxId \in 1..127
    BY RequestsAssumption DEF Plain
  <1>2. status \in Plain
    BY <1>0 DEF TypeOK, Plain
  <1>3. handler \in Makes <=> call.op \in Makes
    BY <1>0 DEF Served
  <1>4. CASE call.op \notin Makes
    <2>1. AnswerBytes = <<status>>
      BY <1>3, <1>4 DEF AnswerBytes
    <2> QED
      BY <1>2, <1>4, <2>1
  <1>5. CASE call.op \in Makes
    <2> DEFINE id == IF newId = None THEN 0 ELSE newId.id
               b == IdBytes(id)
    <2>1. id \in Plain
      <3>1. Id \subseteq Plain /\ 0 \in Plain
        BY <1>1 DEF Plain, Id
      <3>2. newId # None => newId.id \in Id
        BY <1>0 DEF TypeOK
      <3> QED
        BY <3>1, <3>2
    <2>2. AnswerBytes = <<status>> \o b
      BY <1>3, <1>5 DEF AnswerBytes
    <2>3. newId # None => id = newId.id
      OBVIOUS
    <2> HIDE DEF id
    <2>4. b = [i \in 1..IdLen |-> IF i = IdLen THEN id ELSE 0] /\ 0 \in Plain
      BY DEF IdBytes, Plain
    <2>5. b \in Seq(Plain) /\ Len(b) = IdLen
      BY <1>1, <2>1, <2>4
    <2>6. b[IdLen] = id /\ \A i \in 1..IdLen-1 : b[i] = 0
      BY <1>1, <2>4
    <2> HIDE DEF b
    <2>7. <<status>> \in Seq(Plain) /\ Len(<<status>>) = 1 /\ <<status>>[1] = status
      BY <1>2
    <2>8. /\ AnswerBytes \in Seq(Plain) /\ Len(AnswerBytes) = 1 + IdLen
          /\ AnswerBytes[1] = status
          /\ \A i \in 1..IdLen : AnswerBytes[i + 1] = b[i]
      BY <1>1, <2>2, <2>5, <2>7
    <2>9. \A i \in 2..IdLen : AnswerBytes[i] = 0
      <3> SUFFICES ASSUME NEW i \in 2..IdLen PROVE AnswerBytes[i] = 0
        OBVIOUS
      <3> DEFINE j == i - 1
      <3>1. j \in 1..IdLen /\ j \in 1..IdLen-1 /\ i = j + 1
        BY <1>1
      <3> HIDE DEF j
      <3> QED
        BY <2>6, <2>8, <3>1
    <2>10. AnswerBytes[IdLen + 1] = id
      BY <1>1, <2>6, <2>8
    <2> QED
      BY <1>5, <2>3, <2>8, <2>9, <2>10
  <1> QED
    BY <1>4, <1>5

\* What a call reads when nothing is left behind, and that it never reads all of
\* what has arrived when something is.
LEMMA ReadsIs ==
    ASSUME RequestsInv, Return
    PROVE  /\ unread' \in Seq(Plain)
           /\ unread # <<>> => unread' # <<>>
           /\ unread = <<>> /\ unread' # <<>> => call.op \in Makes /\ status # 0
           /\ unread = <<>> => Told = status
           /\ unread = <<>> /\ newId # None => ReadsId /\ ToldId = newId.id
  <1>0. TypeOK /\ Served /\ EffectAsAsked
    BY DEF RequestsInv
  <1>1. IdLen \in Nat /\ IdLen >= 1
    BY RequestsAssumption
  <1>2. pc = "answered" /\ unread' = SubSeq(Arrived, IF ReadsId THEN IdLen + 2 ELSE 2, Len(Arrived))
    BY DEF Return
  <1> DEFINE n == Len(unread)
             m == Len(AnswerBytes)
             from == IF ReadsId THEN IdLen + 2 ELSE 2
  <1>3. unread \in Seq(Plain) /\ AnswerBytes \in Seq(Plain) /\ n \in Nat
    BY <1>0, <1>2, AnswerIs DEF TypeOK
  <1>4. Arrived \in Seq(Plain) /\ Len(Arrived) = n + m
    BY <1>3 DEF Arrived
  <1>5. m = (IF call.op \in Makes THEN 1 + IdLen ELSE 1) /\ AnswerBytes[1] = status
    BY <1>2, AnswerIs
  <1>6. from \in Nat /\ from >= 1 /\ from <= m + 1 /\ m \in Nat
    BY <1>1, <1>5 DEF ReadsId
  <1>7. unread' = SubSeq(Arrived, from, n + m)
    BY <1>2, <1>4
  <1> HIDE DEF n, m, from
  <1>8. unread' \in Seq(Plain) /\ Len(unread') = n + m + 1 - from
    <2>1. \A i \in from..(n + m) : i \in 1..Len(Arrived)
      BY <1>3, <1>4, <1>6
    <2> QED
      BY <1>3, <1>4, <1>6, <1>7, <2>1
  <1>9. unread # <<>> => n >= 1
    BY <1>3 DEF n
  <1>10. unread # <<>> => unread' # <<>>
    <2>1. unread # <<>> => Len(unread') >= 1
      BY <1>3, <1>6, <1>8, <1>9
    <2> QED
      BY <2>1
  <1>11. unread = <<>> => Arrived = AnswerBytes /\ Told = status
    BY <1>3, <1>5 DEF Arrived, Told
  <1>12. unread = <<>> /\ unread' # <<>> => call.op \in Makes /\ status # 0
    <2> SUFFICES ASSUME unread = <<>>, ~(call.op \in Makes /\ status # 0) PROVE unread' = <<>>
      OBVIOUS
    <2>1. n = 0
      BY DEF n
    <2>2. from = m + 1
      BY <1>1, <1>5, <1>11 DEF from, ReadsId
    <2>3. Len(unread') = 0
      BY <1>6, <1>8, <2>1, <2>2
    <2> QED
      BY <1>8, <2>3
  <1>13. unread = <<>> /\ newId # None => ReadsId /\ ToldId = newId.id
    <2> SUFFICES ASSUME unread = <<>>, newId # None PROVE ReadsId /\ ToldId = newId.id
      OBVIOUS
    <2>1. call.op \in Makes /\ status = 0
      BY <1>0, <1>2 DEF Served
    <2>2. (\A i \in 2..IdLen : Arrived[i] = 0) /\ Arrived[IdLen + 1] = newId.id
      BY <1>2, <1>11, <2>1, AnswerIs
    <2> QED
      BY <1>11, <2>1, <2>2 DEF ReadsId, ToldId
  <1> QED
    BY <1>8, <1>10, <1>11, <1>12, <1>13

\* ... and by the return of the call, which forgets no object as long as nothing
\* is left behind.
LEMMA ReturnInv ==
    ASSUME RequestsInv, Return
    PROVE  /\ RequestsInv'
           /\ unread = <<>> => \A i \in Id :
                 /\ myWidgets[i] # None => myWidgets'[i] \in {myWidgets[i], "gone"}
                 /\ myShapes[i] # None => myShapes'[i] \in {myShapes[i], "gone"}
  <1>0. TypeOK /\ Served /\ (unread = <<>> => Agreed /\ Fresh)
    BY DEF RequestsInv
  <1>1. /\ pc = "answered" /\ pc' = "idle" /\ call' = None /\ handler' = None
        /\ status' = 0 /\ newId' = None /\ effect' = None
        /\ UNCHANGED <<widgets, shapes, nextWid, nextSid>>
    BY DEF Return, serverVars
  <1>m. myWidgets \in [Id -> Kind \cup {None, "gone"}] /\ myShapes \in [Id -> {"shape", None, "gone"}]
        /\ newId \in {None} \cup [kind : Kind \cup {"shape"}, id : Id] /\ call \in Requests
    BY <1>0, <1>1 DEF TypeOK
  <1>n. KindOf[call.op] \notin Kind => KindOf[call.op] = "shape" \/ call.op \notin Makes
    BY DEF KindOf, Makes, Kind
  <1>w. myWidgets' = IF call.op \in Makes
                     THEN IF ReadsId /\ KindOf[call.op] \in Kind
                          THEN Noted(myWidgets, ToldId, KindOf[call.op]) ELSE myWidgets
                     ELSE IF call.op = "destroy_widget" /\ Told = 0
                          THEN Noted(myWidgets, call.ids[1], "gone") ELSE myWidgets
    BY DEF Return
  <1>s. myShapes' = IF call.op \in Makes
                    THEN IF ReadsId /\ KindOf[call.op] = "shape"
                         THEN Noted(myShapes, ToldId, "shape") ELSE myShapes
                    ELSE IF call.op = "destroy_shape" /\ Told = 0
                         THEN Noted(myShapes, call.ids[1], "gone") ELSE myShapes
    BY DEF Return
  <1>p. /\ call.op \in Makes => call.op \notin {"destroy_widget", "destroy_shape"}
        /\ "shape" \notin Kind
    BY NamesAre, KindsAre
  <1>q. unread = <<>> => /\ Told = status
                         /\ newId # None => ReadsId /\ ToldId = newId.id
                         /\ newId # None <=> ReadsId
                         /\ newId # None => newId.kind = KindOf[call.op] /\ call.op \in Makes
    BY <1>0, <1>1, ReadsIs DEF Served, ReadsId
  <1>r. unread = <<>> => myWidgets' = ToldWidgets /\ myShapes' = ToldShapes
    <2> SUFFICES ASSUME unread = <<>> PROVE myWidgets' = ToldWidgets /\ myShapes' = ToldShapes
      OBVIOUS
    <2>1. CASE newId # None
      <3>1. status = 0 /\ call.op \in Makes /\ ReadsId /\ ToldId = newId.id /\ newId.kind = KindOf[call.op]
        BY <1>q, <2>1 DEF ReadsId
      <3>2. KindOf[call.op] = "shape" => newId.kind = "shape"
        BY <3>1
      <3> QED
        BY <1>w, <1>s, <1>p, <2>1, <3>1 DEF ToldWidgets, ToldShapes
    <2>2. CASE newId = None
      <3>1. ~ReadsId /\ Told = status
        BY <1>q, <2>2
      <3>2. call.op \in Makes => status # 0
        BY <3>1 DEF ReadsId
      <3> QED
        BY <1>w, <1>s, <1>p, <2>2, <3>1, <3>2 DEF ToldWidgets, ToldShapes
    <2> QED
      BY <2>1, <2>2
  <1>2. unread = <<>> => \A i \in Id : myWidgets[i] # None => ToldWidgets[i] \in {myWidgets[i], "gone"}
    <2>1. CASE ToldWidgets = myWidgets
      BY <1>m, <2>1
    <2>2. CASE newId # None /\ newId.kind \in Kind /\ ToldWidgets = Noted(myWidgets, newId.id, newId.kind)
      <3>1. unread = <<>> => myWidgets[newId.id] = None
        BY <1>0, <2>2 DEF Fresh
      <3> QED
        BY <1>m, <2>2, <3>1 DEF Noted
    <2>3. CASE ToldWidgets = Noted(myWidgets, call.ids[1], "gone")
      BY <1>m, <2>3 DEF Noted
    <2> QED
      BY <2>1, <2>2, <2>3 DEF ToldWidgets
  <1>3. unread = <<>> => \A i \in Id : myShapes[i] # None => ToldShapes[i] \in {myShapes[i], "gone"}
    <2>1. CASE ToldShapes = myShapes
      BY <1>m, <2>1
    <2>2. CASE newId # None /\ newId.kind = "shape" /\ ToldShapes = Noted(myShapes, newId.id, newId.kind)
      <3>1. unread = <<>> => myShapes[newId.id] = None
        BY <1>0, <2>2 DEF Fresh
      <3> QED
        BY <1>m, <2>2, <3>1 DEF Noted
    <2>3. CASE ToldShapes = Noted(myShapes, call.ids[1], "gone")
      BY <1>m, <2>3 DEF Noted
    <2> QED
      BY <2>1, <2>2, <2>3 DEF ToldShapes
  <1>4. TypeOK'
    <2>1. myWidgets' \in [Id -> Kind \cup {None, "gone"}]
      BY <1>m, <1>w DEF Noted
    <2>2. myShapes' \in [Id -> {"shape", None, "gone"}]
      BY <1>m, <1>s DEF Noted
    <2> QED
      BY <1>0, <1>1, <2>1, <2>2, ReadsIs DEF TypeOK
  <1>5. unread = <<>> => Agreed'
    BY <1>0, <1>1, <1>r DEF Agreed, Mirror
  <1>6. unread = <<>> => Fresh'
    BY <1>0, <1>1, <1>r DEF Fresh
  <1>7. unread' = <<>> => unread = <<>>
    BY ReadsIs
  <1>8. Served' /\ EffectAsAsked'
    BY <1>1 DEF Served, EffectAsAsked
  <1> QED
    BY <1>2, <1>3, <1>4, <1>5, <1>6, <1>7, <1>8, <1>r DEF RequestsInv

\* Nothing else touches what the program knows and what it has left to read.
LEMMA OthersLeave ==
    ASSUME Next, ~Return
    PROVE  UNCHANGED <<myWidgets, myShapes, unread>>
  <1>1. CASE \E r \in Requests : Ask(r)
    BY <1>1 DEF Ask, programVars
  <1>2. CASE Misread \/ DropClient \/ Understand \/ Uncaught
    BY <1>2 DEF Misread, DropClient, Understand, Uncaught, programVars
  <1>3. CASE \E h \in MakesWidget : MakeWidget(h) \/ MakeRefused(h)
    BY <1>3 DEF MakeWidget, MakeRefused, Answer, programVars
  <1>4. CASE \E h \in MakesShape : MakeShape(h)
    BY <1>4 DEF MakeShape, Answer, programVars
  <1>5. CASE \E h \in {"destroy_widget", "destroy_shape"} : Destroy(h)
    BY <1>5 DEF Destroy, Answer, programVars
  <1>6. CASE (\E h \in Updates : Update(h)) \/ RmOrphan
    BY <1>6 DEF Update, RmOrphan, Answer, programVars
  <1>7. CASE \E h \in EventType : AddHandler(h)
    BY <1>7 DEF AddHandler, Answer, programVars
  <1> QED
    BY <1>1, <1>2, <1>3, <1>4, <1>5, <1>6, <1>7 DEF Next, Serve

\* So every step keeps it,
LEMMA RequestsNext == RequestsInv /\ [Next]_vars => RequestsInv'
  <1> SUFFICES ASSUME RequestsInv, [Next]_vars PROVE RequestsInv'
    OBVIOUS
  <1>1. CASE \E r \in Requests : Ask(r)
    BY <1>1, AskInv
  <1>2. CASE Serve
    BY <1>2, ReadInv, MakeWidgetInv, RefusedInv, MakeShapeInv, DestroyInv, UpdateInv, OrphanInv, AddHandlerInv
    DEF Serve
  <1>3. CASE Return
    BY <1>3, ReturnInv
  <1>4. CASE UNCHANGED vars
    BY <1>4 DEF vars, answerVars, serverVars, programVars, RequestsInv, TypeOK, Agreed, Mirror,
                ToldWidgets, ToldShapes, Noted, Fresh, Served, EffectAsAsked, ReadsNothing
  <1> QED
    BY <1>1, <1>2, <1>3, <1>4 DEF Next

\* and it holds throughout.
LEMMA RequestsAlways == Spec => []RequestsInv
  BY RequestsInit, RequestsNext, PTL DEF Spec

\* Whatever a program asks, in whatever order: between its calls, and as long as
\* no refused make_* has left a part of its answer behind, it has the objects
\* that Client has, under the same ids and of the same kinds.
THEOREM ObjectsAreKnown == Spec => []KnownObjects
  <1>1. RequestsInv => KnownObjects
    BY DEF RequestsInv, Agreed, Mirror, KnownObjects
  <1> QED
    BY <1>1, RequestsAlways, PTL

\* Status 0 says that what was asked has been handed on, for objects that are
\* there, and any other status that nothing has been.
THEOREM EffectIsAsAsked == Spec => []EffectAsAsked
  <1>1. RequestsInv => EffectAsAsked
    BY DEF RequestsInv
  <1> QED
    BY <1>1, RequestsAlways, PTL

\* A refused make_*, and nothing else, leaves a part of its answer behind, and the
\* library never catches up, whatever is asked afterwards.
THEOREM NeverCatchesUp == Spec => FallsBehind
  <1> DEFINE Step == /\ unread = <<>> /\ unread' # <<>> => call.op \in Makes /\ status # 0
                     /\ unread # <<>> => unread' # <<>>
  <1>1. RequestsInv /\ [Next]_vars => [Step]_vars
    <2> SUFFICES ASSUME RequestsInv, Next PROVE Step
      OBVIOUS
    <2>1. CASE Return
      BY <2>1, ReadsIs
    <2>2. CASE ~Return
      BY <2>2, OthersLeave
    <2> QED
      BY <2>1, <2>2
  <1> QED
    BY <1>1, RequestsAlways, PTL DEF Spec, FallsBehind

\* What the server puts into its maps it puts there under an id of this step.
LEMMA ServerGivesNew ==
    ASSUME RequestsInv, Next, NEW i \in Id
    PROVE  /\ widgets[i] = None /\ widgets'[i] # None => i \in nextWid..nextWid' - 1
           /\ shapes[i] = None /\ shapes'[i] # None => i \in nextSid..nextSid' - 1
  <1>0. TypeOK /\ Served
    BY DEF RequestsInv
  <1>m. widgets \in [Id -> Kind \cup {None}] /\ shapes \in [Id -> {"shape", None}]
    BY <1>0 DEF TypeOK
  <1>n. MaxId \in Nat /\ nextWid \in Nat /\ nextSid \in Nat /\ i \in Nat
    <2>1. MaxId \in Nat
      BY RequestsAssumption DEF Plain
    <2> QED
      BY <1>0, <2>1 DEF TypeOK, Id
  <1>1. CASE \E h \in MakesWidget : MakeWidget(h)
    <2>1. PICK h \in MakesWidget : MakeWidget(h)
      BY <1>1
    <2>2. widgets' = [widgets EXCEPT ![nextWid] = KindOf[h]] /\ shapes' = shapes /\ TakeWid(KindOf[h])
      BY <2>1 DEF MakeWidget
    <2>3. nextWid' \in Int /\ nextWid' >= nextWid + 1
      BY <1>n, <2>2 DEF TakeWid
    <2>4. widgets'[i] # widgets[i] => i = nextWid
      BY <1>m, <2>2
    <2>5. nextWid \in nextWid..nextWid' - 1
      <3> DEFINE a == nextWid
                 b == nextWid'
      <3>1. a \in Int /\ b \in Int /\ b >= a + 1
        BY <1>n, <2>3
      <3> HIDE DEF a, b
      <3>2. a \in a..b - 1
        BY <3>1
      <3> QED
        BY <3>2 DEF a, b
    <2> QED
      BY <2>2, <2>4, <2>5
  <1>2. CASE \E h \in MakesShape : MakeShape(h)
    <2>1. PICK h \in MakesShape : MakeShape(h)
      BY <1>2
    <2>2. shapes' = [shapes EXCEPT ![nextSid] = KindOf[h]] /\ widgets' = widgets /\ nextSid' = nextSid + 1
      BY <2>1 DEF MakeShape
    <2>3. shapes'[i] # shapes[i] => i = nextSid
      BY <1>m, <2>2
    <2> QED
      BY <1>n, <2>2, <2>3
  <1>3. CASE \E h \in {"destroy_widget", "destroy_shape"} : Destroy(h)
    <2>1. PICK h \in {"destroy_widget", "destroy_shape"} : Destroy(h)
      BY <1>3
    <2>2. (widgets' = widgets \/ widgets' = [widgets EXCEPT ![call.ids[1]] = None])
          /\ (shapes' = shapes \/ shapes' = [shapes EXCEPT ![call.ids[1]] = None])
      BY <2>1 DEF Destroy
    <2>3. widgets'[i] = widgets[i] \/ widgets'[i] = None
      BY <1>m, <2>2
    <2>4. shapes'[i] = shapes[i] \/ shapes'[i] = None
      BY <1>m, <2>2
    <2> QED
      BY <2>3, <2>4
  <1>4. CASE UNCHANGED <<widgets, shapes>>
    BY <1>4
  <1>5. CASE (\E r \in Requests : Ask(r)) \/ Return \/ Misread \/ DropClient \/ Understand \/ Uncaught
    BY <1>4, <1>5 DEF Ask, Return, Misread, DropClient, Understand, Uncaught, serverVars
  <1>6. CASE (\E h \in MakesWidget : MakeRefused(h)) \/ (\E h \in Updates : Update(h)) \/ RmOrphan
             \/ (\E h \in EventType : AddHandler(h))
    BY <1>4, <1>6 DEF MakeRefused, Update, RmOrphan, AddHandler, serverVars
  <1> QED
    BY <1>1, <1>2, <1>3, <1>5, <1>6 DEF Next, Serve

\* No id is given twice, and as long as nothing is left behind an id that the
\* program has been given never comes to name another object.
THEOREM IdsAlwaysStayGone == Spec => IdsStayGone
  <1> DEFINE Step == \A i \in Id :
        /\ widgets[i] = None /\ widgets'[i] # None => i \in nextWid..nextWid' - 1
        /\ shapes[i] = None /\ shapes'[i] # None => i \in nextSid..nextSid' - 1
        /\ unread = <<>> =>
             /\ myWidgets[i] # None => myWidgets'[i] \in {myWidgets[i], "gone"}
             /\ myShapes[i] # None => myShapes'[i] \in {myShapes[i], "gone"}
  <1>1. RequestsInv /\ [Next]_vars => [Step]_vars
    <2> SUFFICES ASSUME RequestsInv, Next, NEW i \in Id
                 PROVE  /\ widgets[i] = None /\ widgets'[i] # None => i \in nextWid..nextWid' - 1
                        /\ shapes[i] = None /\ shapes'[i] # None => i \in nextSid..nextSid' - 1
                        /\ unread = <<>> =>
                             /\ myWidgets[i] # None => myWidgets'[i] \in {myWidgets[i], "gone"}
                             /\ myShapes[i] # None => myShapes'[i] \in {myShapes[i], "gone"}
      OBVIOUS
    <2>1. CASE Return
      BY <2>1, ReturnInv, ServerGivesNew
    <2>2. CASE ~Return
      BY <2>2, OthersLeave, ServerGivesNew
    <2> QED
      BY <2>1, <2>2
  <1> QED
    BY <1>1, RequestsAlways, PTL DEF Spec, IdsStayGone

-----------------------------------------------------------------------------
(* In step *)

\* Where the two sides may list different pieces, of any request there is.
LEMMA ReadPieces ==
    ASSUME NEW r \in Requests
    PROVE  /\ Read(r) \in Seq(Piece(r.len))
           /\ \/ InStep(r)
              \/ r.op = "make_window" /\ r.args \cap 0..4 \notin {{}, 0..4}
              \/ r.op = "make_panel" /\ 0 \in r.args /\ ~r.grid.even
                 /\ (r.grid.cols >= Octets \/ r.grid.rows >= Octets)
              \/ r.op = "add_event_handler" /\ r.type = "halt"
  <1>0. r.len \in Nat
    BY OpIs
  <1>1. CASE r.op \in Makes
    <2>1. r.op # "add_event_handler"
      BY <1>1, NamesAre
    <2>2. Read(r) = MakeRead(r.op, r) /\ Sent(r) = SentMake(r)
      BY <1>1, <2>1, HandlerIs, ReadIs DEF Sent
    <2> QED
      BY <1>1, <2>2, MakePieces DEF InStep
  <1>2. CASE r.op \in Updates \cup {"destroy_widget", "destroy_shape"}
    <2>1. r.op # "add_event_handler" /\ r.op \notin Makes /\ r.op \in Range(AeActionType)
      BY <1>2, NamesAre
    <2>2. Read(r) = OpRead(r.op, r.len) /\ Sent(r) = SentOp(r.op, r.len)
      BY <2>1, HandlerIs, ReadIs DEF Sent
    <2> QED
      BY <1>0, <1>2, <2>2, OpPieces DEF InStep
  <1>3. CASE r.op = "add_event_handler" /\ r.type # "halt"
    <2>1. Handler(r) = r.type /\ r.type \in EventType /\ HandlerAction(r) = r.action
      BY <1>3, HandlerIs
    <2>2. Read(r) = HandlerRead(r.action, r.len)
      BY <2>1, ReadIs
    <2> QED
      BY <1>3, <2>2, HandlerPieces DEF InStep
  <1>4. CASE r.op = "add_event_handler" /\ r.type = "halt"
    <2>1. Handler(r) = "set_str" /\ "set_str" \in Range(AeActionType) \ Makes /\ "set_str" \in Updates
      BY <1>4, HandlerIs, NamesAre DEF Updates
    <2>2. Read(r) = OpRead("set_str", r.len)
      BY <2>1, ReadIs
    <2>3. OpRead("set_str", r.len) \in Seq(Piece(r.len))
      BY <1>0, <2>1, OpPieces
    <2> QED
      BY <1>4, <2>2, <2>3
  <1> QED
    BY <1>1, <1>2, <1>3, <1>4, OpIs

\* Nothing but a string or a picture without a byte in it is taken for the end.
LEMMA NothingIsEmpty ==
    ASSUME NEW r \in Requests, ReadsNothing(r)
    PROVE  r.len = 0
  <1>1. Read(r) \in Seq(Piece(r.len))
    BY ReadPieces
  <1>2. PICK i \in 1..Len(Read(r)) : Read(r)[i][2] = 0
    BY DEF ReadsNothing
  <1>3. Read(r)[i] \in Piece(r.len)
    BY <1>1, <1>2
  <1> QED
    BY <1>2, <1>3 DEF Piece

\* Short sequences, one after the other.
LEMMA JoinIs ==
    ASSUME NEW S, NEW s \in Seq(S), NEW t \in Seq(S), NEW u \in Seq(S),
           Len(u) = Len(s) + Len(t),
           \A i \in 1..Len(s) : u[i] = s[i],
           \A i \in 1..Len(t) : u[Len(s) + i] = t[i]
    PROVE  s \o t = u
  <1>1. /\ s \o t \in Seq(S) /\ Len(s \o t) = Len(s) + Len(t)
        /\ \A i \in 1..Len(s) + Len(t) : (s \o t)[i] = IF i <= Len(s) THEN s[i] ELSE t[i - Len(s)]
    BY ConcatProperties
  <1>2. Len(s) \in Nat /\ Len(t) \in Nat
    OBVIOUS
  <1>3. ASSUME NEW i \in 1..Len(s) + Len(t) PROVE (s \o t)[i] = u[i]
    <2>1. CASE i <= Len(s)
      BY <1>1, <1>2, <2>1
    <2>2. CASE i > Len(s)
      <3>1. i - Len(s) \in 1..Len(t) /\ Len(s) + (i - Len(s)) = i
        BY <1>2, <2>2
      <3>2. u[i] = t[i - Len(s)]
        BY <3>1
      <3> QED
        BY <1>1, <1>2, <2>2, <3>2
    <2> QED
      BY <1>2, <2>1, <2>2
  <1> QED
    BY <1>1, <1>3, SeqEqual

\* Short sequences joined.
LEMMA JoinOne ==
    ASSUME NEW a, NEW b
    PROVE  <<a>> \o <<b>> = <<a, b>>
  <1> DEFINE S == {a, b}  s == <<a>>  t == <<b>>  u == <<a, b>>
  <1>1. s \in Seq(S) /\ t \in Seq(S) /\ u \in Seq(S) /\ Len(u) = Len(s) + Len(t)
    OBVIOUS
  <1>2. \A i \in 1..Len(s) : u[i] = s[i]
    OBVIOUS
  <1>3. \A i \in 1..Len(t) : u[Len(s) + i] = t[i]
    OBVIOUS
  <1> HIDE DEF S, s, t, u
  <1>4. s \o t = u
    BY <1>1, <1>2, <1>3, JoinIs
  <1> QED
    BY <1>4 DEF s, t, u

LEMMA JoinNone ==
    ASSUME NEW a, NEW b
    PROVE  <<a, b>> \o <<>> = <<a, b>>
  <1>1. <<a, b>> \in Seq({a, b})
    OBVIOUS
  <1> QED
    BY <1>1, ConcatEmptySeq

LEMMA JoinTwoOne ==
    ASSUME NEW a, NEW b, NEW c
    PROVE  <<a, b>> \o <<c>> = <<a, b, c>>
  <1> DEFINE S == {a, b, c}  s == <<a, b>>  t == <<c>>  u == <<a, b, c>>
  <1>1. s \in Seq(S) /\ t \in Seq(S) /\ u \in Seq(S) /\ Len(u) = Len(s) + Len(t)
    OBVIOUS
  <1>2. (\A i \in 1..Len(s) : u[i] = s[i]) /\ (\A i \in 1..Len(t) : u[Len(s) + i] = t[i])
    OBVIOUS
  <1> HIDE DEF S, s, t, u
  <1>3. s \o t = u
    BY <1>1, <1>2, JoinIs
  <1> QED
    BY <1>3 DEF s, t, u

LEMMA JoinOneOneOne ==
    ASSUME NEW a, NEW b, NEW c
    PROVE  (<<a>> \o <<b>>) \o <<c>> = <<a, b, c>>
  <1>1. <<a>> \o <<b>> = <<a, b>>
    BY JoinOne
  <1>2. <<a, b>> \o <<c>> = <<a, b, c>>
    BY JoinTwoOne
  <1> QED
    BY <1>1, <1>2

LEMMA JoinTwoTwo ==
    ASSUME NEW a, NEW b, NEW c, NEW d
    PROVE  <<a, b>> \o <<c, d>> = <<a, b, c, d>>
  <1> DEFINE S == {a, b, c, d}  s == <<a, b>>  t == <<c, d>>  u == <<a, b, c, d>>
  <1>1. s \in Seq(S) /\ t \in Seq(S) /\ u \in Seq(S) /\ Len(u) = Len(s) + Len(t)
    OBVIOUS
  <1>2. (\A i \in 1..Len(s) : u[i] = s[i]) /\ (\A i \in 1..Len(t) : u[Len(s) + i] = t[i])
    OBVIOUS
  <1> HIDE DEF S, s, t, u
  <1>3. s \o t = u
    BY <1>1, <1>2, JoinIs
  <1> QED
    BY <1>3 DEF s, t, u

LEMMA JoinTwoThree ==
    ASSUME NEW a, NEW b, NEW c, NEW d, NEW e
    PROVE  <<a, b>> \o <<c, d, e>> = <<a, b, c, d, e>>
  <1> DEFINE S == {a, b, c, d, e}  s == <<a, b>>  t == <<c, d, e>>  u == <<a, b, c, d, e>>
  <1>1. s \in Seq(S) /\ t \in Seq(S) /\ u \in Seq(S) /\ Len(u) = Len(s) + Len(t)
    OBVIOUS
  <1>2. (\A i \in 1..Len(s) : u[i] = s[i]) /\ (\A i \in 1..Len(t) : u[Len(s) + i] = t[i])
    OBVIOUS
  <1> HIDE DEF S, s, t, u
  <1>3. s \o t = u
    BY <1>1, <1>2, JoinIs
  <1> QED
    BY <1>3 DEF s, t, u

\* What Bytes adds up, for the few pieces that an event has.
LEMMA BytesAre ==
    ASSUME NEW p, Len(p) \in 2..5, \A i \in 1..Len(p) : p[i][2] \in Nat
    PROVE  Bytes(p) = p[1][2] + p[2][2] + (IF Len(p) >= 3 THEN p[3][2] ELSE 0)
                      + (IF Len(p) >= 4 THEN p[4][2] ELSE 0) + (IF Len(p) = 5 THEN p[5][2] ELSE 0)
  <1> DEFINE len == Len(p)
             To(f) == [n \in 0..len |-> IF n = 0 THEN 0 ELSE f[n-1] + p[n][2]]
             a == p[1][2]
             b == a + p[2][2]
             c == b + p[3][2]
             d == c + p[4][2]
             e == d + p[5][2]
             sums == [n \in 0..len |-> IF n = 0 THEN 0 ELSE IF n = 1 THEN a ELSE IF n = 2 THEN b
                                       ELSE IF n = 3 THEN c ELSE IF n = 4 THEN d ELSE e]
             sum == CHOOSE f : f = To(f)
  <1>1. sums = To(sums)
    <2>1. ASSUME NEW n \in 0..len PROVE sums[n] = To(sums)[n]
      <3>1. n \in {0, 1, 2, 3, 4, 5}
        OBVIOUS
      <3>2. n # 0 => n - 1 \in 0..len
        OBVIOUS
      <3> HIDE DEF a, b, c, d, e
      <3>3. n = 0 => sums[n] = To(sums)[n]
        OBVIOUS
      <3>4. n = 1 => sums[n] = 0 + a
        BY DEF a
      <3> QED
        BY <3>1, <3>2, <3>3, <3>4 DEF a, b, c, d, e
    <2> QED
      BY <2>1
  <1>2. sum = To(sum)
    BY <1>1
  <1>3. Bytes(p) = sum[len]
    BY DEF Bytes
  <1>4. DOMAIN sum = 0..len /\ \A n \in 0..len : sum[n] = IF n = 0 THEN 0 ELSE sum[n-1] + p[n][2]
    BY <1>2
  <1> HIDE DEF sum
  <1>5. sum[0] = 0 /\ sum[1] = sum[0] + p[1][2] /\ sum[2] = sum[1] + p[2][2]
    BY <1>4
  <1>6. /\ len >= 3 => sum[3] = sum[2] + p[3][2]
        /\ len >= 4 => sum[4] = sum[3] + p[4][2]
        /\ len = 5 => sum[5] = sum[4] + p[5][2]
    BY <1>4
  <1>7. p[1][2] \in Nat /\ p[2][2] \in Nat /\ (len >= 3 => p[3][2] \in Nat)
        /\ (len >= 4 => p[4][2] \in Nat) /\ (len = 5 => p[5][2] \in Nat)
    OBVIOUS
  <1>8. len \in {2, 3, 4, 5}
    OBVIOUS
  <1> HIDE DEF len
  <1>9. CASE len = 2
    BY <1>3, <1>5, <1>7, <1>9 DEF len
  <1>10. CASE len = 3
    BY <1>3, <1>5, <1>6, <1>7, <1>10 DEF len
  <1>11. CASE len = 4
    BY <1>3, <1>5, <1>6, <1>7, <1>11 DEF len
  <1>12. CASE len = 5
    BY <1>3, <1>5, <1>6, <1>7, <1>12 DEF len
  <1> QED
    BY <1>8, <1>9, <1>10, <1>11, <1>12

\* The numbers of the lists, one by one.
LEMMA LensAre ==
    /\ ServerEventType = AeEventType
    /\ \A i \in 1..12 : /\ AeEventType[i] \in KeyEvents => EventLens[i] = 7
                        /\ AeEventType[i] \in ButtonEvents => EventLens[i] = 6
                        /\ AeEventType[i] \in MoveEvents => EventLens[i] = 10
                        /\ AeEventType[i] \in {"action", "mouse_enter", "mouse_exit"} => EventLens[i] = 5
  <1>1. ServerEventType = AeEventType
    BY DEF ServerEventType, AeEventType
  <1>2. ASSUME NEW i \in 1..12
        PROVE  /\ AeEventType[i] \in KeyEvents => EventLens[i] = 7
               /\ AeEventType[i] \in ButtonEvents => EventLens[i] = 6
               /\ AeEventType[i] \in MoveEvents => EventLens[i] = 10
               /\ AeEventType[i] \in {"action", "mouse_enter", "mouse_exit"} => EventLens[i] = 5
    <2>1. i \in {1, 2, 3, 4, 5, 6, 7, 8, 9, 10, 11, 12}
      OBVIOUS
    <2> QED
      BY <2>1 DEF AeEventType, EventLens, KeyEvents, ButtonEvents, MoveEvents
  <1> QED
    BY <1>1, <1>2

\* Both sides list the same pieces of every event.
LEMMA EventsInStep ==
    ASSUME NEW type \in EventType
    PROVE  EventInStep(type)
  <1> DEFINE at == NumberOf(ServerEventType, type) + 1
  <1>1. at \in 1..12 /\ AeEventType[at] = type
    <2>1. PICK n \in 1..12 : AeEventType[n] = type
      BY ListsAgree DEF EventType
    <2>2. Len(AeEventType) \in Nat /\ n \in 1..Len(AeEventType)
      BY ListsAgree
    <2>3. NumberOf(AeEventType, type) + 1 \in 1..Len(AeEventType)
          /\ AeEventType[NumberOf(AeEventType, type) + 1] = type
      BY <2>1, <2>2, NumberFinds, Zenon
    <2> QED
      BY <2>3, ListsAgree, LensAre
  <1> HIDE DEF at
  <1>2. type \in KeyEvents \cup ButtonEvents \cup MoveEvents \cup {"action", "mouse_enter", "mouse_exit"}
    BY NamesAre DEF KeyEvents, ButtonEvents, MoveEvents
  <1>h. EventHead = <<<<"head", 1>>, <<"wid", 4>>>>
    BY JoinOne DEF EventHead, Octet, Word
  <1>3. EventLens[at] = Bytes(EventSent(type))
        /\ \A n \in 1..Len(EventRead(type)) : EventRead(type)[n][2] = EventSent(type)[n][2]
    <2>1. CASE type \in KeyEvents
      <3>0. type \notin ButtonEvents \cup MoveEvents
        BY <2>1 DEF KeyEvents, ButtonEvents, MoveEvents
      <3>1. EventSent(type) = EventHead \o KeyBytes
        BY <2>1, <3>0 DEF EventSent
      <3>2. EventRead(type) = EventHead \o (Octet("keys") \o Octet("c"))
        BY <2>1, <3>0 DEF EventRead, EventHead
      <3>3. EventSent(type) = <<<<"head", 1>>, <<"wid", 4>>, <<"keys", 1>>, <<"c", 1>>>>
        <4>1. KeyBytes = <<<<"keys", 1>>, <<"c", 1>>>>
          BY JoinOne DEF KeyBytes, Octet
        <4> QED
          BY <1>h, <3>1, <4>1, JoinTwoTwo
      <3>4. EventRead(type) = <<<<"head", 1>>, <<"wid", 4>>, <<"keys", 1>>, <<"c", 1>>>>
        <4>1. Octet("keys") \o Octet("c") = <<<<"keys", 1>>, <<"c", 1>>>>
          BY JoinOne DEF Octet
        <4> QED
          BY <1>h, <3>2, <4>1, JoinTwoTwo
      <3>5. Bytes(EventSent(type)) = 7
        <4> DEFINE p == <<<<"head", 1>>, <<"wid", 4>>, <<"keys", 1>>, <<"c", 1>>>>
        <4>1. Len(p) \in 2..5 /\ \A i \in 1..Len(p) : p[i][2] \in Nat
          OBVIOUS
        <4> HIDE DEF p
        <4>2. Bytes(p) = p[1][2] + p[2][2] + (IF Len(p) >= 3 THEN p[3][2] ELSE 0)
                         + (IF Len(p) >= 4 THEN p[4][2] ELSE 0) + (IF Len(p) = 5 THEN p[5][2] ELSE 0)
          BY <4>1, BytesAre
        <4> QED
          BY <3>3, <4>2 DEF p
      <3>6. \A n \in 1..Len(EventRead(type)) : EventRead(type)[n][2] = EventSent(type)[n][2]
        BY <3>3, <3>4
      <3>7. EventLens[at] = 7
        BY <1>1, <2>1, LensAre
      <3> QED
        BY <3>5, <3>6, <3>7
    <2>2. CASE type \in ButtonEvents
      <3>0. type \notin KeyEvents \cup MoveEvents
        BY <2>2 DEF KeyEvents, ButtonEvents, MoveEvents
      <3>1. EventSent(type) = EventHead \o ButtonBytes
        BY <2>2, <3>0 DEF EventSent
      <3>2. EventRead(type) = EventHead \o (Octet("buttons"))
        BY <2>2, <3>0 DEF EventRead, EventHead
      <3>3. EventSent(type) = <<<<"head", 1>>, <<"wid", 4>>, <<"buttons", 1>>>>
        <4>1. ButtonBytes = <<<<"buttons", 1>>>>
          BY JoinOne DEF ButtonBytes, Octet
        <4> QED
          BY <1>h, <3>1, <4>1, JoinTwoOne
      <3>4. EventRead(type) = <<<<"head", 1>>, <<"wid", 4>>, <<"buttons", 1>>>>
        <4>1. Octet("buttons") = <<<<"buttons", 1>>>>
          BY JoinOne DEF Octet
        <4> QED
          BY <1>h, <3>2, <4>1, JoinTwoOne
      <3>5. Bytes(EventSent(type)) = 6
        <4> DEFINE p == <<<<"head", 1>>, <<"wid", 4>>, <<"buttons", 1>>>>
        <4>1. Len(p) \in 2..5 /\ \A i \in 1..Len(p) : p[i][2] \in Nat
          OBVIOUS
        <4> HIDE DEF p
        <4>2. Bytes(p) = p[1][2] + p[2][2] + (IF Len(p) >= 3 THEN p[3][2] ELSE 0)
                         + (IF Len(p) >= 4 THEN p[4][2] ELSE 0) + (IF Len(p) = 5 THEN p[5][2] ELSE 0)
          BY <4>1, BytesAre
        <4> QED
          BY <3>3, <4>2 DEF p
      <3>6. \A n \in 1..Len(EventRead(type)) : EventRead(type)[n][2] = EventSent(type)[n][2]
        BY <3>3, <3>4
      <3>7. EventLens[at] = 6
        BY <1>1, <2>2, LensAre
      <3> QED
        BY <3>5, <3>6, <3>7
    <2>3. CASE type \in MoveEvents
      <3>0. type \notin KeyEvents \cup ButtonEvents
        BY <2>3 DEF KeyEvents, ButtonEvents, MoveEvents
      <3>1. EventSent(type) = EventHead \o MoveBytes
        BY <2>3, <3>0 DEF EventSent
      <3>2. EventRead(type) = EventHead \o (Octet("buttons") \o Short("dx, not swapped") \o Short("dy, not swapped"))
        BY <2>3, <3>0 DEF EventRead, EventHead
      <3>3. EventSent(type) = <<<<"head", 1>>, <<"wid", 4>>, <<"buttons", 1>>, <<"dx", 2>>, <<"dy", 2>>>>
        <4>1. MoveBytes = <<<<"buttons", 1>>, <<"dx", 2>>, <<"dy", 2>>>>
          BY JoinOneOneOne DEF MoveBytes, Octet, Short
        <4> QED
          BY <1>h, <3>1, <4>1, JoinTwoThree
      <3> DEFINE dx == <<"dx, not swapped", 2>>  dy == <<"dy, not swapped", 2>>
      <3>4. EventRead(type) = <<<<"head", 1>>, <<"wid", 4>>, <<"buttons", 1>>, dx, dy>>
        <4>1. (Octet("buttons") \o Short("dx, not swapped")) \o Short("dy, not swapped") = <<<<"buttons", 1>>, dx, dy>>
          BY JoinOneOneOne DEF Octet, Short
        <4> DEFINE head == <<"head", 1>>  wid == <<"wid", 4>>  buttons == <<"buttons", 1>>
        <4>2. EventHead = <<head, wid>>
          BY <1>h
        <4>3. (Octet("buttons") \o Short("dx, not swapped")) \o Short("dy, not swapped") = <<buttons, dx, dy>>
          BY <4>1
        <4> HIDE DEF dx, dy, head, wid, buttons
        <4>4. <<head, wid>> \o <<buttons, dx, dy>> = <<head, wid, buttons, dx, dy>>
          BY JoinTwoThree
        <4>5. EventRead(type) = <<head, wid, buttons, dx, dy>>
          BY <3>2, <4>2, <4>3, <4>4
        <4> QED
          BY <4>5 DEF head, wid, buttons
      <3>5. Bytes(EventSent(type)) = 10
        <4> DEFINE p == <<<<"head", 1>>, <<"wid", 4>>, <<"buttons", 1>>, <<"dx", 2>>, <<"dy", 2>>>>
        <4>1. Len(p) \in 2..5 /\ \A i \in 1..Len(p) : p[i][2] \in Nat
          OBVIOUS
        <4> HIDE DEF p
        <4>2. Bytes(p) = p[1][2] + p[2][2] + (IF Len(p) >= 3 THEN p[3][2] ELSE 0)
                         + (IF Len(p) >= 4 THEN p[4][2] ELSE 0) + (IF Len(p) = 5 THEN p[5][2] ELSE 0)
          BY <4>1, BytesAre
        <4> QED
          BY <3>3, <4>2 DEF p
      <3>6. \A n \in 1..Len(EventRead(type)) : EventRead(type)[n][2] = EventSent(type)[n][2]
        <4>1. dx[2] = 2 /\ dy[2] = 2
          OBVIOUS
        <4> HIDE DEF dx, dy
        <4>2. Len(EventRead(type)) = 5 /\ 1..5 = {1, 2, 3, 4, 5}
          BY <3>4
        <4> QED
          BY <3>3, <3>4, <4>1, <4>2
      <3>7. EventLens[at] = 10
        BY <1>1, <2>3, LensAre
      <3> QED
        BY <3>5, <3>6, <3>7
    <2>4. CASE type \in {"action", "mouse_enter", "mouse_exit"}
      <3>0. type \notin KeyEvents \cup ButtonEvents \cup MoveEvents
        BY <2>4 DEF KeyEvents, ButtonEvents, MoveEvents
      <3>1. EventSent(type) = EventHead \o <<>>
        BY <2>4, <3>0 DEF EventSent
      <3>2. EventRead(type) = EventHead \o (<<>>)
        BY <2>4, <3>0 DEF EventRead, EventHead
      <3>3. EventSent(type) = <<<<"head", 1>>, <<"wid", 4>>>>
        BY <1>h, <3>1, JoinNone
      <3>4. EventRead(type) = <<<<"head", 1>>, <<"wid", 4>>>>
        BY <1>h, <3>2, JoinNone
      <3>5. Bytes(EventSent(type)) = 5
        <4> DEFINE p == <<<<"head", 1>>, <<"wid", 4>>>>
        <4>1. Len(p) \in 2..5 /\ \A i \in 1..Len(p) : p[i][2] \in Nat
          OBVIOUS
        <4> HIDE DEF p
        <4>2. Bytes(p) = p[1][2] + p[2][2] + (IF Len(p) >= 3 THEN p[3][2] ELSE 0)
                         + (IF Len(p) >= 4 THEN p[4][2] ELSE 0) + (IF Len(p) = 5 THEN p[5][2] ELSE 0)
          BY <4>1, BytesAre
        <4> QED
          BY <3>3, <4>2 DEF p
      <3>6. \A n \in 1..Len(EventRead(type)) : EventRead(type)[n][2] = EventSent(type)[n][2]
        BY <3>3, <3>4
      <3>7. EventLens[at] = 5
        BY <1>1, <2>4, LensAre
      <3> QED
        BY <3>5, <3>6, <3>7
    <2> QED
      BY <1>2, <2>1, <2>2, <2>3, <2>4
  <1> QED
    BY <1>1, <1>3 DEF EventInStep, at

\* Whatever is asked, library and server fall out of step only over the three
\* requests that StaysInStep names, and a client is dropped only over an empty
\* string or picture.
THEOREM AlwaysStaysInStep == Spec => []StaysInStep
  <1>1. RequestsInv => StaysInStep
    <2> SUFFICES ASSUME RequestsInv PROVE StaysInStep
      OBVIOUS
    <2>0. TypeOK /\ Served
      BY DEF RequestsInv
    <2>1. pc \in {"lost", "dropped"} => call \in Requests
      BY <2>0 DEF TypeOK
    <2>2. pc = "lost" =>
            \/ call.op = "make_window" /\ call.args \cap 0..4 \notin {{}, 0..4}
            \/ /\ call.op = "make_panel" /\ 0 \in call.args /\ ~call.grid.even
               /\ call.grid.cols >= Octets \/ call.grid.rows >= Octets
            \/ call.op = "add_event_handler" /\ call.type = "halt"
      BY <2>0, <2>1, ReadPieces DEF Served
    <2>3. pc = "dropped" => call.len = 0
      BY <2>0, <2>1, NothingIsEmpty DEF Served
    <2> QED
      BY <2>2, <2>3, EventsInStep DEF StaysInStep
  <1> QED
    BY <1>1, RequestsAlways, PTL

=============================================================================
