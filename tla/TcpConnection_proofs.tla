------------------------ MODULE TcpConnection_proofs ------------------------
(***************************************************************************)
(* Proofs about one connection, for any number of user threads and         *)
(* messages: the order of its callbacks, watching for writability, the end *)
(* of its channel and the place of the FIN.                                *)
(***************************************************************************)
EXTENDS TcpConnection, FiniteSetTheorems, SequenceTheorems, TLAPS

(* What the order of the callbacks and the end of the channel rest on: no two
   of send() and shutdown() from other threads, since such a shutdown() may set
   kDisconnecting after handleClose() (TcpConnection.cpp lines 158-160). *)
UsersDoNotMix == \A calls \in UserPrograms : ~({"send", "shutdown"} \subseteq calls)

FunctorOps == Strong \cup {"sendInLoop", "shutdownInLoop"}
Functors == [op : FunctorOps, data : Seq(Message)]
Ops(q) == {q[i].op : i \in DOMAIN q}

(* The types, also of what TypeOK leaves out. *)
ConnTypes ==
    /\ TypeOK
    /\ ioQueue \in Seq(Functors) /\ batch \in Seq(Functors)
    /\ wire \in Seq(Message \cup {Junk}) /\ sent \in Seq(Message \cup {Junk})
    /\ userCalls \in UserPrograms
    /\ server \in {"up", "dying", "gone"}
    /\ batchHolds \in BOOLEAN /\ ioQuit \in BOOLEAN /\ baseIsIo \in BOOLEAN
    /\ created \in BOOLEAN /\ connections_ \in BOOLEAN /\ finSent \in BOOLEAN

(* What the place of the IO loop says: functors and events are there in their
   phase only, a callback runs in these two or in ~TcpServer. *)
LoopPhases ==
    /\ phase # "functors" => batch = <<>>
    /\ phase # "events" => revents_ = {}
    /\ phase \in {"check", "poll"} => callback = "none"
    /\ phase = "stopped" => ioQuit /\ (server = "up" => callback = "none")
    /\ callback = "message" => phase = "events"
    /\ Ops(batch) \cap Strong # {} => batchHolds
    /\ ~baseIsIo /\ server = "up" => ~ioQuit

(* connectEstablished() is the first functor of the connection, and only it. *)
EstablishedFirst(q) == \A i \in DOMAIN q : (q[i].op = "connectEstablished") <=> (i = 1)

(* Before connectEstablished() nothing has happened. *)
BeforeUp ==
    ups = 0 =>
        /\ state_ = "kConnecting" /\ index_ = "kNew" /\ events_ = {} /\ revents_ = {}
        /\ outputBuffer_ = <<>> /\ wire = <<>> /\ sent = <<>> /\ ~finSent
        /\ callback = "none" /\ downs = 0 /\ holds = {} /\ \A t \in User : upc[t] = "idle"
        /\ baseIsIo => ~created
        /\ IF batch # <<>>
           THEN EstablishedFirst(batch) /\ "connectEstablished" \notin Ops(ioQueue)
           ELSE EstablishedFirst(ioQueue)
        /\ IF created
           THEN server = "up" => batch # <<>> \/ ioQueue # <<>>
           ELSE ~connections_ /\ batch = <<>> /\ ioQueue = <<>>

(* Between the two calls of connectionCallback_ the channel is registered and
   reads, and it watches for writability while there is output. *)
WhileUp ==
    /\ ups <= 1 /\ downs <= ups
    /\ downs = 0 => baseQueue = 0 /\ callback # "closeDown"
    /\ ups = 1 =>
        /\ created /\ state_ # "kConnecting"
        /\ "connectEstablished" \notin Ops(ioQueue) \cup Ops(batch)
    /\ ups = 1 /\ downs = 0 =>
        /\ state_ \in {"kConnected", "kDisconnecting"}
        /\ index_ = "kAdded" /\ "read" \in events_
        /\ ("write" \in events_) <=> (outputBuffer_ # <<>>)

(* After the fall the channel is not registered again. *)
AfterDown ==
    downs = 1 =>
        /\ events_ = {} /\ index_ # "kAdded"
        /\ state_ \in {"kDisconnecting", "kDisconnected"}
        /\ "send" \in userCalls => state_ = "kDisconnected"
        /\ revents_ \cap {"HUP", "IN"} = {}
        /\ callback # "message"
        /\ callback = "closeDown" => baseQueue = 0

(* Functors of user threads are those of what they call. *)
UsersCall ==
    /\ "sendInLoop" \in Ops(ioQueue) \cup Ops(batch) => "send" \in userCalls
    /\ \A t \in User : /\ upc[t] \in Message => "send" \in userCalls
                       /\ upc[t] = "shutdown" => "shutdown" \in userCalls
                       /\ upc[t] \in {"shutdown", "queue"} => ups = 1

ConnInv == ConnTypes /\ LoopPhases /\ BeforeUp /\ WhileUp /\ AfterDown /\ UsersCall

Ending == {"closeDown", "destroyDown", "remove"}

(* connectDestroyed() comes after handleClose() or from ~TcpServer, and while the
   loop runs somebody has it to do until the channel is removed. *)
Leaving ==
    /\ callback \in Ending => state_ # "kConnected"
    /\ server = "up" =>
          /\ "connectDestroyed" \in Ops(ioQueue) \cup Ops(batch) => downs = 1
          /\ callback \in Ending => downs = 1
    /\ phase # "stopped" /\ created /\ (ups = 0 \/ index_ # "kNew") =>
          \/ connections_ \/ callback \in Ending \/ baseQueue > 0
          \/ "connectDestroyed" \in Ops(ioQueue) \cup Ops(batch)

-----------------------------------------------------------------------------
(* Queues of functors.                                                     *)

(* The functors that are made have their type. *)
LEMMA FunctorsAre ==
    /\ \A op \in FunctorOps : Functor(op) \in Functors /\ Functor(op).op = op
    /\ \A m \in Message : SendFunctor(Bytes(m)) \in Functors
                          /\ SendFunctor(Bytes(m)).op = "sendInLoop"
BY DEF Functor, SendFunctor, Bytes, Functors, FunctorOps, Strong

(* No functor. *)
LEMMA OpsOfNone == <<>> \in Seq(Functors) /\ Ops(<<>>) = {} /\ EstablishedFirst(<<>>)
BY DEF Ops, EstablishedFirst

(* A functor is queued. *)
LEMMA OpsAppend ==
    ASSUME NEW q \in Seq(Functors), NEW f \in Functors, NEW p, p = Append(q, f)
    PROVE  /\ p \in Seq(Functors) /\ p # <<>>
           /\ Ops(p) = Ops(q) \cup {f.op}
           /\ f.op # "connectEstablished" /\ q # <<>> /\ EstablishedFirst(q) => EstablishedFirst(p)
           /\ f.op = "connectEstablished" /\ q = <<>> => EstablishedFirst(p)
<1>1. /\ p \in Seq(Functors) /\ Len(q) \in Nat /\ Len(p) = Len(q) + 1
      /\ \A i \in 1 .. Len(q) : p[i] = q[i]
      /\ p[Len(q) + 1] = f
  BY AppendProperties, LenProperties
<1>2. DOMAIN p = 1 .. Len(q) + 1 /\ DOMAIN q = 1 .. Len(q)
  BY <1>1, LenProperties
<1>3. Ops(p) = Ops(q) \cup {f.op}
  BY <1>1, <1>2 DEF Ops
<1>4. p # <<>>
  BY <1>1
<1>5. q # <<>> => 1 <= Len(q)
  BY <1>1, EmptySeq
<1>6. ASSUME f.op # "connectEstablished", q # <<>>, EstablishedFirst(q)
      PROVE  EstablishedFirst(p)
  BY <1>1, <1>2, <1>5, <1>6 DEF EstablishedFirst
<1>7. ASSUME f.op = "connectEstablished", q = <<>>
      PROVE  EstablishedFirst(p)
  BY <1>1, <1>2, <1>7 DEF EstablishedFirst
<1>8. QED
  BY <1>1, <1>3, <1>4, <1>6, <1>7

(* queueInLoop() of one that is bound to no message. *)
LEMMA QueueMakes ==
    ASSUME ioQueue \in Seq(Functors), NEW op \in FunctorOps, ioQueue' = Append(ioQueue, Functor(op))
    PROVE  /\ ioQueue' \in Seq(Functors) /\ ioQueue' # <<>>
           /\ Ops(ioQueue') = Ops(ioQueue) \cup {op}
           /\ op # "connectEstablished" /\ ioQueue # <<>> /\ EstablishedFirst(ioQueue)
                 => EstablishedFirst(ioQueue')
           /\ op = "connectEstablished" /\ ioQueue = <<>> => EstablishedFirst(ioQueue')
<1>1. PICK f \in Functors : f = Functor(op) /\ f.op = op
  BY FunctorsAre
<1>2. ioQueue' = Append(ioQueue, f)
  BY <1>1
<1>3. QED
  BY <1>1, <1>2, OpsAppend

(* The first functor is taken. *)
LEMMA OpsTail ==
    ASSUME NEW q \in Seq(Functors), q # <<>>, NEW p, p = Tail(q)
    PROVE  /\ p \in Seq(Functors) /\ Head(q) \in Functors
           /\ Ops(q) = {Head(q).op} \cup Ops(p)
           /\ EstablishedFirst(q) => /\ Head(q).op = "connectEstablished"
                                     /\ "connectEstablished" \notin Ops(p)
<1>1. Len(q) \in Nat /\ 1 <= Len(q) /\ DOMAIN q = 1 .. Len(q) /\ Head(q) = q[1]
  BY EmptySeq, LenProperties
<1>2. /\ p \in Seq(Functors) /\ Len(p) = Len(q) - 1
      /\ \A i \in 1 .. Len(q) - 1 : p[i] = q[i + 1]
  BY <1>1
<1>3. DOMAIN p = 1 .. Len(q) - 1
  BY <1>1, <1>2, LenProperties
<1>4. Head(q) \in Functors
  BY <1>1
<1>5. Ops(q) \subseteq {Head(q).op} \cup Ops(p)
  <2>1. SUFFICES ASSUME NEW i \in 1 .. Len(q)
                 PROVE  q[i].op \in {Head(q).op} \cup Ops(p)
    BY <1>1 DEF Ops
  <2>2. CASE i = 1
    BY <1>1, <2>2
  <2>3. CASE i # 1
    <3>1. i - 1 \in 1 .. Len(q) - 1 /\ p[i - 1] = q[i]
      BY <1>1, <1>2, <2>3
    <3>2. QED
      BY <1>3, <3>1 DEF Ops
  <2>4. QED
    BY <2>2, <2>3
<1>6. Ops(p) \cup {Head(q).op} \subseteq Ops(q)
  BY <1>1, <1>2, <1>3 DEF Ops
<1>7. ASSUME EstablishedFirst(q)
      PROVE  /\ Head(q).op = "connectEstablished"
             /\ "connectEstablished" \notin Ops(p)
  BY <1>1, <1>2, <1>3, <1>7 DEF EstablishedFirst, Ops
<1>8. QED
  BY <1>2, <1>4, <1>5, <1>6, <1>7

(* A pass holds the connection if one of its functors does. *)
LEMMA HoldsByOps ==
    ASSUME NEW q \in Seq(Functors)
    PROVE  HoldsConn(q) <=> Ops(q) \cap Strong # {}
BY DEF HoldsConn, Ops, Range

(* What can be queued is one of these. *)
LEMMA OpsAre ==
    ASSUME NEW q \in Seq(Functors)
    PROVE  Ops(q) \subseteq FunctorOps
<1>1. \A i \in DOMAIN q : q[i] \in Functors
  BY LenProperties, ElementOfSeq
<1>2. QED
  BY <1>1 DEF Ops, Functors

-----------------------------------------------------------------------------
(* sendInLoop().                                                           *)

Bits == Message \cup {Junk}

(* What is cut in two parts keeps its length. *)
LEMMA CutInTwo ==
    ASSUME NEW data \in Seq(Bits), NEW n \in 0 .. Len(data)
    PROVE  /\ SubSeq(data, n + 1, Len(data)) \in Seq(Bits)
           /\ SubSeq(data, 1, n) \in Seq(Bits)
           /\ Len(SubSeq(data, n + 1, Len(data))) = Len(data) - n
           /\ Len(SubSeq(data, 1, n)) = n
<1>1. Len(data) \in Nat /\ n \in Nat /\ n <= Len(data)
  BY LenProperties
<1>2. \A i \in 1 .. Len(data) : data[i] \in Bits
  BY ElementOfSeq
<1>3. /\ SubSeq(data, 1, n) \in Seq(Bits)
      /\ Len(SubSeq(data, 1, n)) = n
  BY <1>1, <1>2, SubSeqProperties
<1>4. /\ SubSeq(data, n + 1, Len(data)) \in Seq(Bits)
      /\ Len(SubSeq(data, n + 1, Len(data))) = Len(data) - n
  BY <1>1, <1>2, SubSeqProperties
<1>5. QED
  BY <1>3, <1>4

(* Two sequences one after the other. *)
LEMMA Together ==
    ASSUME NEW p \in Seq(Bits), NEW q \in Seq(Bits)
    PROVE  /\ p \o q \in Seq(Bits) /\ Len(p \o q) = Len(p) + Len(q)
           /\ (p \o q = <<>>) <=> (p = <<>> /\ q = <<>>)
           /\ (p = <<>>) <=> (Len(p) = 0)
<1>1. p \o q \in Seq(Bits) /\ Len(p \o q) = Len(p) + Len(q)
  BY ConcatProperties
<1>2. Len(p) \in Nat /\ Len(q) \in Nat
  BY LenProperties
<1>3. /\ (p \o q = <<>>) <=> (Len(p \o q) = 0)
      /\ (p = <<>>) <=> (Len(p) = 0)
      /\ (q = <<>>) <=> (Len(q) = 0)
  BY <1>1, EmptySeq
<1>4. QED
  BY <1>1, <1>2, <1>3

(* What sendInLoop() works on has its type. *)
SendTypes ==
    /\ outputBuffer_ \in Seq(Bits) /\ wire \in Seq(Bits) /\ ioQueue \in Seq(Functors)
    /\ events_ \subseteq {"read", "write"} /\ index_ \in {"kNew", "kAdded", "kDeleted"}

(* As it has when everything has. *)
LEMMA SendTypesHold ==
    ASSUME ConnTypes
    PROVE  SendTypes
BY DEF ConnTypes, TypeOK, Bits, SendTypes

(* What sendInLoop() does to buffer, wire, channel and loop. *)
LEMMA SendMakes ==
    ASSUME SendTypes, NEW data \in Seq(Bits), SendInLoop(data)
    PROVE  /\ outputBuffer_' \in Seq(Bits) /\ wire' \in Seq(Bits)
           /\ ioQueue' \in Seq(Functors) /\ Ops(ioQueue) \subseteq Ops(ioQueue')
           /\ Ops(ioQueue') \subseteq Ops(ioQueue) \cup {"writeComplete", "highWaterMark"}
           /\ events_' \subseteq {"read", "write"} /\ index_' \in {"kNew", "kAdded", "kDeleted"}
           /\ state_ = "kDisconnected" => UNCHANGED <<outputBuffer_, wire, chan, ioQueue>>
           /\ index_ = "kAdded" /\ (("write" \in events_) <=> (outputBuffer_ # <<>>)) =>
                 /\ index_' = "kAdded" /\ events_ \subseteq events_'
                 /\ ("write" \in events_') <=> (outputBuffer_' # <<>>)
           /\ index_ # "kAdded" /\ events_ = {} =>
                 \/ UNCHANGED chan
                 \/ index_' = "kAdded" /\ events_' = {"write"} /\ outputBuffer_' # <<>>
           /\ state_ # "kDisconnected" /\ ~Broken =>
                 Len(wire') + Len(outputBuffer_') = Len(wire) + Len(outputBuffer_) + Len(data)
<1>1. /\ outputBuffer_ \in Seq(Bits) /\ wire \in Seq(Bits) /\ ioQueue \in Seq(Functors)
      /\ events_ \subseteq {"read", "write"} /\ index_ \in {"kNew", "kAdded", "kDeleted"}
      /\ Len(outputBuffer_) \in Nat /\ Len(wire) \in Nat /\ Len(data) \in Nat
  BY LenProperties DEF SendTypes
<1>2. CASE /\ GivesUp \/ (Direct /\ Broken)
           /\ UNCHANGED <<outputBuffer_, wire, chan, ioQueue>>
  BY <1>1, <1>2 DEF GivesUp, chan
<1>3. ASSUME ~GivesUp, NEW n \in 0 .. Len(data), NEW tail, NEW front,
             ~Direct => n = 0,
             tail = SubSeq(data, n + 1, Len(data)), front = SubSeq(data, 1, n),
             wire' = wire \o front, outputBuffer_' = outputBuffer_ \o tail,
             IF tail = <<>>
             THEN WriteCompleteQueued /\ UNCHANGED chan
             ELSE /\ ioQueue' = IF /\ Len(outputBuffer_) + Len(tail) >= highWaterMark_
                                   /\ Len(outputBuffer_) < highWaterMark_
                                THEN Append(ioQueue, Functor("highWaterMark"))
                                ELSE ioQueue
                  /\ IF "write" \in events_
                     THEN UNCHANGED chan
                     ELSE UpdateChannel(events_ \cup {"write"})
      PROVE  /\ outputBuffer_' \in Seq(Bits) /\ wire' \in Seq(Bits)
             /\ ioQueue' \in Seq(Functors) /\ Ops(ioQueue) \subseteq Ops(ioQueue')
             /\ Ops(ioQueue') \subseteq Ops(ioQueue) \cup {"writeComplete", "highWaterMark"}
             /\ events_' \subseteq {"read", "write"} /\ index_' \in {"kNew", "kAdded", "kDeleted"}
             /\ index_ = "kAdded" /\ (("write" \in events_) <=> (outputBuffer_ # <<>>)) =>
                   /\ index_' = "kAdded" /\ events_ \subseteq events_'
                   /\ ("write" \in events_') <=> (outputBuffer_' # <<>>)
             /\ index_ # "kAdded" /\ events_ = {} =>
                   \/ UNCHANGED chan
                   \/ index_' = "kAdded" /\ events_' = {"write"} /\ outputBuffer_' # <<>>
             /\ Len(wire') + Len(outputBuffer_') = Len(wire) + Len(outputBuffer_) + Len(data)
  <2>1. /\ tail \in Seq(Bits) /\ front \in Seq(Bits)
        /\ Len(tail) = Len(data) - n /\ Len(front) = n /\ n \in Nat
    BY <1>1, <1>3, CutInTwo
  <2>2. /\ outputBuffer_' \in Seq(Bits) /\ Len(outputBuffer_') = Len(outputBuffer_) + Len(tail)
        /\ (outputBuffer_' = <<>>) <=> (outputBuffer_ = <<>> /\ tail = <<>>)
        /\ wire' \in Seq(Bits) /\ Len(wire') = Len(wire) + Len(front)
    BY <1>1, <1>3, <2>1, Together
  <2>3. /\ ioQueue' \in Seq(Functors) /\ Ops(ioQueue) \subseteq Ops(ioQueue')
        /\ Ops(ioQueue') \subseteq Ops(ioQueue) \cup {"writeComplete", "highWaterMark"}
    <3>1. CASE ioQueue' = ioQueue
      BY <1>1, <3>1
    <3>2. ASSUME NEW op \in {"writeComplete", "highWaterMark"},
                 ioQueue' = Append(ioQueue, Functor(op))
          PROVE  /\ ioQueue' \in Seq(Functors)
                 /\ Ops(ioQueue') = Ops(ioQueue) \cup {op}
      BY <1>1, <3>2, QueueMakes DEF FunctorOps, Strong
    <3>3. \/ ioQueue' = ioQueue
          \/ ioQueue' = Append(ioQueue, Functor("writeComplete"))
          \/ ioQueue' = Append(ioQueue, Functor("highWaterMark"))
      BY <1>3 DEF WriteCompleteQueued
    <3>4. QED
      BY <3>1, <3>2, <3>3
  <2>4. Len(wire') + Len(outputBuffer_') = Len(wire) + Len(outputBuffer_) + Len(data)
    BY <1>1, <2>1, <2>2
  <2>5. \/ tail = <<>> /\ UNCHANGED chan
        \/ tail # <<>> /\ "write" \in events_ /\ UNCHANGED chan
        \/ tail # <<>> /\ "write" \notin events_ /\ UpdateChannel(events_ \cup {"write"})
    BY <1>3
  <2>6. events_' \subseteq {"read", "write"} /\ index_' \in {"kNew", "kAdded", "kDeleted"}
    BY <1>1, <2>5 DEF chan, UpdateChannel
  <2>7. ASSUME index_ = "kAdded", ("write" \in events_) <=> (outputBuffer_ # <<>>)
        PROVE  /\ index_' = "kAdded" /\ events_ \subseteq events_'
               /\ ("write" \in events_') <=> (outputBuffer_' # <<>>)
    BY <2>2, <2>5, <2>7 DEF chan, UpdateChannel
  <2>8. ASSUME index_ # "kAdded", events_ = {}
        PROVE  \/ UNCHANGED chan
               \/ index_' = "kAdded" /\ events_' = {"write"} /\ outputBuffer_' # <<>>
    BY <2>2, <2>5, <2>8 DEF UpdateChannel
  <2>9. QED
    BY <2>2, <2>3, <2>4, <2>6, <2>7, <2>8
<1>4. CASE /\ ~GivesUp /\ ~(Direct /\ Broken)
           /\ \E n \in IF Direct THEN 0 .. Len(data) ELSE {0} :
                LET tail == SubSeq(data, n + 1, Len(data))
                    old == Len(outputBuffer_)
                IN /\ wire' = wire \o SubSeq(data, 1, n)
                   /\ outputBuffer_' = outputBuffer_ \o tail
                   /\ IF tail = <<>>
                      THEN WriteCompleteQueued /\ UNCHANGED chan
                      ELSE /\ ioQueue' =
                                IF /\ old + Len(tail) >= highWaterMark_
                                   /\ old < highWaterMark_
                                THEN Append(ioQueue, Functor("highWaterMark"))
                                ELSE ioQueue
                           /\ IF "write" \in events_
                              THEN UNCHANGED chan
                              ELSE UpdateChannel(events_ \cup {"write"})
  <2>1. PICK n \in IF Direct THEN 0 .. Len(data) ELSE {0} :
           LET tail == SubSeq(data, n + 1, Len(data))
               old == Len(outputBuffer_)
           IN /\ wire' = wire \o SubSeq(data, 1, n)
              /\ outputBuffer_' = outputBuffer_ \o tail
              /\ IF tail = <<>>
                 THEN WriteCompleteQueued /\ UNCHANGED chan
                 ELSE /\ ioQueue' =
                           IF /\ old + Len(tail) >= highWaterMark_
                              /\ old < highWaterMark_
                           THEN Append(ioQueue, Functor("highWaterMark"))
                           ELSE ioQueue
                      /\ IF "write" \in events_
                         THEN UNCHANGED chan
                         ELSE UpdateChannel(events_ \cup {"write"})
    BY <1>4
  <2>2. n \in 0 .. Len(data) /\ (~Direct => n = 0)
    BY <1>1, <2>1
  <2>3. ~GivesUp
    BY <1>4
  <2>4. QED
    BY <1>3, <2>1, <2>2, <2>3 DEF GivesUp
<1>5. QED
  BY <1>2, <1>4 DEF SendInLoop

-----------------------------------------------------------------------------
(* Steps of the peer, of the loop between its handlers, and of quit().     *)

(* Nothing has happened. *)
LEMMA InitConnInv == Init => ConnInv
<1> SUFFICES ASSUME Init
             PROVE  ConnInv
  OBVIOUS
<1>1. ConnTypes
  <2>1. baseIsIo \in BOOLEAN /\ userCalls \in UserPrograms
    BY TcpConnectionAssumption DEF Init, TcpConnectionAssumption
  <2>2. /\ <<>> \in Seq(Message \cup {Junk})
        /\ [t \in User |-> "idle"] \in [User -> Message \cup {"idle", "shutdown", "queue"}]
    OBVIOUS
  <2>3. TypeOK
    BY <2>1, <2>2 DEF Init, TypeOK, States
  <2>4. QED
    BY <2>1, <2>2, <2>3, OpsOfNone DEF Init, ConnTypes
<1>2. LoopPhases /\ BeforeUp /\ WhileUp /\ AfterDown /\ UsersCall
  BY OpsOfNone, TcpConnectionAssumption
     DEF Init, LoopPhases, BeforeUp, WhileUp, AfterDown, UsersCall, TcpConnectionAssumption
<1>3. QED
  BY <1>1, <1>2 DEF ConnInv

(* The peer changes what its socket has, which no part of ConnInv is about. *)
LEMMA PeerKeeps ==
    ASSUME ConnInv, PeerSends \/ PeerCloses \/ PeerResets
    PROVE  ConnInv'
<1>1. /\ UNCHANGED <<conn, chan, ioQueue, loop, callback, owner, users, told, finSent>>
      /\ rst' \in {"none", "pending", "taken"}
  BY DEF PeerSends, PeerCloses, PeerResets, ConnInv, ConnTypes, TypeOK
<1>2. ConnTypes'
  BY <1>1 DEF ConnInv, ConnTypes, TypeOK, conn, chan, loop, owner, users, told
<1>3. LoopPhases' /\ BeforeUp' /\ WhileUp' /\ AfterDown' /\ UsersCall'
  BY <1>1 DEF ConnInv, LoopPhases, BeforeUp, WhileUp, AfterDown, UsersCall,
     conn, chan, loop, owner, users, told
<1>4. QED
  BY <1>2, <1>3 DEF ConnInv

(* loop() looks at quit_; a loop that ends drops its functors. *)
LEMMA CheckQuitKeeps ==
    ASSUME ConnInv, CheckQuit
    PROVE  ConnInv'
<1>1. /\ UNCHANGED <<batch, batchHolds, revents_, ioQuit, conn, chan, callback, rest>>
      /\ phase = "check" /\ batch = <<>> /\ callback = "none"
      /\ \/ ioQuit /\ phase' = "stopped" /\ ioQueue' \in {ioQueue, <<>>}
         \/ ~ioQuit /\ phase' = "poll" /\ ioQueue' = ioQueue
  BY DEF CheckQuit, ConnInv, LoopPhases
<1>2. /\ ioQueue' \in Seq(Functors) /\ Ops(ioQueue') \subseteq Ops(ioQueue)
      /\ EstablishedFirst(ioQueue) => EstablishedFirst(ioQueue')
      /\ ioQueue' # ioQueue => ioQuit /\ ioQueue' = <<>> /\ ~baseIsIo
  BY <1>1, OpsOfNone DEF CheckQuit, ConnInv, ConnTypes
<1>3. ConnTypes'
  BY <1>1, <1>2 DEF ConnInv, ConnTypes, TypeOK, conn, chan, rest, owner, users, sock, told
<1>4. LoopPhases'
  BY <1>1 DEF ConnInv, LoopPhases, rest, owner
<1>5. BeforeUp'
  BY <1>1, <1>2 DEF ConnInv, BeforeUp, LoopPhases, conn, chan, rest, owner, users, sock, told
<1>6. WhileUp' /\ AfterDown' /\ UsersCall'
  BY <1>1, <1>2 DEF ConnInv, WhileUp, AfterDown, UsersCall, conn, chan, rest, owner, users, sock, told
<1>7. QED
  BY <1>3, <1>4, <1>5, <1>6 DEF ConnInv

(* Only a registered channel has events, so that they come while it is up. *)
LEMMA PollKeeps ==
    ASSUME ConnInv, PollActive \/ PollOthers
    PROVE  ConnInv'
<1>1. /\ UNCHANGED <<batch, batchHolds, ioQuit, conn, chan, ioQueue, callback, rest>>
      /\ phase = "poll" /\ phase' = "events" /\ callback = "none" /\ batch = <<>>
      /\ revents_' \subseteq {"HUP", "ERR", "IN", "OUT"}
      /\ revents_' # {} => index_ = "kAdded"
  BY DEF PollActive, PollOthers, Poll, Ready, ConnInv, LoopPhases
<1>2. index_ = "kAdded" => ups = 1 /\ downs = 0
  BY DEF ConnInv, BeforeUp, WhileUp, AfterDown, ConnTypes, TypeOK
<1>3. ConnTypes'
  BY <1>1 DEF ConnInv, ConnTypes, TypeOK, conn, chan, rest, owner, users, sock, told
<1>4. LoopPhases'
  BY <1>1 DEF ConnInv, LoopPhases, rest, owner
<1>5. BeforeUp'
  BY <1>1, <1>2 DEF ConnInv, BeforeUp, conn, chan, rest, owner, users, sock, told
<1>6. WhileUp' /\ AfterDown' /\ UsersCall'
  BY <1>1, <1>2 DEF ConnInv, WhileUp, AfterDown, UsersCall, conn, chan, rest, owner, users, sock, told
<1>7. QED
  BY <1>3, <1>4, <1>5, <1>6 DEF ConnInv

(* doPendingFunctors() takes what is queued. *)
LEMMA SwapKeeps ==
    ASSUME ConnInv, SwapFunctors
    PROVE  ConnInv'
<1>1. /\ UNCHANGED <<revents_, ioQuit, conn, chan, callback, rest>>
      /\ phase = "events" /\ phase' = "functors" /\ callback = "none" /\ batch = <<>>
      /\ revents_ = {} /\ batch' = ioQueue /\ ioQueue' = <<>>
      /\ ioQueue \in Seq(Functors)
  BY DEF SwapFunctors, ConnInv, ConnTypes, LoopPhases
<1>2. batchHolds' <=> Ops(ioQueue) \cap Strong # {}
  BY <1>1, HoldsByOps DEF SwapFunctors
<1>3. batchHolds' \in BOOLEAN
  BY DEF SwapFunctors, HoldsConn
<1>4. ConnTypes'
  BY <1>1, <1>3, OpsOfNone DEF ConnInv, ConnTypes, TypeOK, conn, chan, rest, owner, users, sock, told
<1>5. LoopPhases'
  BY <1>1, <1>2 DEF ConnInv, LoopPhases, rest, owner
<1>6. BeforeUp'
  BY <1>1, OpsOfNone DEF ConnInv, BeforeUp, conn, chan, rest, owner, users, sock, told
<1>7. WhileUp' /\ AfterDown' /\ UsersCall'
  BY <1>1, OpsOfNone DEF ConnInv, WhileUp, AfterDown, UsersCall, conn, chan, rest, owner, users,
     sock, told
<1>8. QED
  BY <1>4, <1>5, <1>6, <1>7 DEF ConnInv

(* The last functor of the pass is done, or somebody calls quit(). *)
LEMMA EndOrQuitKeeps ==
    ASSUME ConnInv, EndFunctors \/ QuitBaseLoop \/ QuitIoLoop
    PROVE  ConnInv'
<1>1. /\ UNCHANGED <<batch, revents_, conn, chan, ioQueue, callback, rest>>
      /\ \/ /\ UNCHANGED ioQuit /\ batchHolds' = FALSE
            /\ phase' = "check" /\ phase = "functors" /\ batch = <<>> /\ callback = "none"
         \/ /\ UNCHANGED <<batchHolds, phase>> /\ ioQuit' = TRUE
            /\ baseIsIo \/ server = "dying"
  BY DEF EndFunctors, QuitBaseLoop, QuitIoLoop
<1>2. ConnTypes'
  <2>1. /\ ioQuit' \in BOOLEAN /\ batchHolds' \in BOOLEAN
        /\ phase' \in {"check", "poll", "events", "functors", "stopped"}
    BY <1>1 DEF ConnInv, ConnTypes, TypeOK
  <2>2. QED
    BY <1>1, <2>1 DEF ConnInv, ConnTypes, TypeOK, conn, chan, rest, owner, users, sock, told
<1>3. LoopPhases'
  BY <1>1, OpsOfNone DEF ConnInv, LoopPhases, ConnTypes, TypeOK, rest, owner
<1>4. BeforeUp' /\ WhileUp' /\ AfterDown' /\ UsersCall'
  BY <1>1 DEF ConnInv, BeforeUp, WhileUp, AfterDown, UsersCall, conn, chan, rest, owner, users,
     sock, told
<1>5. QED
  BY <1>2, <1>3, <1>4 DEF ConnInv

-----------------------------------------------------------------------------
(* Channel::handleEventWithGuard() and the handlers.                       *)

(* An event that is to be handled is one of a connection that is up. *)
LEMMA EventsWhileUp ==
    ASSUME ConnInv
    PROVE  /\ revents_ # {} => ups = 1
           /\ revents_ \cap {"HUP", "IN"} # {} => ups = 1 /\ downs = 0
<1>1. ups \in {0, 1} /\ downs \in {0, 1}
  BY DEF ConnInv, ConnTypes, TypeOK, WhileUp
<1>2. ups = 0 => revents_ = {}
  BY DEF ConnInv, BeforeUp
<1>3. downs = 1 => revents_ \cap {"HUP", "IN"} = {}
  BY DEF ConnInv, AfterDown
<1>4. QED
  BY <1>1, <1>2, <1>3

(* An event is taken, and at most the message callback called. *)
LEMMA EventTaken ==
    ASSUME ConnInv, phase = "events", callback = "none", revents_ # {}, revents_' \subseteq revents_,
           UNCHANGED <<batch, batchHolds, phase, ioQuit, conn, chan, ioQueue, owner, users, told>>,
           UNCHANGED finSent, rst' \in {"none", "pending", "taken"},
           callback' = "none" \/ (callback' = "message" /\ revents_ \cap {"HUP", "IN"} # {})
    PROVE  ConnInv'
<1>1. ups = 1 /\ (callback' = "message" => downs = 0)
  BY EventsWhileUp
<1>2. ConnTypes'
  BY DEF ConnInv, ConnTypes, TypeOK, conn, chan, owner, users, told
<1>3. LoopPhases'
  BY DEF ConnInv, LoopPhases, owner
<1>4. BeforeUp' /\ WhileUp' /\ AfterDown' /\ UsersCall'
  BY <1>1 DEF ConnInv, BeforeUp, WhileUp, AfterDown, UsersCall, conn, chan, owner, users, told
<1>5. QED
  BY <1>2, <1>3, <1>4 DEF ConnInv

(* handleClose(): the channel was registered, and now it is kDeleted. *)
LEMMA CloseKeeps ==
    ASSUME ConnInv, phase = "events", callback = "none", revents_ \cap {"HUP", "IN"} # {},
           HandleClose, revents_' \subseteq revents_ \ {"HUP", "IN"},
           UNCHANGED <<batch, batchHolds, phase, ioQuit, ioQueue, owner, users, finSent, rst>>
    PROVE  ConnInv'
<1>1. ups = 1 /\ downs = 0 /\ index_ = "kAdded" /\ baseQueue = 0
  BY EventsWhileUp DEF ConnInv, WhileUp
<1>2. /\ state_' = "kDisconnected" /\ events_' = {} /\ index_' = "kDeleted"
      /\ callback' = "closeDown" /\ downs' = 1 /\ ups' = 1
      /\ UNCHANGED <<outputBuffer_, wire, sent>>
  BY <1>1 DEF HandleClose, UpdateChannel
<1>3. ConnTypes'
  BY <1>2 DEF ConnInv, ConnTypes, TypeOK, States, owner, users
<1>4. LoopPhases'
  BY <1>2 DEF ConnInv, LoopPhases, owner
<1>5. BeforeUp' /\ WhileUp' /\ AfterDown' /\ UsersCall'
  BY <1>1, <1>2 DEF ConnInv, BeforeUp, WhileUp, AfterDown, UsersCall, owner, users
<1>6. QED
  BY <1>3, <1>4, <1>5 DEF ConnInv

(* EPOLLHUP closes, but not when there is something to read. *)
LEMMA HandleHupKeeps ==
    ASSUME ConnInv, HandleHup
    PROVE  ConnInv'
<1>1. /\ phase = "events" /\ callback = "none" /\ "HUP" \in revents_
      /\ revents_' = revents_ \ {"HUP"}
      /\ UNCHANGED <<batch, batchHolds, phase, ioQuit, ioQueue, owner, users, finSent, rst>>
      /\ rst \in {"none", "pending", "taken"}
  BY DEF HandleHup, Due, sock, ConnInv, ConnTypes, TypeOK
<1>2. CASE "IN" \in revents_
  BY <1>1, <1>2, EventTaken DEF HandleHup
<1>3. CASE "IN" \notin revents_
  <2>1. HandleClose /\ revents_' \subseteq revents_ \ {"HUP", "IN"}
    BY <1>1, <1>3 DEF HandleHup
  <2>2. QED
    BY <1>1, <2>1, CloseKeeps
<1>4. QED
  BY <1>2, <1>3

(* EPOLLERR takes the error of the socket. *)
LEMMA HandleErrorKeeps ==
    ASSUME ConnInv, HandleError
    PROVE  ConnInv'
<1>1. /\ phase = "events" /\ callback = "none" /\ revents_ # {} /\ revents_' \subseteq revents_
      /\ UNCHANGED <<batch, batchHolds, phase, ioQuit, conn, chan, ioQueue, owner, users, told>>
      /\ UNCHANGED finSent /\ rst' \in {"none", "pending", "taken"} /\ callback' = "none"
  BY DEF HandleError, Due
<1>2. QED
  BY <1>1, EventTaken

(* handleRead() passes data to the message callback, and closes at the end. *)
LEMMA HandleReadKeeps ==
    ASSUME ConnInv, HandleRead
    PROVE  ConnInv'
<1>1. /\ phase = "events" /\ callback = "none" /\ "IN" \in revents_ /\ "HUP" \notin revents_
      /\ revents_' = revents_ \ {"IN"}
      /\ UNCHANGED <<batch, batchHolds, phase, ioQuit, ioQueue, owner, users, finSent>>
      /\ rst \in {"none", "pending", "taken"}
  BY DEF HandleRead, Due, ConnInv, ConnTypes, TypeOK
<1>2. CASE inData \/ rst = "pending"
  <2>1. /\ UNCHANGED <<conn, chan, told>> /\ rst' \in {"none", "pending", "taken"}
        /\ callback' \in {"none", "message"}
    BY <1>1, <1>2 DEF HandleRead
  <2>2. QED
    BY <1>1, <2>1, EventTaken
<1>3. CASE ~inData /\ rst # "pending"
  <2>1. HandleClose /\ UNCHANGED rst
    BY <1>3 DEF HandleRead
  <2>2. QED
    BY <1>1, <2>1, CloseKeeps
<1>4. QED
  BY <1>2, <1>3

(* What is left of the bytes when n are taken. *)
LEMMA DropSome ==
    ASSUME NEW q \in Seq(Bits), NEW n \in 1 .. Len(q)
    PROVE  /\ SubSeq(q, n + 1, Len(q)) \in Seq(Bits)
           /\ Len(SubSeq(q, n + 1, Len(q))) = Len(q) - n
           /\ Len([i \in 1 .. n |-> Junk]) = n /\ [i \in 1 .. n |-> Junk] \in Seq(Bits)
           /\ n \in Nat
<1>1. Len(q) \in Nat /\ n \in 0 .. Len(q) /\ n \in Nat
  BY LenProperties
<1>2. [i \in 1 .. n |-> Junk] \in [1 .. n -> Bits]
  BY DEF Bits
<1>3. [i \in 1 .. n |-> Junk] \in Seq(Bits) /\ Len([i \in 1 .. n |-> Junk]) = n
  BY <1>1, <1>2, SeqDef
<1>4. QED
  BY <1>1, <1>3, CutInTwo

(* handleWrite() of a connection that is up; what it does not write keeps the
   channel watched for writability. *)
LEMMA WriteMakes ==
    ASSUME ConnInv, HandleWrite, "write" \in events_ /\ ~Broken
    PROVE  /\ ups = 1 /\ downs = 0 /\ index_' = "kAdded"
           /\ "read" \in events_' /\ events_' \subseteq {"read", "write"}
           /\ ("write" \in events_') <=> (outputBuffer_' # <<>>)
           /\ wire' \in Seq(Bits) /\ outputBuffer_' \in Seq(Bits)
           /\ Len(wire') + Len(outputBuffer_') = Len(wire) + Len(outputBuffer_)
           /\ ioQueue' \in Seq(Functors) /\ Ops(ioQueue) \subseteq Ops(ioQueue')
           /\ Ops(ioQueue') \subseteq Ops(ioQueue) \cup {"writeComplete"}
           /\ UNCHANGED <<state_, sent>> /\ finSent' \in BOOLEAN
           /\ finSent' => finSent \/ (outputBuffer_' = <<>> /\ state_ = "kDisconnecting")
<1>1. /\ outputBuffer_ \in Seq(Bits) /\ wire \in Seq(Bits) /\ ioQueue \in Seq(Functors)
      /\ events_ \subseteq {"read", "write"} /\ finSent \in BOOLEAN
  BY DEF ConnInv, ConnTypes, TypeOK, Bits
<1>2. /\ ups = 1 /\ downs = 0 /\ index_ = "kAdded" /\ "read" \in events_
      /\ outputBuffer_ # <<>>
  BY DEF ConnInv, ConnTypes, TypeOK, BeforeUp, WhileUp, AfterDown
<1>3. PICK n \in 1 .. Len(outputBuffer_) :
        /\ wire' = wire \o [i \in 1 .. n |-> Junk]
        /\ outputBuffer_' = SubSeq(outputBuffer_, n + 1, Len(outputBuffer_))
        /\ IF outputBuffer_' = <<>>
           THEN OutputDrained
           ELSE UNCHANGED <<chan, ioQueue, finSent>>
        /\ UNCHANGED <<state_, sent>>
  BY DEF HandleWrite
<1>4. /\ outputBuffer_' \in Seq(Bits) /\ n \in Nat
      /\ Len(outputBuffer_') = Len(outputBuffer_) - n
      /\ wire' \in Seq(Bits) /\ Len(wire') = Len(wire) + n
  <2> DEFINE junk == [i \in 1 .. n |-> Junk]
  <2>1. /\ outputBuffer_' \in Seq(Bits) /\ n \in Nat
        /\ Len(outputBuffer_') = Len(outputBuffer_) - n
        /\ junk \in Seq(Bits) /\ Len(junk) = n
    BY <1>1, <1>3, DropSome
  <2>2. wire' = wire \o junk
    BY <1>3
  <2> HIDE DEF junk
  <2>3. wire' \in Seq(Bits) /\ Len(wire') = Len(wire) + Len(junk)
    BY <1>1, <2>1, <2>2, Together
  <2>4. QED
    BY <2>1, <2>3
<1>5. Len(wire') + Len(outputBuffer_') = Len(wire) + Len(outputBuffer_)
  <2>1. Len(wire) \in Nat /\ Len(outputBuffer_) \in Nat
    BY <1>1, LenProperties
  <2>2. QED
    BY <1>4, <2>1
<1>6. CASE outputBuffer_' = <<>>
  <2>1. OutputDrained
    BY <1>3, <1>6
  <2>2. /\ events_' = events_ \ {"write"} /\ index_' = "kAdded"
        /\ finSent' = (finSent \/ state_ = "kDisconnecting")
    BY <1>2, <2>1 DEF OutputDrained, UpdateChannel
  <2>3. /\ ioQueue' \in Seq(Functors) /\ Ops(ioQueue) \subseteq Ops(ioQueue')
        /\ Ops(ioQueue') \subseteq Ops(ioQueue) \cup {"writeComplete"}
    <3>1. CASE ioQueue' = ioQueue
      BY <1>1, <3>1
    <3>2. CASE ioQueue' = Append(ioQueue, Functor("writeComplete"))
      BY <1>1, <3>2, QueueMakes DEF FunctorOps, Strong
    <3>3. QED
      BY <2>1, <3>1, <3>2 DEF OutputDrained, WriteCompleteQueued
  <2>4. QED
    BY <1>1, <1>2, <1>3, <1>4, <1>5, <1>6, <2>2, <2>3
<1>7. CASE outputBuffer_' # <<>>
  <2>1. UNCHANGED <<events_, index_, ioQueue, finSent>>
    BY <1>3, <1>7 DEF chan
  <2>2. QED
    BY <1>1, <1>2, <1>3, <1>4, <1>5, <1>7, <2>1
<1>8. QED
  BY <1>6, <1>7

(* handleWrite() *)
LEMMA HandleWriteKeeps ==
    ASSUME ConnInv, HandleWrite
    PROVE  ConnInv'
<1>1. /\ phase = "events" /\ callback = "none" /\ "OUT" \in revents_
      /\ revents_' = revents_ \ {"OUT"}
      /\ UNCHANGED <<batch, batchHolds, phase, ioQuit, owner, users, told, rst, callback>>
      /\ rst \in {"none", "pending", "taken"}
  BY DEF HandleWrite, Due, ConnInv, ConnTypes, TypeOK
<1>2. CASE ~("write" \in events_ /\ ~Broken)
  <2>1. UNCHANGED <<conn, chan, ioQueue, finSent>>
    BY <1>2 DEF HandleWrite
  <2>2. QED
    BY <1>1, <2>1, EventTaken
<1>3. CASE "write" \in events_ /\ ~Broken
  <2>1. /\ ups = 1 /\ downs = 0 /\ index_' = "kAdded"
        /\ "read" \in events_' /\ events_' \subseteq {"read", "write"}
        /\ ("write" \in events_') <=> (outputBuffer_' # <<>>)
        /\ wire' \in Seq(Bits) /\ outputBuffer_' \in Seq(Bits)
        /\ ioQueue' \in Seq(Functors)
        /\ Ops(ioQueue') \subseteq Ops(ioQueue) \cup {"writeComplete"}
        /\ UNCHANGED <<state_, sent>> /\ finSent' \in BOOLEAN
    BY <1>3, WriteMakes
  <2>2. ConnTypes'
    BY <1>1, <2>1 DEF ConnInv, ConnTypes, TypeOK, Bits, owner, users, told
  <2>3. LoopPhases'
    BY <1>1, <2>1 DEF ConnInv, LoopPhases, owner
  <2>4. BeforeUp' /\ WhileUp' /\ AfterDown' /\ UsersCall'
    BY <1>1, <2>1 DEF ConnInv, BeforeUp, WhileUp, AfterDown, UsersCall, owner, users, told
  <2>5. QED
    BY <2>2, <2>3, <2>4 DEF ConnInv
<1>4. QED
  BY <1>2, <1>3

-----------------------------------------------------------------------------
(* The functors.                                                           *)

(* The functor that is run, and the ones after it. *)
LEMMA FunctorIs ==
    ASSUME ConnInv, RunFunctor
    PROVE  /\ Head(batch) \in Functors /\ batch' \in Seq(Functors)
           /\ Ops(batch) = {Head(batch).op} \cup Ops(batch')
           /\ phase = "functors" /\ callback = "none" /\ revents_ = {} /\ created
           /\ UNCHANGED <<batchHolds, phase, revents_, ioQuit, owner>>
           /\ Ops(batch') \cap Strong # {} => batchHolds
           /\ IF Head(batch).op = "connectEstablished" THEN ups = 0 ELSE ups = 1
           /\ "connectEstablished" \notin Ops(batch') \cup Ops(ioQueue)
           /\ Head(batch).op = "sendInLoop" => "send" \in userCalls
<1>1. /\ batch \in Seq(Functors) /\ batch # <<>> /\ batch' = Tail(batch)
      /\ phase = "functors" /\ callback = "none"
      /\ UNCHANGED <<batchHolds, phase, revents_, ioQuit, owner>>
  BY DEF RunFunctor, ConnInv, ConnTypes
<1>2. /\ Head(batch) \in Functors /\ batch' \in Seq(Functors)
      /\ Ops(batch) = {Head(batch).op} \cup Ops(batch')
      /\ EstablishedFirst(batch) => /\ Head(batch).op = "connectEstablished"
                                    /\ "connectEstablished" \notin Ops(batch')
  BY <1>1, OpsTail
<1>3. revents_ = {} /\ ups \in {0, 1}
  BY <1>1 DEF ConnInv, ConnTypes, TypeOK, LoopPhases, WhileUp
<1>4. Ops(batch') \cap Strong # {} => batchHolds
  BY <1>2 DEF ConnInv, LoopPhases
<1>5. ups = 0 => /\ created /\ Head(batch).op = "connectEstablished"
                 /\ "connectEstablished" \notin Ops(batch') \cup Ops(ioQueue)
  BY <1>1, <1>2 DEF ConnInv, BeforeUp
<1>6. ups = 1 => /\ created /\ Head(batch).op # "connectEstablished"
                 /\ "connectEstablished" \notin Ops(batch') \cup Ops(ioQueue)
  BY <1>2 DEF ConnInv, WhileUp
<1>7. Head(batch).op = "sendInLoop" => "send" \in userCalls
  BY <1>2 DEF ConnInv, UsersCall
<1>8. QED
  BY <1>1, <1>2, <1>3, <1>4, <1>5, <1>6, <1>7

(* connectEstablished(), as a functor or in newConnection(). *)
LEMMA EstablishedKeeps ==
    ASSUME ConnInv, ups = 0, ConnectEstablished, created', connections_' \in BOOLEAN,
           UNCHANGED <<ioQueue, phase, revents_, ioQuit, baseQueue, server, baseIsIo>>,
           phase \in {"events", "functors"}, batch' \in Seq(Functors), Ops(batch') \subseteq Ops(batch),
           phase = "events" => batch' = <<>>, UNCHANGED batchHolds,
           "connectEstablished" \notin Ops(batch') \cup Ops(ioQueue)
    PROVE  ConnInv'
<1>1. /\ index_ = "kNew" /\ events_ = {} /\ outputBuffer_ = <<>> /\ downs = 0 /\ baseQueue = 0
      /\ \A t \in User : upc[t] = "idle"
  BY DEF ConnInv, BeforeUp, WhileUp
<1>2. /\ state_' = "kConnected" /\ events_' = {"read"} /\ index_' = "kAdded"
      /\ callback' = "up" /\ ups' = 1 /\ downs' = 0 /\ holds' = User
      /\ UNCHANGED <<outputBuffer_, wire, sent, userCalls, upc, sock>>
  BY <1>1 DEF ConnectEstablished, UpdateChannel
<1>3. ConnTypes'
  BY <1>2 DEF ConnInv, ConnTypes, TypeOK, States, sock
<1>4. LoopPhases'
  BY <1>2 DEF ConnInv, LoopPhases
<1>5. BeforeUp' /\ WhileUp' /\ AfterDown'
  BY <1>1, <1>2 DEF BeforeUp, WhileUp, AfterDown
<1>6. UsersCall'
  BY <1>1, <1>2 DEF ConnInv, UsersCall
<1>7. QED
  BY <1>3, <1>4, <1>5, <1>6 DEF ConnInv

(* connectDestroyed() up to the callback or to remove(). *)
LEMMA DestroyedMakes ==
    ASSUME ConnInv, ups = 1, ConnectDestroyed
    PROVE  /\ UNCHANGED <<outputBuffer_, wire, sent, ups, users, sock>>
           /\ \/ /\ state_ = "kConnected" /\ downs = 0 /\ downs' = 1
                 /\ state_' = "kDisconnected" /\ events_' = {} /\ index_' = "kDeleted"
                 /\ callback' = "destroyDown"
              \/ /\ state_ # "kConnected" /\ callback' = "remove"
                 /\ UNCHANGED <<state_, events_, index_, downs>>
<1>1. state_ = "kConnected" => downs = 0 /\ index_ = "kAdded"
  BY DEF ConnInv, ConnTypes, TypeOK, WhileUp, AfterDown
<1>2. QED
  BY <1>1 DEF ConnectDestroyed, UpdateChannel, chan

(* connectDestroyed(), as a functor. *)
LEMMA RunDestroyedKeeps ==
    ASSUME ConnInv, RunFunctor, Head(batch).op = "connectDestroyed", ConnectDestroyed,
           UNCHANGED ioQueue
    PROVE  ConnInv'
<1>1. /\ batch' \in Seq(Functors) /\ Ops(batch') \subseteq Ops(batch) /\ ups = 1
      /\ phase = "functors" /\ revents_ = {}
      /\ UNCHANGED <<batchHolds, phase, revents_, ioQuit, owner>>
      /\ Ops(batch') \cap Strong # {} => batchHolds
  BY FunctorIs
<1>2. /\ UNCHANGED <<outputBuffer_, wire, sent, ups, users, sock>>
      /\ \/ /\ state_ = "kConnected" /\ downs = 0 /\ downs' = 1
            /\ state_' = "kDisconnected" /\ events_' = {} /\ index_' = "kDeleted"
            /\ callback' = "destroyDown"
         \/ /\ callback' = "remove"
            /\ UNCHANGED <<state_, events_, index_, downs>>
  BY <1>1, DestroyedMakes
<1>3. ConnTypes'
  <2>1. /\ state_' \in States /\ events_' \subseteq {"read", "write"}
        /\ index_' \in {"kNew", "kAdded", "kDeleted"} /\ downs' \in Nat
        /\ callback' \in {"destroyDown", "remove"}
    <3>1. /\ state_ \in States /\ events_ \subseteq {"read", "write"}
          /\ index_ \in {"kNew", "kAdded", "kDeleted"} /\ downs \in Nat
      BY DEF ConnInv, ConnTypes, TypeOK
    <3>2. CASE callback' = "destroyDown" /\ state_' = "kDisconnected" /\ events_' = {}
                /\ index_' = "kDeleted" /\ downs' = 1
      BY <3>2 DEF States
    <3>3. CASE callback' = "remove" /\ UNCHANGED <<state_, events_, index_, downs>>
      BY <3>1, <3>3
    <3>4. QED
      BY <1>2, <3>2, <3>3
  <2>2. QED
    BY <1>1, <1>2, <2>1 DEF ConnInv, ConnTypes, TypeOK, owner, users, sock
<1>4. LoopPhases'
  BY <1>1, <1>2 DEF ConnInv, LoopPhases, owner
<1>5. BeforeUp' /\ WhileUp' /\ AfterDown' /\ UsersCall'
  BY <1>1, <1>2 DEF ConnInv, BeforeUp, WhileUp, AfterDown, UsersCall, owner, users
<1>6. QED
  BY <1>3, <1>4, <1>5 DEF ConnInv

(* sendInLoop(), as a functor: after the fall it gives up. *)
LEMMA RunSendKeeps ==
    ASSUME ConnInv, RunFunctor, Head(batch).op = "sendInLoop", SendInLoop(Head(batch).data),
           UNCHANGED <<state_, sent, callback, users, sock, told>>
    PROVE  ConnInv'
<1>1. /\ batch' \in Seq(Functors) /\ Ops(batch') \subseteq Ops(batch) /\ ups = 1
      /\ phase = "functors" /\ callback = "none" /\ revents_ = {} /\ Head(batch) \in Functors
      /\ UNCHANGED <<batchHolds, phase, revents_, ioQuit, owner>>
      /\ Ops(batch') \cap Strong # {} => batchHolds
      /\ "send" \in userCalls
  BY FunctorIs
<1>2. Head(batch).data \in Seq(Bits)
  BY <1>1 DEF Functors, Bits
<1>3. /\ outputBuffer_' \in Seq(Bits) /\ wire' \in Seq(Bits)
      /\ ioQueue' \in Seq(Functors)
      /\ Ops(ioQueue') \subseteq Ops(ioQueue) \cup {"writeComplete", "highWaterMark"}
      /\ events_' \subseteq {"read", "write"} /\ index_' \in {"kNew", "kAdded", "kDeleted"}
      /\ state_ = "kDisconnected" => UNCHANGED <<outputBuffer_, wire, chan, ioQueue>>
      /\ index_ = "kAdded" /\ (("write" \in events_) <=> (outputBuffer_ # <<>>)) =>
            /\ index_' = "kAdded" /\ events_ \subseteq events_'
            /\ ("write" \in events_') <=> (outputBuffer_' # <<>>)
  BY <1>2, SendMakes, SendTypesHold DEF ConnInv
<1>4. ConnTypes'
  BY <1>1, <1>3 DEF ConnInv, ConnTypes, TypeOK, Bits, owner, users, sock, told
<1>5. LoopPhases'
  BY <1>1, <1>3 DEF ConnInv, LoopPhases, owner
<1>6. BeforeUp' /\ WhileUp' /\ UsersCall'
  BY <1>1, <1>3 DEF ConnInv, BeforeUp, WhileUp, UsersCall, owner, users, told
<1>7. AfterDown'
  BY <1>1, <1>3 DEF ConnInv, AfterDown, owner, users, told, chan
<1>8. QED
  BY <1>4, <1>5, <1>6, <1>7 DEF ConnInv

(* shutdownInLoop() and the functors that call a callback. *)
LEMMA RunOtherKeeps ==
    ASSUME ConnInv, RunFunctor, Head(batch).op # "connectEstablished",
           UNCHANGED <<conn, chan, ioQueue, users, told, rst>>, finSent' \in BOOLEAN,
           callback' \in {"none", "note"}
    PROVE  ConnInv'
<1>1. /\ batch' \in Seq(Functors) /\ Ops(batch') \subseteq Ops(batch) /\ ups = 1
      /\ phase = "functors" /\ revents_ = {}
      /\ UNCHANGED <<batchHolds, phase, revents_, ioQuit, owner>>
      /\ Ops(batch') \cap Strong # {} => batchHolds
  BY FunctorIs
<1>2. ConnTypes'
  BY <1>1 DEF ConnInv, ConnTypes, TypeOK, conn, chan, owner, users, told
<1>3. LoopPhases'
  BY <1>1 DEF ConnInv, LoopPhases, owner
<1>4. BeforeUp' /\ WhileUp' /\ AfterDown' /\ UsersCall'
  BY <1>1 DEF ConnInv, BeforeUp, WhileUp, AfterDown, UsersCall, conn, chan, owner, users, told
<1>5. QED
  BY <1>2, <1>3, <1>4 DEF ConnInv

(* doPendingFunctors() runs the next functor. *)
LEMMA RunFunctorKeeps ==
    ASSUME ConnInv, RunFunctor
    PROVE  ConnInv'
<1> DEFINE f == Head(batch)
<1>1. CASE f.op = "connectEstablished" /\ ConnectEstablished /\ UNCHANGED ioQueue
  <2>1. /\ ups = 0 /\ batch' \in Seq(Functors) /\ Ops(batch') \subseteq Ops(batch)
        /\ phase = "functors" /\ created
        /\ UNCHANGED <<batchHolds, phase, revents_, ioQuit, owner>>
        /\ "connectEstablished" \notin Ops(batch') \cup Ops(ioQueue)
    BY <1>1, FunctorIs
  <2>2. created' /\ connections_' \in BOOLEAN /\ UNCHANGED <<baseQueue, server, baseIsIo>>
    BY <2>1 DEF owner, ConnInv, ConnTypes
  <2>3. QED
    BY <1>1, <2>1, <2>2, EstablishedKeeps
<1>2. CASE f.op = "connectDestroyed" /\ ConnectDestroyed /\ UNCHANGED ioQueue
  BY <1>2, RunDestroyedKeeps
<1>3. CASE /\ f.op = "sendInLoop" /\ SendInLoop(f.data)
           /\ UNCHANGED <<state_, sent, callback, users, sock, told>>
  BY <1>3, RunSendKeeps
<1>4. CASE /\ f.op = "shutdownInLoop" /\ ShutdownInLoop
           /\ UNCHANGED <<inData, peerFin, rst, conn, chan, ioQueue, callback, users, told>>
  <2>1. finSent' \in BOOLEAN /\ callback' = "none"
    BY <1>4, FunctorIs DEF ShutdownInLoop, ConnInv, ConnTypes
  <2>2. QED
    BY <1>4, <2>1, RunOtherKeeps
<1>5. CASE /\ f.op \in {"writeComplete", "highWaterMark"} /\ callback' = "note"
           /\ UNCHANGED <<conn, chan, ioQueue, users, sock, told>>
  <2>1. finSent' \in BOOLEAN /\ UNCHANGED rst
    BY <1>5 DEF sock, ConnInv, ConnTypes
  <2>2. QED
    BY <1>5, <2>1, RunOtherKeeps
<1>6. QED
  BY <1>1, <1>2, <1>3, <1>4, <1>5 DEF RunFunctor

-----------------------------------------------------------------------------
(* User callbacks.                                                         *)

(* A callback returns; handleClose() goes on with removeConnection(). *)
LEMMA CallbackReturnsKeeps ==
    ASSUME ConnInv, CallbackReturns
    PROVE  ConnInv'
<1>1. /\ UNCHANGED <<created, server, baseIsIo, conn, chan, loop, users, sock, told>>
      /\ callback # "none" /\ callback' \in {"none", "remove"}
      /\ callback' = "remove" => callback = "destroyDown"
      /\ ioQueue \in Seq(Functors) /\ baseQueue \in Nat /\ connections_ \in BOOLEAN
      /\ ups \in Nat /\ downs \in Nat
  BY DEF CallbackReturns, InCallback, ConnInv, ConnTypes, TypeOK
<1>2. ups = 1 /\ downs \in {0, 1}
  BY <1>1 DEF ConnInv, BeforeUp, WhileUp
<1>3. /\ ioQueue' \in Seq(Functors) /\ Ops(ioQueue') \subseteq Ops(ioQueue) \cup {"connectDestroyed"}
      /\ baseQueue' \in Nat /\ connections_' \in BOOLEAN
      /\ baseQueue' # baseQueue => downs = 1
  <2>1. CASE callback # "closeDown"
    BY <1>1, <2>1 DEF CallbackReturns
  <2>2. CASE callback = "closeDown" /\ baseIsIo
    <3>1. /\ connections_' = FALSE /\ baseQueue' = baseQueue
          /\ ioQueue' = Append(ioQueue, Functor("connectDestroyed"))
      BY <2>2 DEF CallbackReturns, RemoveConnectionInLoop
    <3>2. QED
      BY <1>1, <3>1, QueueMakes DEF FunctorOps, Strong
  <2>3. CASE callback = "closeDown" /\ ~baseIsIo
    <3>1. baseQueue' = baseQueue + 1 /\ UNCHANGED <<connections_, ioQueue>>
      BY <2>3 DEF CallbackReturns
    <3>2. downs = 1 /\ baseQueue = 0
      BY <1>2, <2>3 DEF ConnInv, WhileUp, AfterDown
    <3>3. QED
      BY <1>1, <3>1, <3>2
  <2>4. QED
    BY <2>1, <2>2, <2>3
<1>4. ConnTypes'
  BY <1>1, <1>3 DEF ConnInv, ConnTypes, TypeOK, conn, chan, loop, users, sock, told
<1>5. LoopPhases'
  BY <1>1 DEF ConnInv, LoopPhases, loop
<1>6. BeforeUp' /\ WhileUp' /\ AfterDown' /\ UsersCall'
  BY <1>1, <1>2, <1>3 DEF ConnInv, BeforeUp, WhileUp, AfterDown, UsersCall, conn, chan, loop,
     users, told
<1>7. QED
  BY <1>4, <1>5, <1>6 DEF ConnInv

(* Channel::remove(): what is up still reads, so that it has fallen. *)
LEMMA RemoveChannelKeeps ==
    ASSUME ConnInv, RemoveChannel
    PROVE  ConnInv'
<1>1. /\ UNCHANGED <<events_, conn, ioQueue, loop, rest>>
      /\ callback = "remove" /\ events_ = {} /\ callback' = "none" /\ index_' = "kNew"
      /\ ups \in Nat /\ downs \in Nat
  BY DEF RemoveChannel, ConnInv, ConnTypes, TypeOK
<1>2. ups = 1 /\ downs = 1
  BY <1>1 DEF ConnInv, BeforeUp, WhileUp
<1>3. ConnTypes'
  BY <1>1 DEF ConnInv, ConnTypes, TypeOK, conn, loop, rest, owner, users, sock, told
<1>4. LoopPhases'
  BY <1>1 DEF ConnInv, LoopPhases, loop, rest, owner
<1>5. BeforeUp' /\ WhileUp' /\ AfterDown' /\ UsersCall'
  BY <1>1, <1>2 DEF ConnInv, BeforeUp, WhileUp, AfterDown, UsersCall, conn, loop, rest, owner,
     users, sock, told
<1>6. QED
  BY <1>3, <1>4, <1>5 DEF ConnInv

(* send() in a callback. *)
LEMMA CallbackSendsKeeps ==
    ASSUME ConnInv, NEW m \in Message, NEW c \in {"send", "sendBuffer"}, CallbackSends(m, c)
    PROVE  ConnInv'
<1>1. PICK data \in Seq(Bits) : SendInLoop(data)
  <2>1. Bytes(m) \in Seq(Bits) /\ Bytes(Junk) \in Seq(Bits)
    BY DEF Bytes, Bits
  <2>2. QED
    BY <2>1 DEF CallbackSends
<1>2. /\ UNCHANGED <<state_, loop, callback, rest>> /\ state_ = "kConnected" /\ callback # "none"
      /\ sent' = sent \o Bytes(m)
  BY DEF CallbackSends, InCallback
<1>3. sent' \in Seq(Bits)
  <2>1. Bytes(m) \in Seq(Bits) /\ sent \in Seq(Bits)
    BY DEF Bytes, Bits, ConnInv, ConnTypes
  <2>2. QED
    BY <1>2, <2>1, Together
<1>4. /\ outputBuffer_' \in Seq(Bits) /\ wire' \in Seq(Bits)
      /\ ioQueue' \in Seq(Functors)
      /\ Ops(ioQueue') \subseteq Ops(ioQueue) \cup {"writeComplete", "highWaterMark"}
      /\ events_' \subseteq {"read", "write"} /\ index_' \in {"kNew", "kAdded", "kDeleted"}
      /\ index_ = "kAdded" /\ (("write" \in events_) <=> (outputBuffer_ # <<>>)) =>
            /\ index_' = "kAdded" /\ events_ \subseteq events_'
            /\ ("write" \in events_') <=> (outputBuffer_' # <<>>)
  BY <1>1, SendMakes, SendTypesHold DEF ConnInv
<1>5. ups = 1 /\ downs = 0
  BY <1>2 DEF ConnInv, ConnTypes, TypeOK, BeforeUp, WhileUp, AfterDown
<1>6. ConnTypes'
  BY <1>2, <1>3, <1>4 DEF ConnInv, ConnTypes, TypeOK, Bits, loop, rest, owner, users, sock, told
<1>7. LoopPhases'
  BY <1>2, <1>4 DEF ConnInv, LoopPhases, loop, rest, owner
<1>8. BeforeUp' /\ WhileUp' /\ AfterDown' /\ UsersCall'
  BY <1>2, <1>4, <1>5 DEF ConnInv, BeforeUp, WhileUp, AfterDown, UsersCall, loop, rest, owner,
     users, told
<1>9. QED
  BY <1>6, <1>7, <1>8 DEF ConnInv

(* shutdown() in a callback. *)
LEMMA CallbackShutsDownKeeps ==
    ASSUME ConnInv, CallbackShutsDown
    PROVE  ConnInv'
<1>1. /\ UNCHANGED <<outputBuffer_, wire, sent, chan, ioQueue, rst, loop, callback, owner, users, told>>
      /\ state_ = "kConnected" /\ state_' = "kDisconnecting" /\ finSent' \in BOOLEAN
  BY DEF CallbackShutsDown, MayShutDown, ShutdownInLoop, ConnInv, ConnTypes
<1>2. ups = 1 /\ downs = 0
  BY <1>1 DEF ConnInv, ConnTypes, TypeOK, BeforeUp, WhileUp, AfterDown
<1>3. ConnTypes'
  BY <1>1 DEF ConnInv, ConnTypes, TypeOK, States, chan, loop, owner, users, told
<1>4. LoopPhases'
  BY <1>1 DEF ConnInv, LoopPhases, loop, owner
<1>5. BeforeUp' /\ WhileUp' /\ AfterDown' /\ UsersCall'
  BY <1>1, <1>2 DEF ConnInv, BeforeUp, WhileUp, AfterDown, UsersCall, chan, loop, owner, users, told
<1>6. QED
  BY <1>3, <1>4, <1>5 DEF ConnInv

-----------------------------------------------------------------------------
(* TcpServer.                                                              *)

(* newConnection() *)
LEMMA NewConnectionKeeps ==
    ASSUME ConnInv, NewConnection
    PROVE  ConnInv'
<1>1. /\ ~created /\ created' = TRUE /\ connections_' = TRUE
      /\ UNCHANGED <<baseQueue, server, baseIsIo, loop>>
      /\ ioQueue \in Seq(Functors) /\ batch \in Seq(Functors)
  BY DEF NewConnection, ConnInv, ConnTypes
<1>2. ups = 0 /\ batch = <<>> /\ ioQueue = <<>>
  BY <1>1 DEF ConnInv, ConnTypes, TypeOK, BeforeUp, WhileUp
<1>3. CASE baseIsIo
  <2>1. phase = "events" /\ ConnectEstablished /\ UNCHANGED ioQueue
    BY <1>3 DEF NewConnection
  <2>2. /\ batch' = <<>> /\ "connectEstablished" \notin Ops(batch') \cup Ops(ioQueue)
        /\ batch' \in Seq(Functors) /\ Ops(batch') \subseteq Ops(batch)
        /\ UNCHANGED <<phase, revents_, ioQuit, batchHolds>>
    BY <1>1, <1>2, OpsOfNone DEF loop
  <2>3. QED
    BY <1>1, <1>2, <2>1, <2>2, EstablishedKeeps
<1>4. CASE ~baseIsIo
  <2>1. /\ ioQueue' = Append(ioQueue, Functor("connectEstablished"))
        /\ UNCHANGED <<conn, chan, callback, users, sock, told>>
    BY <1>4 DEF NewConnection
  <2>2. /\ ioQueue' \in Seq(Functors) /\ ioQueue' # <<>>
        /\ Ops(ioQueue') = Ops(ioQueue) \cup {"connectEstablished"}
        /\ EstablishedFirst(ioQueue')
    BY <1>1, <1>2, <2>1, QueueMakes DEF FunctorOps, Strong
  <2>3. ConnTypes'
    BY <1>1, <2>1, <2>2 DEF ConnInv, ConnTypes, TypeOK, conn, chan, loop, users, sock, told
  <2>4. LoopPhases'
    BY <1>1, <2>1 DEF ConnInv, LoopPhases, loop
  <2>5. BeforeUp'
    BY <1>1, <1>2, <1>4, <2>1, <2>2 DEF ConnInv, BeforeUp, conn, chan, loop, users, sock, told
  <2>6. WhileUp' /\ AfterDown'
    BY <1>1, <1>2, <2>1 DEF ConnInv, WhileUp, AfterDown, conn, chan, loop, told
  <2>7. UsersCall'
    BY <1>1, <1>2, <2>1, <2>2 DEF ConnInv, UsersCall, loop, users, told
  <2>8. QED
    BY <2>3, <2>4, <2>5, <2>6, <2>7 DEF ConnInv
<1>5. QED
  BY <1>3, <1>4

(* removeConnectionInLoop(): only a connection that has fallen is removed. *)
LEMMA BaseRunsFunctorKeeps ==
    ASSUME ConnInv, BaseRunsFunctor
    PROVE  ConnInv'
<1>1. /\ baseQueue \in Nat /\ baseQueue > 0 /\ baseQueue' = baseQueue - 1
      /\ connections_' = FALSE /\ ioQueue' = Append(ioQueue, Functor("connectDestroyed"))
      /\ ioQueue \in Seq(Functors)
      /\ UNCHANGED <<created, server, baseIsIo, conn, chan, loop, callback, users, sock, told>>
  BY DEF BaseRunsFunctor, RemoveConnectionInLoop, ConnInv, ConnTypes, TypeOK
<1>2. baseQueue' \in Nat
  BY <1>1
<1>3. ups = 1 /\ downs = 1
  BY <1>1 DEF ConnInv, ConnTypes, TypeOK, WhileUp
<1>4. /\ ioQueue' \in Seq(Functors) /\ Ops(ioQueue') = Ops(ioQueue) \cup {"connectDestroyed"}
  BY <1>1, QueueMakes DEF FunctorOps, Strong
<1>5. ConnTypes'
  <2>1. /\ UNCHANGED <<created, server, baseIsIo, conn, chan, loop, callback, users, sock, told>>
        /\ connections_' \in BOOLEAN /\ baseQueue' \in Nat /\ ioQueue' \in Seq(Functors)
    BY <1>1, <1>2, <1>4
  <2>2. QED
    BY <2>1 DEF ConnInv, ConnTypes, TypeOK, conn, chan, loop, users, sock, told
<1>6. LoopPhases'
  BY <1>1 DEF ConnInv, LoopPhases, loop
<1>7. BeforeUp' /\ WhileUp' /\ AfterDown' /\ UsersCall'
  BY <1>1, <1>2, <1>3, <1>4 DEF ConnInv, BeforeUp, WhileUp, AfterDown, UsersCall, conn, chan, loop,
     users, told
<1>8. QED
  BY <1>5, <1>6, <1>7 DEF ConnInv

(* ~TcpServer runs connectDestroyed(), or queues it. *)
LEMMA DestroyServerKeeps ==
    ASSUME ConnInv, DestroyServer
    PROVE  ConnInv'
<1>1. /\ server = "up" /\ server' = "dying" /\ connections_' = FALSE
      /\ UNCHANGED <<created, baseQueue, baseIsIo, loop>>
      /\ baseIsIo => phase = "stopped"
      /\ ioQueue \in Seq(Functors) /\ ups \in Nat
      /\ server' \in {"up", "dying", "gone"} /\ connections_' \in BOOLEAN
      /\ baseQueue' \in Nat /\ baseIsIo' \in BOOLEAN /\ created' \in BOOLEAN
  BY DEF DestroyServer, ConnInv, ConnTypes, TypeOK
<1>2. CASE UNCHANGED <<conn, chan, ioQueue, callback, users, sock, told>>
  <2>1. ConnTypes'
    BY <1>1, <1>2, SMTT(30) DEF ConnInv, ConnTypes, TypeOK, conn, chan, loop, users, sock, told
  <2>2. LoopPhases' /\ BeforeUp' /\ WhileUp' /\ AfterDown' /\ UsersCall'
    BY <1>1, <1>2 DEF ConnInv, LoopPhases, BeforeUp, WhileUp, AfterDown, UsersCall, conn, chan, loop,
       users, sock, told
  <2>3. QED
    BY <2>1, <2>2 DEF ConnInv
<1>3. CASE connections_ /\ baseIsIo /\ ConnectDestroyed /\ UNCHANGED ioQueue
  <2>1. ups = 1 /\ phase = "stopped" /\ revents_ = {}
    BY <1>1, <1>3 DEF ConnInv, BeforeUp, WhileUp, LoopPhases
  <2>2. /\ UNCHANGED <<outputBuffer_, wire, sent, ups, users, sock>>
        /\ \/ /\ state_ = "kConnected" /\ downs = 0 /\ downs' = 1
              /\ state_' = "kDisconnected" /\ events_' = {} /\ index_' = "kDeleted"
              /\ callback' = "destroyDown"
           \/ /\ state_ # "kConnected" /\ callback' = "remove"
              /\ UNCHANGED <<state_, events_, index_, downs>>
    BY <1>3, <2>1, DestroyedMakes
  <2>3. ConnTypes'
    <3>1. /\ state_' \in States /\ events_' \subseteq {"read", "write"}
          /\ index_' \in {"kNew", "kAdded", "kDeleted"} /\ downs' \in Nat
          /\ callback' \in {"destroyDown", "remove"}
      <4>1. /\ state_ \in States /\ events_ \subseteq {"read", "write"}
            /\ index_ \in {"kNew", "kAdded", "kDeleted"} /\ downs \in Nat
        BY DEF ConnInv, ConnTypes, TypeOK
      <4>2. CASE callback' = "destroyDown" /\ state_' = "kDisconnected" /\ events_' = {}
                 /\ index_' = "kDeleted" /\ downs' = 1
        BY <4>2 DEF States
      <4>3. CASE callback' = "remove" /\ UNCHANGED <<state_, events_, index_, downs>>
        BY <4>1, <4>3
      <4>4. QED
        BY <2>2, <4>2, <4>3
    <3>2. QED
      BY <1>1, <1>3, <2>2, <3>1 DEF ConnInv, ConnTypes, TypeOK, loop, users, sock
  <2>4. LoopPhases'
    BY <1>1, <1>3, <2>1, <2>2 DEF ConnInv, LoopPhases, loop
  <2>5. BeforeUp' /\ WhileUp' /\ AfterDown' /\ UsersCall'
    BY <1>1, <1>3, <2>1, <2>2 DEF ConnInv, BeforeUp, WhileUp, AfterDown, UsersCall, loop, users
  <2>6. QED
    BY <2>3, <2>4, <2>5 DEF ConnInv
<1>4. CASE /\ connections_ /\ ~baseIsIo
           /\ ioQueue' = Append(ioQueue, Functor("connectDestroyed"))
           /\ UNCHANGED <<conn, chan, callback, users, sock, told>>
  <2>1. /\ ioQueue' \in Seq(Functors) /\ ioQueue' # <<>>
        /\ Ops(ioQueue') = Ops(ioQueue) \cup {"connectDestroyed"}
        /\ ioQueue # <<>> /\ EstablishedFirst(ioQueue) => EstablishedFirst(ioQueue')
    BY <1>1, <1>4, QueueMakes DEF FunctorOps, Strong
  <2>2. ConnTypes'
    BY <1>1, <1>4, <2>1 DEF ConnInv, ConnTypes, TypeOK, conn, chan, loop, users, sock, told
  <2>3. LoopPhases'
    BY <1>1, <1>4 DEF ConnInv, LoopPhases, loop
  <2>4. BeforeUp'
    BY <1>1, <1>4, <2>1 DEF ConnInv, BeforeUp, conn, chan, loop, users, sock, told
  <2>5. WhileUp' /\ AfterDown' /\ UsersCall'
    BY <1>1, <1>4, <2>1 DEF ConnInv, WhileUp, AfterDown, UsersCall, conn, chan, loop, users, told
  <2>6. QED
    BY <2>2, <2>3, <2>4, <2>5 DEF ConnInv
<1>5. QED
  BY <1>2, <1>3, <1>4 DEF DestroyServer

(* ~EventLoop of the base loop, with its functors. *)
LEMMA DestroyBaseLoopKeeps ==
    ASSUME ConnInv, DestroyBaseLoop
    PROVE  ConnInv'
<1>1. /\ server = "dying" /\ phase = "stopped" /\ callback = "none" /\ server' = "gone"
      /\ baseQueue' = 0 /\ ioQueue' = <<>>
      /\ UNCHANGED <<created, connections_, baseIsIo, conn, chan, loop, callback, users, sock, told>>
  BY DEF DestroyBaseLoop
<1>2. batch = <<>>
  BY <1>1 DEF ConnInv, LoopPhases
<1>3. ConnTypes'
  BY <1>1, OpsOfNone DEF ConnInv, ConnTypes, TypeOK, conn, chan, loop, users, sock, told
<1>4. LoopPhases'
  BY <1>1 DEF ConnInv, LoopPhases, loop
<1>5. BeforeUp' /\ WhileUp' /\ AfterDown' /\ UsersCall'
  BY <1>1, <1>2, OpsOfNone DEF ConnInv, BeforeUp, WhileUp, AfterDown, UsersCall, conn, chan, loop,
     users, sock, told
<1>6. QED
  BY <1>3, <1>4, <1>5 DEF ConnInv

-----------------------------------------------------------------------------
(* The peer, the poller, the loop and the server between them keep it.     *)

(* What another thread starts or finishes: only a connection that is up, and
   a state that only send() or only shutdown() works on. *)
LEMMA UserCallKeeps ==
    ASSUME UsersDoNotMix, ConnInv, NEW t \in User,
           (\E m \in Message : UserSends(t, m)) \/ UserShutsDown(t) \/ UserFinishes(t)
    PROVE  ConnInv'
<1>1. /\ upc \in [User -> Message \cup {"idle", "shutdown", "queue"}]
      /\ ioQueue \in Seq(Functors) /\ sent \in Seq(Bits) /\ userCalls \in UserPrograms
  BY DEF ConnInv, ConnTypes, TypeOK, Bits
<1>2. ASSUME NEW m \in Message, UserSends(t, m)
      PROVE  ConnInv'
  <2>1. /\ "send" \in userCalls /\ state_ = "kConnected" /\ t \in holds
        /\ sent' = sent \o Bytes(m) /\ upc' = [upc EXCEPT ![t] = m]
        /\ UNCHANGED <<state_, outputBuffer_, wire, holds, userCalls, chan, ioQueue, loop,
                       callback, owner, sock, told>>
    BY <1>2 DEF UserSends, UserMayCall
  <2>2. sent' \in Seq(Bits)
    <3>1. Bytes(m) \in Seq(Bits)
      BY DEF Bytes, Bits
    <3>2. QED
      BY <1>1, <2>1, <3>1, Together
  <2>3. /\ upc' \in [User -> Message \cup {"idle", "shutdown", "queue"}]
        /\ \A u \in User : upc'[u] \in {upc[u], m}
        /\ m \notin {"idle", "shutdown", "queue"}
    BY <1>1, <2>1, TcpConnectionAssumption DEF TcpConnectionAssumption
  <2>4. ups = 1 /\ downs \in {0, 1}
    BY <2>1 DEF ConnInv, ConnTypes, TypeOK, BeforeUp, WhileUp
  <2>5. ConnTypes'
    BY <2>1, <2>2, <2>3 DEF ConnInv, ConnTypes, TypeOK, Bits, chan, loop, owner, sock, told
  <2>6. LoopPhases'
    BY <2>1 DEF ConnInv, LoopPhases, loop, owner
  <2>7. BeforeUp' /\ WhileUp' /\ AfterDown'
    BY <2>1, <2>4 DEF ConnInv, BeforeUp, WhileUp, AfterDown, chan, loop, owner, told
  <2>8. UsersCall'
    BY <2>1, <2>3, <2>4 DEF ConnInv, UsersCall, loop, told
  <2>9. QED
    BY <2>5, <2>6, <2>7, <2>8 DEF ConnInv
<1>3. CASE UserShutsDown(t)
  <2>1. /\ "shutdown" \in userCalls /\ state_ = "kConnected"
        /\ upc' = [upc EXCEPT ![t] = "shutdown"]
        /\ UNCHANGED <<holds, userCalls, conn, chan, ioQueue, loop, callback, owner, sock, told>>
    BY <1>3 DEF UserShutsDown, UserMayCall
  <2>2. /\ upc' \in [User -> Message \cup {"idle", "shutdown", "queue"}]
        /\ \A u \in User : upc'[u] \in {upc[u], "shutdown"}
        /\ "shutdown" \notin Message
    BY <1>1, <2>1, TcpConnectionAssumption DEF TcpConnectionAssumption
  <2>3. ups = 1 /\ downs \in {0, 1}
    BY <2>1 DEF ConnInv, ConnTypes, TypeOK, BeforeUp, WhileUp
  <2>4. ConnTypes'
    BY <2>1, <2>2 DEF ConnInv, ConnTypes, TypeOK, conn, chan, loop, owner, sock, told
  <2>5. LoopPhases'
    BY <2>1 DEF ConnInv, LoopPhases, loop, owner
  <2>6. BeforeUp' /\ WhileUp' /\ AfterDown'
    BY <2>1, <2>3 DEF ConnInv, BeforeUp, WhileUp, AfterDown, conn, chan, loop, owner, told
  <2>7. UsersCall'
    BY <2>1, <2>2, <2>3 DEF ConnInv, UsersCall, loop, told
  <2>8. QED
    BY <2>4, <2>5, <2>6, <2>7 DEF ConnInv
<1>4. CASE UserSetsState(t)
  <2>1. /\ upc[t] = "shutdown" /\ state_' = "kDisconnecting"
        /\ upc' = [upc EXCEPT ![t] = "queue"]
        /\ UNCHANGED <<outputBuffer_, wire, sent, holds, userCalls, chan, ioQueue, loop,
                       callback, owner, sock, told>>
    BY <1>4 DEF UserSetsState
  <2>2. /\ upc' \in [User -> Message \cup {"idle", "shutdown", "queue"}]
        /\ \A u \in User : upc'[u] \in {upc[u], "queue"}
        /\ "queue" \notin Message
    BY <1>1, <2>1, TcpConnectionAssumption DEF TcpConnectionAssumption
  <2>3. ups = 1 /\ downs \in {0, 1} /\ "send" \notin userCalls
    <3>1. ups = 1 /\ "shutdown" \in userCalls
      BY <2>1 DEF ConnInv, UsersCall
    <3>2. downs \in {0, 1}
      BY <3>1 DEF ConnInv, ConnTypes, TypeOK, WhileUp
    <3>3. QED
      BY <1>1, <3>1, <3>2 DEF UsersDoNotMix
  <2>4. ConnTypes'
    BY <2>1, <2>2 DEF ConnInv, ConnTypes, TypeOK, States, chan, loop, owner, sock, told
  <2>5. LoopPhases'
    BY <2>1 DEF ConnInv, LoopPhases, loop, owner
  <2>6. BeforeUp' /\ WhileUp' /\ AfterDown'
    BY <2>1, <2>3 DEF ConnInv, BeforeUp, WhileUp, AfterDown, chan, loop, owner, told
  <2>7. UsersCall'
    BY <2>1, <2>2, <2>3 DEF ConnInv, UsersCall, loop, told
  <2>8. QED
    BY <2>4, <2>5, <2>6, <2>7 DEF ConnInv
<1>5. CASE UserQueuesSend(t) \/ UserQueuesShutdown(t)
  <2>1. PICK f \in Functors :
             /\ f.op \in {"sendInLoop", "shutdownInLoop"}
             /\ f.op = "sendInLoop" => upc[t] \in Message
             /\ upc[t] # "idle" /\ ioQueue' = Append(ioQueue, f)
             /\ upc' = [upc EXCEPT ![t] = "idle"]
             /\ UNCHANGED <<holds, userCalls, conn, chan, loop, callback, owner, sock, told>>
    <3>1. CASE UserQueuesSend(t)
      BY <1>1, <3>1, FunctorsAre, TcpConnectionAssumption DEF UserQueuesSend, TcpConnectionAssumption
    <3>2. CASE UserQueuesShutdown(t)
      BY <3>2, FunctorsAre DEF UserQueuesShutdown, FunctorOps
    <3>3. QED
      BY <1>5, <3>1, <3>2
  <2>2. /\ upc' \in [User -> Message \cup {"idle", "shutdown", "queue"}]
        /\ \A u \in User : upc'[u] \in {upc[u], "idle"}
        /\ "idle" \notin Message
    BY <1>1, <2>1, TcpConnectionAssumption DEF TcpConnectionAssumption
  <2>3. ups = 1 /\ downs \in {0, 1}
    <3>1. ups \in {0, 1} /\ downs \in {0, 1}
      BY DEF ConnInv, ConnTypes, TypeOK, WhileUp
    <3>2. QED
      BY <2>1, <3>1 DEF ConnInv, BeforeUp
  <2>4. /\ ioQueue' \in Seq(Functors) /\ Ops(ioQueue') = Ops(ioQueue) \cup {f.op}
    BY <1>1, <2>1, OpsAppend
  <2>5. ConnTypes'
    BY <2>1, <2>2, <2>4 DEF ConnInv, ConnTypes, TypeOK, conn, chan, loop, owner, sock, told
  <2>6. LoopPhases'
    BY <2>1 DEF ConnInv, LoopPhases, loop, owner
  <2>7. BeforeUp' /\ WhileUp' /\ AfterDown'
    BY <2>1, <2>3, <2>4 DEF ConnInv, BeforeUp, WhileUp, AfterDown, conn, chan, loop, owner, told
  <2>8. UsersCall'
    BY <2>1, <2>2, <2>3, <2>4 DEF ConnInv, UsersCall, loop, told
  <2>9. QED
    BY <2>5, <2>6, <2>7, <2>8 DEF ConnInv
<1>6. QED
  BY <1>2, <1>3, <1>4, <1>5 DEF UserFinishes

(* A thread drops its TcpConnectionPtr. *)
LEMMA ReleaseKeeps ==
    ASSUME ConnInv, NEW t \in User, UserReleasesConn(t)
    PROVE  ConnInv'
<1>1. /\ holds' = holds \ {t}
      /\ UNCHANGED <<upc, userCalls, conn, chan, ioQueue, loop, callback, owner, sock, told>>
  BY DEF UserReleasesConn
<1>2. ConnTypes'
  BY <1>1 DEF ConnInv, ConnTypes, TypeOK, conn, chan, loop, owner, sock, told
<1>3. LoopPhases' /\ BeforeUp'
  BY <1>1 DEF ConnInv, LoopPhases, BeforeUp, conn, chan, loop, owner, sock, told
<1>4. WhileUp' /\ AfterDown' /\ UsersCall'
  BY <1>1 DEF ConnInv, WhileUp, AfterDown, UsersCall, conn, chan, loop, owner, told
<1>5. QED
  BY <1>2, <1>3, <1>4 DEF ConnInv

(* The invariant is inductive. *)
LEMMA StepConnInv ==
    ASSUME UsersDoNotMix, ConnInv, [Next]_vars
    PROVE  ConnInv'
<1>1. CASE UNCHANGED vars
  <2>1. /\ UNCHANGED <<state_, outputBuffer_, wire, sent, events_, index_, ioQueue, batch, batchHolds>>
        /\ UNCHANGED <<phase, revents_, ioQuit, callback, created, connections_, baseQueue, server>>
        /\ UNCHANGED <<baseIsIo, userCalls, upc, holds, inData, peerFin, rst, finSent, ups, downs>>
    BY <1>1 DEF vars, conn, chan, loop, owner, users, sock, told
  <2>2. ConnTypes'
    BY <2>1 DEF ConnInv, ConnTypes, TypeOK
  <2>3. LoopPhases' /\ BeforeUp'
    BY <2>1 DEF ConnInv, LoopPhases, BeforeUp
  <2>4. WhileUp' /\ AfterDown' /\ UsersCall'
    BY <2>1 DEF ConnInv, WhileUp, AfterDown, UsersCall
  <2>5. QED
    BY <2>2, <2>3, <2>4 DEF ConnInv
<1>2. CASE PeerSends \/ PeerCloses \/ PeerResets
  BY <1>2, PeerKeeps
<1>3. CASE PollActive \/ PollOthers
  BY <1>3, PollKeeps
<1>4. CASE IoStep
  BY <1>4, CheckQuitKeeps, HandleHupKeeps, HandleErrorKeeps, HandleReadKeeps, HandleWriteKeeps,
     SwapKeeps, RunFunctorKeeps, EndOrQuitKeeps, CallbackReturnsKeeps, RemoveChannelKeeps DEF IoStep
<1>5. CASE \/ \E m \in Message, c \in {"send", "sendBuffer"} : CallbackSends(m, c)
           \/ CallbackShutsDown
  BY <1>5, CallbackSendsKeeps, CallbackShutsDownKeeps
<1>6. CASE \/ NewConnection \/ BaseRunsFunctor
           \/ QuitBaseLoop \/ DestroyServer \/ QuitIoLoop \/ DestroyBaseLoop
  BY <1>6, NewConnectionKeeps, BaseRunsFunctorKeeps, EndOrQuitKeeps, DestroyServerKeeps,
     DestroyBaseLoopKeeps
<1>7. ASSUME NEW t \in User,
             \/ \E m \in Message : UserSends(t, m)
             \/ UserShutsDown(t)
             \/ UserFinishes(t)
             \/ UserReleasesConn(t)
      PROVE  ConnInv'
  BY <1>7, UserCallKeeps, ReleaseKeeps
<1>8. QED
  BY <1>1, <1>2, <1>3, <1>4, <1>5, <1>6, <1>7 DEF Next

(* Where the connection stands is known in every state. *)
LEMMA Connected ==
    ASSUME UsersDoNotMix
    PROVE  Spec => []ConnInv
<1>1. Init => ConnInv
  BY InitConnInv
<1>2. ConnInv /\ [Next]_vars => ConnInv'
  BY StepConnInv
<1>3. QED
  BY <1>1, <1>2, PTL DEF Spec

(* connectionCallback_ reports one rise, then one fall; messages come between
   (connectEstablished(), handleRead(), handleClose(), connectDestroyed()). *)
THEOREM CallbacksInOrder ==
    ASSUME UsersDoNotMix
    PROVE  Spec => []CallbackOrder
<1>1. ConnInv => CallbackOrder
  BY DEF ConnInv, ConnTypes, TypeOK, CallbackOrder, BeforeUp, WhileUp, AfterDown
<1>2. QED
  BY <1>1, Connected, PTL

-----------------------------------------------------------------------------
(* Watching for writability, whatever the users do.                        *)

Queued == Ops(ioQueue) \cup Ops(batch)
Once(q) == \A i, j \in DOMAIN q :
              q[i].op = "connectEstablished" /\ q[j].op = "connectEstablished" => i = j

WatchTypes ==
    /\ SendTypes
    /\ batch \in Seq(Functors)
    /\ upc \in [User -> Message \cup {"idle", "shutdown", "queue"}]

(* connectEstablished() runs once, and it is what ends kConnecting. *)
EstablishedOnce ==
    /\ Once(ioQueue) /\ Once(batch)
    /\ "connectEstablished" \notin Ops(ioQueue) \cap Ops(batch)
    /\ "connectEstablished" \in Queued => created /\ state_ = "kConnecting"
    /\ ~created => state_ = "kConnecting"

(* Before it there is nothing to write and nothing is registered. *)
UntouchedBefore ==
    state_ = "kConnecting" =>
        /\ index_ = "kNew" /\ events_ = {} /\ outputBuffer_ = <<>>
        /\ "sendInLoop" \notin Queued
        /\ \A t \in User : upc[t] = "idle"

(* What is connected is registered and reads; what has events is registered;
   and an event that may close the connection finds it registered. *)
Registered ==
    /\ state_ = "kConnected" => index_ = "kAdded" /\ "read" \in events_
    /\ events_ # {} => index_ = "kAdded"
    /\ revents_ \cap {"HUP", "IN"} # {} => index_ = "kAdded"
    /\ phase # "events" => revents_ = {}
    /\ callback \in {"destroyDown", "remove"} => phase \in {"functors", "stopped"}
    /\ WritingIffOutput

WatchInv == WatchTypes /\ EstablishedOnce /\ UntouchedBefore /\ Registered

(* No functor to establish, or only one. *)
LEMMA OnceIs ==
    ASSUME NEW q \in Seq(Functors)
    PROVE  /\ Once(<<>>)
           /\ "connectEstablished" \notin Ops(q) => Once(q)
BY DEF Once, Ops

(* A functor is queued. *)
LEMMA OnceAppend ==
    ASSUME NEW q \in Seq(Functors), NEW op \in FunctorOps, NEW p, p = Append(q, Functor(op)), Once(q),
           op = "connectEstablished" => "connectEstablished" \notin Ops(q)
    PROVE  p \in Seq(Functors) /\ Once(p) /\ Ops(p) = Ops(q) \cup {op}
<1>1. PICK f \in Functors : f = Functor(op) /\ f.op = op
  BY FunctorsAre
<1>2. p \in Seq(Functors) /\ Ops(p) = Ops(q) \cup {op}
  BY <1>1, OpsAppend
<1>3. /\ Len(q) \in Nat /\ Len(p) = Len(q) + 1
      /\ \A i \in 1 .. Len(q) : p[i] = q[i]
      /\ p[Len(q) + 1] = f
  BY <1>1, AppendProperties, LenProperties
<1>4. DOMAIN p = 1 .. Len(q) + 1 /\ DOMAIN q = 1 .. Len(q)
  BY <1>2, <1>3, LenProperties
<1>5. ASSUME NEW i \in DOMAIN p, NEW j \in DOMAIN p,
             p[i].op = "connectEstablished", p[j].op = "connectEstablished"
      PROVE  i = j
  <2>1. CASE op = "connectEstablished"
    <3>1. \A k \in 1 .. Len(q) : p[k].op # "connectEstablished"
      BY <1>3, <1>4, <2>1 DEF Ops
    <3>2. QED
      BY <1>3, <1>4, <1>5, <3>1
  <2>2. CASE op # "connectEstablished"
    <3>1. i \in 1 .. Len(q) /\ j \in 1 .. Len(q)
      BY <1>1, <1>3, <1>4, <1>5, <2>2
    <3>2. QED
      BY <1>3, <1>4, <1>5, <3>1 DEF Once
  <2>3. QED
    BY <2>1, <2>2
<1>6. QED
  BY <1>2, <1>5 DEF Once

(* The first functor is taken. *)
LEMMA OnceTail ==
    ASSUME NEW q \in Seq(Functors), q # <<>>, NEW p, p = Tail(q), Once(q)
    PROVE  /\ Once(p)
           /\ Head(q).op = "connectEstablished" => "connectEstablished" \notin Ops(p)
<1>1. Len(q) \in Nat /\ 1 <= Len(q) /\ DOMAIN q = 1 .. Len(q) /\ Head(q) = q[1]
  BY EmptySeq, LenProperties
<1>2. /\ p \in Seq(Functors) /\ Len(p) = Len(q) - 1
      /\ \A i \in 1 .. Len(q) - 1 : p[i] = q[i + 1]
  BY <1>1
<1>3. DOMAIN p = 1 .. Len(q) - 1
  BY <1>1, <1>2, LenProperties
<1>4. \A i \in 1 .. Len(q) - 1 : i + 1 \in DOMAIN q /\ 1 \in DOMAIN q /\ i + 1 # 1
  BY <1>1
<1>5. Once(p)
  <2>1. ASSUME NEW i \in 1 .. Len(q) - 1, NEW j \in 1 .. Len(q) - 1,
               p[i].op = "connectEstablished", p[j].op = "connectEstablished"
        PROVE  i = j
    <3>1. i + 1 = j + 1
      BY <1>2, <1>4, <2>1 DEF Once
    <3>2. QED
      BY <1>1, <3>1
  <2>2. QED
    BY <1>3, <2>1 DEF Once
<1>6. ASSUME Head(q).op = "connectEstablished"
      PROVE  "connectEstablished" \notin Ops(p)
  <2>1. SUFFICES ASSUME NEW i \in 1 .. Len(q) - 1, p[i].op = "connectEstablished"
                 PROVE  FALSE
    BY <1>3 DEF Ops
  <2>2. QED
    BY <1>1, <1>2, <1>4, <1>6, <2>1 DEF Once
<1>7. QED
  BY <1>5, <1>6

(* A step that leaves channel and buffer alone: functors are moved, queued or
   dropped, events come or are taken, shutdown() sets the state. *)
LEMMA ChannelUntouched ==
    ASSUME WatchInv, UNCHANGED <<outputBuffer_, wire, events_, index_, created>>,
           state_' = state_ \/ (state_ # "kConnecting" /\ state_' = "kDisconnecting"),
           ioQueue' \in Seq(Functors), batch' \in Seq(Functors), Once(ioQueue'), Once(batch'),
           "connectEstablished" \notin Ops(ioQueue') \cap Ops(batch'),
           Queued' \subseteq Queued \cup (FunctorOps \ {"connectEstablished"}),
           "sendInLoop" \in Queued' => "sendInLoop" \in Queued \/ state_ # "kConnecting",
           upc' \in [User -> Message \cup {"idle", "shutdown", "queue"}],
           upc' = upc \/ state_ # "kConnecting",
           revents_' \cap {"HUP", "IN"} # {} => index_ = "kAdded",
           phase' # "events" => revents_' = {},
           callback' \in {"destroyDown", "remove"} => phase' \in {"functors", "stopped"}
    PROVE  WatchInv'
<1>1. WatchTypes'
  BY DEF WatchInv, WatchTypes, SendTypes
<1>2. EstablishedOnce'
  BY DEF WatchInv, EstablishedOnce
<1>3. UntouchedBefore'
  BY DEF WatchInv, UntouchedBefore
<1>4. Registered'
  BY DEF WatchInv, Registered, WritingIffOutput
<1>5. QED
  BY <1>1, <1>2, <1>3, <1>4 DEF WatchInv

(* A step that leaves the queues alone, too. *)
LEMMA QueuesUntouched ==
    ASSUME WatchInv, UNCHANGED <<state_, outputBuffer_, wire, events_, index_, created>>,
           UNCHANGED <<ioQueue, batch, upc>>,
           revents_' \cap {"HUP", "IN"} # {} => index_ = "kAdded",
           phase' # "events" => revents_' = {},
           callback' \in {"destroyDown", "remove"} => phase' \in {"functors", "stopped"}
    PROVE  WatchInv'
<1>1. /\ ioQueue \in Seq(Functors) /\ batch \in Seq(Functors) /\ Once(ioQueue) /\ Once(batch)
      /\ "connectEstablished" \notin Ops(ioQueue) \cap Ops(batch)
      /\ upc \in [User -> Message \cup {"idle", "shutdown", "queue"}]
  BY DEF WatchInv, WatchTypes, SendTypes, EstablishedOnce
<1>2. Queued' = Queued
  BY DEF Queued
<1>3. QED
  BY <1>1, <1>2, ChannelUntouched

(* A functor is queued that establishes nothing. *)
LEMMA QueueingKeepsWatch ==
    ASSUME WatchInv, NEW op \in FunctorOps \ {"connectEstablished", "sendInLoop"},
           ioQueue' = Append(ioQueue, Functor(op)),
           UNCHANGED <<state_, outputBuffer_, wire, events_, index_, created, batch, upc>>,
           UNCHANGED <<revents_, phase>>,
           callback' \in {"destroyDown", "remove"} => phase \in {"functors", "stopped"}
    PROVE  WatchInv'
<1>1. /\ ioQueue \in Seq(Functors) /\ batch \in Seq(Functors) /\ Once(ioQueue) /\ Once(batch)
      /\ "connectEstablished" \notin Ops(ioQueue) \cap Ops(batch)
      /\ upc \in [User -> Message \cup {"idle", "shutdown", "queue"}]
      /\ revents_ \cap {"HUP", "IN"} # {} => index_ = "kAdded"
      /\ phase # "events" => revents_ = {}
  BY DEF WatchInv, WatchTypes, SendTypes, EstablishedOnce, Registered
<1>2. ioQueue' \in Seq(Functors) /\ Once(ioQueue') /\ Ops(ioQueue') = Ops(ioQueue) \cup {op}
  BY <1>1, OnceAppend
<1>3. Queued' = Queued \cup {op}
  BY <1>2 DEF Queued
<1>4. QED
  BY <1>1, <1>2, <1>3, ChannelUntouched

(* Nothing has happened. *)
LEMMA InitWatchInv == Init => WatchInv
<1> SUFFICES ASSUME Init
             PROVE  WatchInv
  OBVIOUS
<1>1. WatchTypes
  BY OpsOfNone DEF Init, WatchTypes, SendTypes, Bits
<1>2. Once(<<>>) /\ Ops(<<>>) = {}
  BY OpsOfNone, OnceIs
<1>3. EstablishedOnce /\ UntouchedBefore
  BY <1>2 DEF Init, EstablishedOnce, UntouchedBefore, Queued
<1>4. Registered
  BY DEF Init, Registered, WritingIffOutput
<1>5. QED
  BY <1>1, <1>3, <1>4 DEF WatchInv

(* The peer, the poller, the loop and quit() do nothing to the channel. *)
LEMMA LoopKeepsWatch ==
    ASSUME WatchInv,
           \/ PeerSends \/ PeerCloses \/ PeerResets \/ PollActive \/ PollOthers
           \/ CheckQuit \/ SwapFunctors \/ EndFunctors \/ QuitBaseLoop \/ QuitIoLoop
    PROVE  WatchInv'
<1>1. /\ ioQueue \in Seq(Functors) /\ batch \in Seq(Functors) /\ Once(ioQueue) /\ Once(batch)
      /\ "connectEstablished" \notin Ops(ioQueue) \cap Ops(batch)
      /\ upc \in [User -> Message \cup {"idle", "shutdown", "queue"}]
      /\ revents_ \cap {"HUP", "IN"} # {} => index_ = "kAdded"
      /\ phase # "events" => revents_ = {}
      /\ callback \in {"destroyDown", "remove"} => phase \in {"functors", "stopped"}
      /\ <<>> \in Seq(Functors) /\ Once(<<>>) /\ Ops(<<>>) = {}
  BY OpsOfNone, OnceIs DEF WatchInv, WatchTypes, SendTypes, EstablishedOnce, Registered
<1>2. CASE PeerSends \/ PeerCloses \/ PeerResets
  BY <1>1, <1>2, QueuesUntouched
     DEF PeerSends, PeerCloses, PeerResets, conn, chan, loop, owner, users
<1>3. CASE PollActive \/ PollOthers
  <2>1. revents_' # {} => index_ = "kAdded"
    BY <1>3 DEF PollActive, PollOthers, Poll, Ready
  <2>2. QED
    BY <1>1, <1>3, <2>1, QueuesUntouched
       DEF PollActive, PollOthers, Poll, conn, chan, rest, owner, users
<1>4. CASE CheckQuit
  <2>1. ioQueue' \in {ioQueue, <<>>} /\ revents_ = {} /\ callback \notin {"destroyDown", "remove"}
    BY <1>1, <1>4 DEF CheckQuit
  <2>2. /\ UNCHANGED <<batch, revents_, callback, state_, outputBuffer_, wire, events_, index_>>
        /\ UNCHANGED <<created, upc>>
    BY <1>4 DEF CheckQuit, conn, chan, rest, owner, users
  <2>3. CASE ioQueue' = ioQueue
    BY <1>1, <2>1, <2>2, <2>3, QueuesUntouched
  <2>4. CASE ioQueue' = <<>>
    <3>1. Queued' \subseteq Queued
      BY <1>1, <2>2, <2>4 DEF Queued
    <3>2. QED
      BY <1>1, <2>1, <2>2, <2>4, <3>1, ChannelUntouched
  <2>5. QED
    BY <2>1, <2>3, <2>4
<1>5. CASE SwapFunctors
  <2>1. /\ batch' = ioQueue /\ ioQueue' = <<>> /\ revents_' = {} /\ callback' = "none"
        /\ UNCHANGED <<state_, outputBuffer_, wire, events_, index_, created, upc>>
    BY <1>5 DEF SwapFunctors, conn, chan, rest, owner, users
  <2>2. Queued' \subseteq Queued
    BY <1>1, <2>1 DEF Queued
  <2>3. QED
    BY <1>1, <2>1, <2>2, ChannelUntouched
<1>6. CASE EndFunctors \/ QuitBaseLoop \/ QuitIoLoop
  BY <1>1, <1>6, QueuesUntouched
     DEF EndFunctors, QuitBaseLoop, QuitIoLoop, conn, chan, rest, owner, users
<1>7. QED
  BY <1>2, <1>3, <1>4, <1>5, <1>6

(* handleClose(): the channel is registered, so that disabling its events takes
   it out of epoll. *)
LEMMA CloseKeepsWatch ==
    ASSUME WatchInv, HandleClose, revents_ \cap {"HUP", "IN"} # {}, revents_' \cap {"HUP", "IN"} = {},
           UNCHANGED <<phase, ioQueue, batch, created, upc>>
    PROVE  WatchInv'
<1>1. index_ = "kAdded" /\ phase = "events"
  BY DEF WatchInv, Registered
<1>2. /\ state_' = "kDisconnected" /\ events_' = {} /\ index_' = "kDeleted"
      /\ callback' = "closeDown" /\ UNCHANGED <<outputBuffer_, wire>>
  BY <1>1 DEF HandleClose, UpdateChannel
<1>3. state_ # "kConnecting"
  BY <1>1 DEF WatchInv, UntouchedBefore
<1>4. WatchTypes'
  BY <1>2 DEF WatchInv, WatchTypes, SendTypes
<1>5. EstablishedOnce'
  BY <1>3 DEF WatchInv, EstablishedOnce, Queued
<1>6. UntouchedBefore'
  BY <1>2 DEF UntouchedBefore
<1>7. Registered'
  BY <1>1, <1>2 DEF Registered, WritingIffOutput
<1>8. QED
  BY <1>4, <1>5, <1>6, <1>7 DEF WatchInv

(* handleWrite() stops watching when the buffer is empty, and only then. *)
LEMMA WriteKeepsWatch ==
    ASSUME WatchInv, HandleWrite
    PROVE  WatchInv'
<1>1. /\ revents_' \subseteq revents_ /\ revents_ = {"OUT"} /\ callback = "none"
      /\ UNCHANGED <<batch, phase, callback, created, upc>>
      /\ phase = "events"
  BY DEF HandleWrite, Due, owner, users
<1>2. CASE ~("write" \in events_ /\ ~Broken)
  BY <1>1, <1>2, QueuesUntouched DEF HandleWrite, conn, chan
<1>3. CASE "write" \in events_ /\ ~Broken
  <2>1. /\ outputBuffer_ \in Seq(Bits) /\ wire \in Seq(Bits) /\ ioQueue \in Seq(Functors)
        /\ events_ \subseteq {"read", "write"} /\ index_ = "kAdded" /\ outputBuffer_ # <<>>
        /\ state_ # "kConnecting" /\ "connectEstablished" \notin Queued
    BY <1>3 DEF WatchInv, WatchTypes, SendTypes, Registered, WritingIffOutput, UntouchedBefore,
       EstablishedOnce
  <2>2. PICK n \in 1 .. Len(outputBuffer_) :
          /\ wire' = wire \o [i \in 1 .. n |-> Junk]
          /\ outputBuffer_' = SubSeq(outputBuffer_, n + 1, Len(outputBuffer_))
          /\ IF outputBuffer_' = <<>>
             THEN OutputDrained
             ELSE UNCHANGED <<chan, ioQueue, finSent>>
          /\ UNCHANGED <<state_, sent>>
    BY <1>3 DEF HandleWrite
  <2>3. outputBuffer_' \in Seq(Bits) /\ wire' \in Seq(Bits)
    <3> DEFINE junk == [i \in 1 .. n |-> Junk]
    <3>1. outputBuffer_' \in Seq(Bits) /\ junk \in Seq(Bits) /\ wire' = wire \o junk
      BY <2>1, <2>2, DropSome
    <3> HIDE DEF junk
    <3>2. QED
      BY <2>1, <3>1, Together
  <2>4. /\ index_' # "kNew" /\ events_' \subseteq {"read", "write"}
        /\ index_' \in {"kNew", "kAdded", "kDeleted"}
        /\ "read" \in events_ => "read" \in events_' /\ index_' = "kAdded"
        /\ events_' # {} => index_' = "kAdded"
        /\ ("write" \in events_') <=> (outputBuffer_' # <<>>)
    <3>1. CASE outputBuffer_' = <<>>
      <4>1. /\ events_' = events_ \ {"write"}
            /\ index_' = IF events_' = {} THEN "kDeleted" ELSE "kAdded"
        BY <2>1, <2>2, <3>1 DEF OutputDrained, UpdateChannel
      <4>2. QED
        BY <2>1, <3>1, <4>1
    <3>2. CASE outputBuffer_' # <<>>
      BY <1>3, <2>1, <2>2, <3>2 DEF chan
    <3>3. QED
      BY <3>1, <3>2
  <2>5. ioQueue' \in Seq(Functors) /\ Ops(ioQueue') \subseteq Ops(ioQueue) \cup {"writeComplete"}
    <3>1. CASE ioQueue' = ioQueue
      BY <2>1, <3>1
    <3>2. CASE ioQueue' = Append(ioQueue, Functor("writeComplete"))
      BY <2>1, <3>2, QueueMakes DEF FunctorOps, Strong
    <3>3. QED
      BY <2>2, <3>1, <3>2 DEF OutputDrained, WriteCompleteQueued
  <2>6. WatchTypes'
    BY <1>1, <2>3, <2>4, <2>5 DEF WatchInv, WatchTypes, SendTypes
  <2>7. EstablishedOnce'
    <3>1. "connectEstablished" \notin Queued'
      BY <1>1, <2>1, <2>5 DEF Queued
    <3>2. Once(ioQueue') /\ Once(batch')
      BY <2>5, <3>1, <2>6, OnceIs DEF Queued, WatchTypes
    <3>3. QED
      BY <1>1, <2>1, <2>2, <3>1, <3>2 DEF WatchInv, EstablishedOnce, Queued
  <2>8. UntouchedBefore'
    BY <2>1, <2>2 DEF UntouchedBefore
  <2>9. Registered'
    BY <1>1, <2>2, <2>4 DEF WatchInv, Registered, WritingIffOutput
  <2>10. QED
    BY <2>6, <2>7, <2>8, <2>9 DEF WatchInv
<1>4. QED
  BY <1>2, <1>3

(* Channel::handleEventWithGuard() and its handlers. *)
LEMMA HandlersKeepWatch ==
    ASSUME WatchInv, HandleHup \/ HandleError \/ HandleRead \/ HandleWrite
    PROVE  WatchInv'
<1>1. revents_ \cap {"HUP", "IN"} # {} => index_ = "kAdded"
  BY DEF WatchInv, Registered
<1>2. CASE HandleHup
  <2>1. /\ revents_' = revents_ \ {"HUP"} /\ "HUP" \in revents_ /\ phase = "events"
        /\ callback = "none" /\ UNCHANGED <<phase, ioQueue, batch, created, upc>>
    BY <1>2 DEF HandleHup, Due, owner, users
  <2>2. CASE "IN" \in revents_
    BY <1>1, <1>2, <2>1, <2>2, QueuesUntouched DEF HandleHup, conn, chan
  <2>3. CASE "IN" \notin revents_
    BY <1>2, <2>1, <2>3, CloseKeepsWatch DEF HandleHup
  <2>4. QED
    BY <2>2, <2>3
<1>3. CASE HandleError
  BY <1>1, <1>3, QueuesUntouched DEF HandleError, Due, conn, chan, owner, users
<1>4. CASE HandleRead
  <2>1. /\ revents_' = revents_ \ {"IN"} /\ "IN" \in revents_ /\ "HUP" \notin revents_
        /\ phase = "events" /\ callback = "none"
        /\ UNCHANGED <<phase, ioQueue, batch, created, upc>>
    BY <1>4 DEF HandleRead, Due, owner, users
  <2>2. CASE inData \/ rst = "pending"
    <3>1. UNCHANGED <<conn, chan>> /\ callback' \in {"none", "message"}
      BY <1>4, <2>1, <2>2 DEF HandleRead
    <3>2. QED
      BY <1>1, <2>1, <3>1, QueuesUntouched DEF conn, chan
  <2>3. CASE ~(inData \/ rst = "pending")
    <3>1. HandleClose
      BY <1>4, <2>3 DEF HandleRead
    <3>2. QED
      BY <2>1, <3>1, CloseKeepsWatch
  <2>4. QED
    BY <2>2, <2>3
<1>5. QED
  BY <1>2, <1>3, <1>4, WriteKeepsWatch

(* connectEstablished(), as a functor or in newConnection(). *)
LEMMA EstablishedKeepsWatch ==
    ASSUME WatchInv, state_ = "kConnecting", ConnectEstablished, created',
           UNCHANGED <<ioQueue, phase, revents_>>, batch' \in Seq(Functors),
           "connectEstablished" \notin Queued'
    PROVE  WatchInv'
<1>1. index_ = "kNew" /\ events_ = {} /\ outputBuffer_ = <<>>
  BY DEF WatchInv, UntouchedBefore
<1>2. /\ state_' = "kConnected" /\ events_' = {"read"} /\ index_' = "kAdded" /\ callback' = "up"
      /\ UNCHANGED <<outputBuffer_, wire, upc>>
  BY <1>1 DEF ConnectEstablished, UpdateChannel
<1>3. WatchTypes'
  BY <1>2 DEF WatchInv, WatchTypes, SendTypes
<1>4. EstablishedOnce'
  <2>1. Once(ioQueue') /\ Once(batch')
    BY <1>3, OnceIs DEF Queued, WatchTypes, SendTypes
  <2>2. QED
    BY <2>1 DEF EstablishedOnce, Queued
<1>5. UntouchedBefore'
  BY <1>2 DEF UntouchedBefore
<1>6. Registered'
  BY <1>1, <1>2 DEF WatchInv, Registered, WritingIffOutput
<1>7. QED
  BY <1>3, <1>4, <1>5, <1>6 DEF WatchInv

(* connectDestroyed(), as a functor or in ~TcpServer. *)
LEMMA DestroyedKeepsWatch ==
    ASSUME WatchInv, ConnectDestroyed, phase \in {"functors", "stopped"},
           UNCHANGED <<ioQueue, phase, revents_, created>>,
           batch' \in Seq(Functors), Once(batch'), Ops(batch') \subseteq Ops(batch)
    PROVE  WatchInv'
<1>1. /\ revents_ = {} /\ ioQueue \in Seq(Functors) /\ Once(ioQueue)
      /\ "connectEstablished" \notin Ops(ioQueue) \cap Ops(batch')
      /\ upc \in [User -> Message \cup {"idle", "shutdown", "queue"}]
  BY DEF WatchInv, WatchTypes, SendTypes, EstablishedOnce, Registered
<1>2. UNCHANGED <<outputBuffer_, wire, upc>>
  BY DEF ConnectDestroyed, users
<1>3. Queued' \subseteq Queued
  BY DEF Queued
<1>4. CASE state_ = "kConnected"
  <2>1. /\ state_' = "kDisconnected" /\ events_' = {} /\ index_' = "kDeleted"
        /\ callback' = "destroyDown"
    BY <1>4 DEF WatchInv, Registered, ConnectDestroyed, UpdateChannel
  <2>2. WatchTypes'
    BY <1>2, <2>1 DEF WatchInv, WatchTypes, SendTypes
  <2>3. EstablishedOnce'
    BY <1>1, <1>3, <1>4 DEF WatchInv, EstablishedOnce
  <2>4. UntouchedBefore'
    BY <2>1 DEF UntouchedBefore
  <2>5. Registered'
    BY <1>1, <2>1 DEF Registered, WritingIffOutput
  <2>6. QED
    BY <2>2, <2>3, <2>4, <2>5 DEF WatchInv
<1>5. CASE state_ # "kConnected"
  <2>1. UNCHANGED <<state_, events_, index_>>
    BY <1>5 DEF ConnectDestroyed, chan
  <2>2. QED
    BY <1>1, <1>2, <1>3, <2>1, ChannelUntouched
<1>6. QED
  BY <1>4, <1>5

(* sendInLoop(), also of what was queued before the close: a channel that has
   left epoll comes back only with output. *)
LEMMA SendKeepsWatch ==
    ASSUME WatchInv, NEW data \in Seq(Bits), SendInLoop(data), state_ # "kConnecting",
           UNCHANGED <<state_, phase, revents_, callback, created, upc>>,
           batch' \in Seq(Functors), Ops(batch') \subseteq Ops(batch)
    PROVE  WatchInv'
<1>1. SendTypes /\ "connectEstablished" \notin Queued
  BY DEF WatchInv, WatchTypes, EstablishedOnce
<1>2. /\ outputBuffer_' \in Seq(Bits) /\ wire' \in Seq(Bits)
      /\ ioQueue' \in Seq(Functors)
      /\ Ops(ioQueue') \subseteq Ops(ioQueue) \cup {"writeComplete", "highWaterMark"}
      /\ events_' \subseteq {"read", "write"} /\ index_' \in {"kNew", "kAdded", "kDeleted"}
      /\ index_ = "kAdded" /\ (("write" \in events_) <=> (outputBuffer_ # <<>>)) =>
            /\ index_' = "kAdded" /\ events_ \subseteq events_'
            /\ ("write" \in events_') <=> (outputBuffer_' # <<>>)
      /\ index_ # "kAdded" /\ events_ = {} =>
            \/ UNCHANGED chan
            \/ index_' = "kAdded" /\ events_' = {"write"} /\ outputBuffer_' # <<>>
  BY <1>1, SendMakes
<1>3. WatchTypes'
  BY <1>2 DEF WatchInv, WatchTypes, SendTypes
<1>4. EstablishedOnce'
  <2>1. "connectEstablished" \notin Queued'
    BY <1>1, <1>2 DEF Queued
  <2>2. Once(ioQueue') /\ Once(batch')
    BY <1>2, <2>1, OnceIs DEF Queued
  <2>3. QED
    BY <2>1, <2>2 DEF WatchInv, EstablishedOnce, Queued
<1>5. UntouchedBefore'
  BY DEF UntouchedBefore
<1>6. Registered'
  <2>1. CASE index_ = "kAdded"
    BY <1>2, <2>1 DEF WatchInv, Registered, WritingIffOutput
  <2>2. CASE index_ # "kAdded"
    <3>1. events_ = {} /\ state_ # "kConnected" /\ revents_ \cap {"HUP", "IN"} = {}
      BY <2>2 DEF WatchInv, Registered
    <3>2. \/ index_' = index_ /\ events_' = {}
          \/ index_' = "kAdded" /\ events_' = {"write"} /\ outputBuffer_' # <<>>
      BY <1>2, <2>2, <3>1 DEF chan
    <3>3. QED
      BY <2>2, <3>1, <3>2 DEF WatchInv, Registered, WritingIffOutput
  <2>3. QED
    BY <2>1, <2>2
<1>7. QED
  BY <1>3, <1>4, <1>5, <1>6 DEF WatchInv

(* doPendingFunctors() runs the next functor. *)
LEMMA FunctorKeepsWatch ==
    ASSUME WatchInv, RunFunctor
    PROVE  WatchInv'
<1> DEFINE f == Head(batch)
<1>1. /\ batch \in Seq(Functors) /\ batch # <<>> /\ batch' = Tail(batch) /\ phase = "functors"
      /\ callback = "none" /\ UNCHANGED <<phase, revents_, created>>
      /\ ioQueue \in Seq(Functors) /\ Once(ioQueue) /\ Once(batch) /\ revents_ = {}
      /\ "connectEstablished" \notin Ops(ioQueue) \cap Ops(batch)
      /\ upc \in [User -> Message \cup {"idle", "shutdown", "queue"}]
  BY DEF RunFunctor, owner, WatchInv, WatchTypes, SendTypes, EstablishedOnce, Registered
<1>2. /\ f \in Functors /\ batch' \in Seq(Functors) /\ Ops(batch) = {f.op} \cup Ops(batch')
      /\ Once(batch') /\ (f.op = "connectEstablished" => "connectEstablished" \notin Ops(batch'))
  BY <1>1, OpsTail, OnceTail
<1>3. CASE f.op = "connectEstablished" /\ ConnectEstablished /\ UNCHANGED ioQueue
  <2>1. "connectEstablished" \in Queued /\ "connectEstablished" \notin Queued'
    BY <1>1, <1>2, <1>3 DEF Queued
  <2>2. state_ = "kConnecting" /\ created'
    BY <1>1, <2>1 DEF WatchInv, EstablishedOnce
  <2>3. QED
    BY <1>1, <1>2, <1>3, <2>1, <2>2, EstablishedKeepsWatch
<1>4. CASE f.op = "connectDestroyed" /\ ConnectDestroyed /\ UNCHANGED ioQueue
  BY <1>1, <1>2, <1>4, DestroyedKeepsWatch
<1>5. CASE /\ f.op = "sendInLoop" /\ SendInLoop(f.data)
           /\ UNCHANGED <<state_, sent, callback, users, sock, told>>
  <2>1. f.data \in Seq(Bits) /\ state_ # "kConnecting"
    BY <1>2, <1>5 DEF Functors, Bits, Queued, WatchInv, UntouchedBefore
  <2>2. QED
    BY <1>1, <1>2, <1>5, <2>1, SendKeepsWatch DEF users
<1>6. CASE UNCHANGED <<conn, chan, ioQueue, users>> /\ callback' \in {"none", "note"}
  <2>1. Queued' \subseteq Queued /\ "connectEstablished" \notin Ops(ioQueue') \cap Ops(batch')
    BY <1>1, <1>2, <1>6 DEF Queued
  <2>2. QED
    BY <1>1, <1>2, <1>6, <2>1, ChannelUntouched DEF conn, chan, users
<1>7. QED
  BY <1>1, <1>3, <1>4, <1>5, <1>6 DEF RunFunctor

(* User callbacks, and what follows them. *)
LEMMA CallbacksKeepWatch ==
    ASSUME WatchInv,
           \/ CallbackReturns \/ RemoveChannel \/ CallbackShutsDown
           \/ \E m \in Message, c \in {"send", "sendBuffer"} : CallbackSends(m, c)
    PROVE  WatchInv'
<1>1. /\ batch \in Seq(Functors) /\ ioQueue \in Seq(Functors) /\ Once(ioQueue) /\ Once(batch)
      /\ "connectEstablished" \notin Ops(ioQueue) \cap Ops(batch)
      /\ upc \in [User -> Message \cup {"idle", "shutdown", "queue"}]
      /\ revents_ \cap {"HUP", "IN"} # {} => index_ = "kAdded"
      /\ phase # "events" => revents_ = {}
      /\ callback \in {"destroyDown", "remove"} => phase \in {"functors", "stopped"}
  BY DEF WatchInv, WatchTypes, SendTypes, EstablishedOnce, Registered
<1>2. CASE CallbackReturns
  <2>1. /\ UNCHANGED <<state_, outputBuffer_, wire, events_, index_, created, batch, upc>>
        /\ UNCHANGED <<revents_, phase>>
        /\ callback' \in {"destroyDown", "remove"} => phase \in {"functors", "stopped"}
    BY <1>1, <1>2 DEF CallbackReturns, conn, chan, loop, users
  <2>2. \/ UNCHANGED ioQueue
        \/ ioQueue' = Append(ioQueue, Functor("connectDestroyed"))
    BY <1>2 DEF CallbackReturns, RemoveConnectionInLoop
  <2>3. CASE UNCHANGED ioQueue
    BY <1>1, <2>1, <2>3, QueuesUntouched
  <2>4. CASE ioQueue' = Append(ioQueue, Functor("connectDestroyed"))
    BY <2>1, <2>4, QueueingKeepsWatch DEF FunctorOps, Strong
  <2>5. QED
    BY <2>2, <2>3, <2>4
<1>3. CASE RemoveChannel
  <2>1. /\ UNCHANGED <<state_, outputBuffer_, wire, events_, created, ioQueue, batch, upc>>
        /\ UNCHANGED <<revents_, phase>> /\ index_' = "kNew" /\ events_ = {}
        /\ callback' = "none" /\ revents_ = {}
    BY <1>1, <1>3 DEF RemoveChannel, conn, loop, rest, owner, users
  <2>2. WatchTypes'
    BY <2>1 DEF WatchInv, WatchTypes, SendTypes
  <2>3. EstablishedOnce' /\ UntouchedBefore'
    BY <2>1 DEF WatchInv, EstablishedOnce, UntouchedBefore, Queued
  <2>4. Registered'
    BY <2>1 DEF WatchInv, Registered, WritingIffOutput
  <2>5. QED
    BY <2>2, <2>3, <2>4 DEF WatchInv
<1>4. CASE CallbackShutsDown
  <2>1. /\ UNCHANGED <<outputBuffer_, wire, events_, index_, ioQueue, batch, created, upc>>
        /\ UNCHANGED <<revents_, phase, callback>>
        /\ state_ # "kConnecting" /\ state_' = "kDisconnecting"
    BY <1>4 DEF CallbackShutsDown, MayShutDown, chan, loop, owner, users
  <2>2. Queued' = Queued
    BY <2>1 DEF Queued
  <2>3. QED
    BY <1>1, <2>1, <2>2, ChannelUntouched
<1>5. ASSUME NEW m \in Message, NEW c \in {"send", "sendBuffer"}, CallbackSends(m, c)
      PROVE  WatchInv'
  <2>1. PICK data \in Seq(Bits) : SendInLoop(data)
    <3>1. Bytes(m) \in Seq(Bits) /\ Bytes(Junk) \in Seq(Bits)
      BY DEF Bytes, Bits
    <3>2. QED
      BY <1>5, <3>1 DEF CallbackSends
  <2>2. /\ UNCHANGED <<state_, phase, revents_, callback, created, upc, batch>>
        /\ state_ # "kConnecting"
    BY <1>5 DEF CallbackSends, loop, rest, owner, users
  <2>3. QED
    BY <1>1, <2>1, <2>2, SendKeepsWatch
<1>6. QED
  BY <1>2, <1>3, <1>4, <1>5

(* TcpServer and its destructor. *)
LEMMA ServerKeepsWatch ==
    ASSUME WatchInv, NewConnection \/ BaseRunsFunctor \/ DestroyServer \/ DestroyBaseLoop
    PROVE  WatchInv'
<1>1. /\ batch \in Seq(Functors) /\ ioQueue \in Seq(Functors) /\ Once(ioQueue) /\ Once(batch)
      /\ "connectEstablished" \notin Ops(ioQueue) \cap Ops(batch)
      /\ upc \in [User -> Message \cup {"idle", "shutdown", "queue"}]
      /\ revents_ \cap {"HUP", "IN"} # {} => index_ = "kAdded"
      /\ phase # "events" => revents_ = {}
      /\ callback \in {"destroyDown", "remove"} => phase \in {"functors", "stopped"}
  BY DEF WatchInv, WatchTypes, SendTypes, EstablishedOnce, Registered
<1>2. CASE NewConnection
  <2>1. /\ ~created /\ created' /\ UNCHANGED <<phase, revents_, batch>>
    BY <1>2 DEF NewConnection, loop
  <2>2. state_ = "kConnecting" /\ "connectEstablished" \notin Queued
    BY <2>1 DEF WatchInv, EstablishedOnce
  <2>3. CASE baseIsIo
    <3>1. ConnectEstablished /\ UNCHANGED ioQueue /\ Queued' = Queued
      BY <1>2, <2>1, <2>3 DEF NewConnection, Queued
    <3>2. QED
      BY <1>1, <2>1, <2>2, <3>1, EstablishedKeepsWatch
  <2>4. CASE ~baseIsIo
    <3>1. /\ ioQueue' = Append(ioQueue, Functor("connectEstablished"))
          /\ UNCHANGED <<state_, outputBuffer_, wire, events_, index_, callback, upc>>
      BY <1>2, <2>4 DEF NewConnection, conn, chan, users
    <3>2. /\ ioQueue' \in Seq(Functors) /\ Once(ioQueue')
          /\ Ops(ioQueue') = Ops(ioQueue) \cup {"connectEstablished"}
      BY <1>1, <2>2, <3>1, OnceAppend DEF FunctorOps, Strong, Queued
    <3>3. Queued' = Queued \cup {"connectEstablished"}
      BY <2>1, <3>2 DEF Queued
    <3>4. WatchTypes'
      BY <2>1, <3>1, <3>2 DEF WatchInv, WatchTypes, SendTypes
    <3>5. EstablishedOnce'
      BY <1>1, <2>1, <2>2, <3>1, <3>2 DEF EstablishedOnce, Queued
    <3>6. UntouchedBefore'
      BY <3>1, <3>3 DEF WatchInv, UntouchedBefore
    <3>7. Registered'
      BY <2>1, <3>1 DEF WatchInv, Registered, WritingIffOutput
    <3>8. QED
      BY <3>4, <3>5, <3>6, <3>7 DEF WatchInv
  <2>5. QED
    BY <2>3, <2>4
<1>3. ASSUME ioQueue' = Append(ioQueue, Functor("connectDestroyed")),
             UNCHANGED <<created, conn, chan, loop, callback, users>>
      PROVE  WatchInv'
  BY <1>1, <1>3, QueueingKeepsWatch DEF FunctorOps, Strong, conn, chan, loop, users
<1>4. CASE BaseRunsFunctor
  BY <1>3, <1>4 DEF BaseRunsFunctor, RemoveConnectionInLoop
<1>5. CASE DestroyServer
  <2>1. CASE UNCHANGED <<conn, chan, ioQueue, callback, users>>
    BY <1>1, <1>5, <2>1, QueuesUntouched DEF DestroyServer, conn, chan, loop, users
  <2>2. CASE baseIsIo /\ ConnectDestroyed /\ UNCHANGED ioQueue
    <3>1. phase = "stopped" /\ UNCHANGED <<phase, revents_, created, batch>>
      BY <1>5, <2>2 DEF DestroyServer, loop
    <3>2. QED
      BY <1>1, <2>2, <3>1, DestroyedKeepsWatch
  <2>3. CASE /\ ioQueue' = Append(ioQueue, Functor("connectDestroyed"))
             /\ UNCHANGED <<conn, chan, callback, users>>
    BY <1>3, <1>5, <2>3 DEF DestroyServer
  <2>4. QED
    BY <1>5, <2>1, <2>2, <2>3 DEF DestroyServer
<1>6. CASE DestroyBaseLoop
  <2>1. /\ ioQueue' = <<>> /\ UNCHANGED <<batch, revents_, phase, callback, created, upc>>
        /\ UNCHANGED <<state_, outputBuffer_, wire, events_, index_>>
    BY <1>6 DEF DestroyBaseLoop, conn, chan, loop, users
  <2>2. <<>> \in Seq(Functors) /\ Once(<<>>) /\ Ops(<<>>) = {}
    BY OpsOfNone, OnceIs
  <2>3. Queued' \subseteq Queued /\ Ops(ioQueue') = {}
    BY <2>1, <2>2 DEF Queued
  <2>4. QED
    BY <1>1, <2>1, <2>2, <2>3, ChannelUntouched
<1>7. QED
  BY <1>2, <1>4, <1>5, <1>6

(* Other threads, whatever they call: none of them has anything to call before
   the connection is established. *)
LEMMA UsersKeepWatch ==
    ASSUME WatchInv, NEW t \in User,
           \/ \E m \in Message : UserSends(t, m)
           \/ UserShutsDown(t) \/ UserFinishes(t) \/ UserReleasesConn(t)
    PROVE  WatchInv'
<1>1. /\ batch \in Seq(Functors) /\ ioQueue \in Seq(Functors) /\ Once(ioQueue) /\ Once(batch)
      /\ "connectEstablished" \notin Ops(ioQueue) \cap Ops(batch)
      /\ upc \in [User -> Message \cup {"idle", "shutdown", "queue"}]
      /\ revents_ \cap {"HUP", "IN"} # {} => index_ = "kAdded"
      /\ phase # "events" => revents_ = {}
      /\ callback \in {"destroyDown", "remove"} => phase \in {"functors", "stopped"}
  BY DEF WatchInv, WatchTypes, SendTypes, EstablishedOnce, Registered
<1>2. UNCHANGED <<outputBuffer_, wire, events_, index_, created, batch, revents_, phase, callback>>
  BY DEF UserSends, UserShutsDown, UserFinishes, UserQueuesSend, UserSetsState, UserQueuesShutdown,
     UserReleasesConn, conn, chan, loop, owner
<1>3. upc[t] # "idle" => state_ # "kConnecting"
  BY DEF WatchInv, UntouchedBefore
<1>4. CASE UserReleasesConn(t)
  BY <1>1, <1>2, <1>4, QueuesUntouched DEF UserReleasesConn, conn
<1>5. CASE (\E m \in Message : UserSends(t, m)) \/ UserShutsDown(t) \/ UserSetsState(t)
  <2>1. /\ state_ # "kConnecting" /\ UNCHANGED ioQueue
        /\ state_' = state_ \/ state_' = "kDisconnecting"
        /\ upc' \in [User -> Message \cup {"idle", "shutdown", "queue"}]
    BY <1>1, <1>3, <1>5 DEF UserSends, UserShutsDown, UserSetsState, UserMayCall, conn
  <2>2. Queued' = Queued
    BY <1>2, <2>1 DEF Queued
  <2>3. QED
    BY <1>1, <1>2, <2>1, <2>2, ChannelUntouched
<1>6. CASE UserQueuesSend(t) \/ UserQueuesShutdown(t)
  <2>1. PICK f \in Functors :
             /\ f.op \in {"sendInLoop", "shutdownInLoop"}
             /\ upc[t] # "idle" /\ ioQueue' = Append(ioQueue, f)
             /\ upc' = [upc EXCEPT ![t] = "idle"] /\ UNCHANGED state_
    <3>1. CASE UserQueuesSend(t)
      BY <1>1, <3>1, FunctorsAre, TcpConnectionAssumption
         DEF UserQueuesSend, TcpConnectionAssumption, conn
    <3>2. CASE UserQueuesShutdown(t)
      BY <3>2, FunctorsAre DEF UserQueuesShutdown, FunctorOps, conn
    <3>3. QED
      BY <1>6, <3>1, <3>2
  <2>2. state_ # "kConnecting" /\ "connectEstablished" \notin Queued
    BY <1>3, <2>1 DEF WatchInv, EstablishedOnce
  <2>3. ioQueue' \in Seq(Functors) /\ Ops(ioQueue') = Ops(ioQueue) \cup {f.op}
    BY <1>1, <2>1, OpsAppend
  <2>4. /\ "connectEstablished" \notin Ops(ioQueue') /\ Once(ioQueue')
        /\ Queued' \subseteq Queued \cup (FunctorOps \ {"connectEstablished"})
    BY <1>2, <2>1, <2>2, <2>3, OnceIs DEF Queued, FunctorOps
  <2>5. upc' \in [User -> Message \cup {"idle", "shutdown", "queue"}]
    BY <1>1, <2>1
  <2>6. QED
    BY <1>1, <1>2, <2>1, <2>2, <2>3, <2>4, <2>5, ChannelUntouched
<1>7. QED
  BY <1>4, <1>5, <1>6 DEF UserFinishes

(* The invariant is inductive. *)
LEMMA StepWatchInv ==
    ASSUME WatchInv, [Next]_vars
    PROVE  WatchInv'
<1>1. CASE UNCHANGED vars
  BY <1>1, QueuesUntouched DEF vars, conn, chan, loop, owner, users, WatchInv, Registered
<1>2. CASE \/ PeerSends \/ PeerCloses \/ PeerResets \/ PollActive \/ PollOthers
           \/ QuitBaseLoop \/ QuitIoLoop
  BY <1>2, LoopKeepsWatch
<1>3. CASE IoStep
  BY <1>3, LoopKeepsWatch, HandlersKeepWatch, FunctorKeepsWatch, CallbacksKeepWatch DEF IoStep
<1>4. CASE \/ \E m \in Message, c \in {"send", "sendBuffer"} : CallbackSends(m, c)
           \/ CallbackShutsDown
  BY <1>4, CallbacksKeepWatch
<1>5. CASE NewConnection \/ BaseRunsFunctor \/ DestroyServer \/ DestroyBaseLoop
  BY <1>5, ServerKeepsWatch
<1>6. ASSUME NEW t \in User,
             \/ \E m \in Message : UserSends(t, m)
             \/ UserShutsDown(t)
             \/ UserFinishes(t)
             \/ UserReleasesConn(t)
      PROVE  WatchInv'
  BY <1>6, UsersKeepWatch
<1>7. QED
  BY <1>1, <1>2, <1>3, <1>4, <1>5, <1>6 DEF Next

(* The registered channel watches for writability as long as there is output,
   and no longer, whatever callbacks and other threads call and also when a
   shutdown() brings a closed connection back (sendInLoop() line 149,
   handleWrite() line 228). *)
THEOREM WatchesWhileOutput == Spec => []WritingIffOutput
<1>1. Init => WatchInv
  BY InitWatchInv
<1>2. WatchInv /\ [Next]_vars => WatchInv'
  BY StepWatchInv
<1>3. WatchInv => WritingIffOutput
  BY DEF WatchInv, Registered
<1>4. QED
  BY <1>1, <1>2, <1>3, PTL DEF Spec

-----------------------------------------------------------------------------
(* The end of the channel, whether the peer closes or the server goes.     *)

(* A step that leaves the server's entry, the fall and its functors alone. *)
LEMMA LeavingUntouched ==
    ASSUME Leaving,
           UNCHANGED <<server, connections_, created, baseQueue, ups, downs, index_>>,
           (callback' \in Ending) <=> (callback \in Ending),
           state_' = "kConnected" => state_ = "kConnected",
           phase' # "stopped" =>
              /\ phase # "stopped"
              /\ ("connectDestroyed" \in Ops(ioQueue') \cup Ops(batch'))
                    <=> ("connectDestroyed" \in Ops(ioQueue) \cup Ops(batch)),
           Ops(ioQueue') \cup Ops(batch') \subseteq
              Ops(ioQueue) \cup Ops(batch) \cup (FunctorOps \ {"connectDestroyed"})
    PROVE  Leaving'
<1>1. "connectDestroyed" \in Ops(ioQueue') \cup Ops(batch')
         => "connectDestroyed" \in Ops(ioQueue) \cup Ops(batch)
  OBVIOUS
<1>2. QED
  BY <1>1 DEF Leaving

(* Reading and writing of the socket, and a close in doing so. *)
LEMMA HandlersKeepLeaving ==
    ASSUME ConnInv, Leaving, HandleHup \/ HandleError \/ HandleRead \/ HandleWrite
    PROVE  Leaving'
<1>1. /\ UNCHANGED <<server, connections_, created, baseQueue, batch, phase>>
      /\ callback = "none" /\ phase = "events" /\ downs \in Nat
  BY DEF HandleHup, HandleError, HandleRead, HandleWrite, Due, owner, ConnInv, ConnTypes, TypeOK
<1>2. ASSUME HandleClose, ioQueue' = ioQueue, revents_ \cap {"HUP", "IN"} # {}
      PROVE  Leaving'
  <2>1. downs = 0
    BY <1>2, EventsWhileUp
  <2>2. downs' = 1 /\ callback' = "closeDown" /\ state_' = "kDisconnected" /\ UNCHANGED ups
    BY <1>2, <2>1 DEF HandleClose
  <2>3. QED
    BY <1>1, <1>2, <2>1, <2>2 DEF Leaving, Ending
<1>3. ASSUME UNCHANGED <<state_, ups, downs, index_, ioQueue>>, callback' \in {"none", "message"}
      PROVE  Leaving'
  BY <1>1, <1>3, LeavingUntouched DEF Ending
<1>4. CASE HandleHup
  BY <1>1, <1>2, <1>3, <1>4 DEF HandleHup, Due, conn, chan, told
<1>5. CASE HandleError
  BY <1>1, <1>3, <1>5 DEF HandleError, conn, chan, told
<1>6. CASE HandleRead
  BY <1>1, <1>2, <1>3, <1>6 DEF HandleRead, Due, conn, chan, told
<1>7. CASE HandleWrite
  <2>1. CASE ~("write" \in events_ /\ ~Broken)
    BY <1>1, <1>3, <1>7, <2>1 DEF HandleWrite, conn, chan, told
  <2>2. CASE "write" \in events_ /\ ~Broken
    <3>1. /\ ups = 1 /\ downs = 0
          /\ Ops(ioQueue) \subseteq Ops(ioQueue')
          /\ Ops(ioQueue') \subseteq Ops(ioQueue) \cup {"writeComplete"}
          /\ UNCHANGED <<callback, ups, downs>>
      BY <1>7, <2>2, WriteMakes DEF HandleWrite, told
    <3>2. index_ = "kAdded"
      BY <3>1 DEF ConnInv, WhileUp
    <3>3. QED
      BY <1>1, <3>1, <3>2 DEF Leaving, Ending
  <2>3. QED
    BY <2>1, <2>2
<1>8. QED
  BY <1>4, <1>5, <1>6, <1>7

(* A functor is run. *)
LEMMA RunFunctorKeepsLeaving ==
    ASSUME ConnInv, Leaving, RunFunctor
    PROVE  Leaving'
<1>1. /\ Ops(batch) = {Head(batch).op} \cup Ops(batch')
      /\ phase = "functors" /\ callback = "none" /\ created
      /\ UNCHANGED <<phase, ioQuit, owner>>
      /\ IF Head(batch).op = "connectEstablished" THEN ups = 0 ELSE ups = 1
      /\ Head(batch).op = "sendInLoop" => "send" \in userCalls
      /\ Head(batch) \in Functors /\ ioQueue \in Seq(Functors)
  BY FunctorIs DEF ConnInv, ConnTypes
<1>2. UNCHANGED <<server, connections_, created, baseQueue>> /\ phase' # "stopped"
  BY <1>1 DEF owner
<1>3. CASE Head(batch).op = "connectEstablished" /\ ConnectEstablished /\ UNCHANGED ioQueue
  <2>1. ups = 0 /\ downs = 0 /\ downs' = 0 /\ callback' = "up"
    BY <1>1, <1>3 DEF ConnInv, BeforeUp, ConnectEstablished
  <2>2. QED
    BY <1>1, <1>2, <1>3, <2>1 DEF Leaving, Ending
<1>4. CASE Head(batch).op = "connectDestroyed" /\ ConnectDestroyed /\ UNCHANGED ioQueue
  <2>1. ups = 1 /\ ups' = 1
    BY <1>1, <1>4, DestroyedMakes
  <2>2. \/ /\ downs = 0 /\ downs' = 1 /\ callback' = "destroyDown" /\ state_' = "kDisconnected"
        \/ /\ state_ # "kConnected" /\ callback' = "remove" /\ UNCHANGED <<state_, downs>>
    BY <1>4, <2>1, DestroyedMakes
  <2>3. server = "up" => downs = 1
    BY <1>1, <1>4 DEF Leaving
  <2>4. QED
    BY <1>1, <1>2, <1>4, <2>1, <2>2, <2>3 DEF Leaving, Ending
<1>5. CASE /\ Head(batch).op = "sendInLoop" /\ SendInLoop(Head(batch).data)
           /\ UNCHANGED <<state_, sent, callback, users, sock, told>>
  <2>1. Head(batch).data \in Seq(Bits) /\ downs \in {0, 1} /\ ups = 1
    BY <1>1, <1>5 DEF Functors, Bits, ConnInv, ConnTypes, TypeOK, WhileUp
  <2>2. /\ Ops(ioQueue) \subseteq Ops(ioQueue')
        /\ Ops(ioQueue') \subseteq Ops(ioQueue) \cup {"writeComplete", "highWaterMark"}
        /\ state_ = "kDisconnected" => UNCHANGED <<outputBuffer_, wire, chan, ioQueue>>
    BY <1>5, <2>1, SendMakes, SendTypesHold DEF ConnInv
  <2>3. IF downs = 1 THEN UNCHANGED index_ ELSE index_ = "kAdded"
    BY <1>1, <1>5, <2>1, <2>2 DEF ConnInv, AfterDown, WhileUp, chan
  <2>4. UNCHANGED <<ups, downs, callback, state_>>
    BY <1>5 DEF told
  <2>5. QED
    BY <1>1, <1>2, <1>5, <2>1, <2>2, <2>3, <2>4 DEF Leaving, Ending
<1>6. CASE /\ Head(batch).op \in {"shutdownInLoop", "writeComplete", "highWaterMark"}
           /\ UNCHANGED <<conn, chan, ioQueue, told>> /\ callback' \in {"none", "note"}
  BY <1>1, <1>2, <1>6, LeavingUntouched DEF conn, chan, told, Ending
<1>7. QED
  BY <1>1, <1>3, <1>4, <1>5, <1>6 DEF RunFunctor

(* No step loses the connection before its channel is removed. *)
LEMMA StepLeaving ==
    ASSUME ConnInv, Leaving, [Next]_vars
    PROVE  Leaving'
<1>1. /\ downs \in {0, 1} /\ baseQueue \in Nat
      /\ ioQueue \in Seq(Functors) /\ batch \in Seq(Functors)
      /\ index_ \in {"kNew", "kAdded", "kDeleted"}
  BY DEF ConnInv, ConnTypes, TypeOK, WhileUp
<1>2. ASSUME UNCHANGED <<server, connections_, created, baseQueue, ups, downs, index_,
                         ioQueue, batch, callback>>,
             phase' # "stopped" => phase # "stopped",
             state_' = "kConnected" => state_ = "kConnected"
      PROVE  Leaving'
  BY <1>2, LeavingUntouched
<1>3. CASE UNCHANGED vars
  BY <1>2, <1>3 DEF vars, conn, chan, loop, owner, told
<1>4. CASE PeerSends \/ PeerCloses \/ PeerResets
  BY <1>2, <1>4 DEF PeerSends, PeerCloses, PeerResets, conn, chan, loop, owner, told
<1>5. CASE PollActive \/ PollOthers
  BY <1>2, <1>5 DEF PollActive, PollOthers, Poll, conn, chan, rest, owner, told
<1>6. CASE EndFunctors \/ QuitBaseLoop \/ QuitIoLoop
  BY <1>2, <1>6 DEF EndFunctors, QuitBaseLoop, QuitIoLoop, conn, chan, rest, owner, told
<1>7. CASE CheckQuit
  <2>1. /\ UNCHANGED <<server, connections_, created, baseQueue, ups, downs, index_, batch,
                       callback, state_>>
        /\ phase # "stopped"
        /\ \/ phase' # "stopped" /\ UNCHANGED ioQueue
           \/ phase' = "stopped" /\ ioQueue' \in {ioQueue, <<>>}
    BY <1>7 DEF CheckQuit, conn, chan, rest, owner, told
  <2>2. QED
    BY <2>1, LeavingUntouched, OpsOfNone
<1>8. CASE HandleHup \/ HandleError \/ HandleRead \/ HandleWrite
  BY <1>8, HandlersKeepLeaving
<1>9. CASE SwapFunctors
  <2>1. batch = <<>>
    BY <1>9 DEF SwapFunctors, ConnInv, LoopPhases
  <2>2. /\ batch' = ioQueue /\ ioQueue' = <<>> /\ phase # "stopped"
        /\ UNCHANGED <<server, connections_, created, baseQueue, ups, downs, index_, callback,
                       state_>>
    BY <1>9 DEF SwapFunctors, conn, chan, rest, owner, told
  <2>3. Ops(ioQueue') \cup Ops(batch') = Ops(ioQueue) \cup Ops(batch)
    BY <2>1, <2>2, OpsOfNone
  <2>4. QED
    BY <2>2, <2>3, LeavingUntouched
<1>10. CASE RunFunctor
  BY <1>10, RunFunctorKeepsLeaving
<1>11. CASE CallbackReturns
  <2>1. /\ UNCHANGED <<created, server, phase, batch, ups, downs, index_, state_>>
        /\ callback # "remove"
    BY <1>11 DEF CallbackReturns, InCallback, conn, chan, loop, told
  <2>2. CASE callback = "closeDown"
    <3>1. /\ \/ baseQueue' = baseQueue + 1 /\ UNCHANGED ioQueue
             \/ baseQueue' = baseQueue /\ ioQueue' = Append(ioQueue, Functor("connectDestroyed"))
          /\ callback' = "none"
      BY <1>11, <2>2 DEF CallbackReturns, RemoveConnectionInLoop
    <3>2. downs = 1
      BY <1>1, <2>2 DEF ConnInv, WhileUp
    <3>3. baseQueue' > 0 \/ "connectDestroyed" \in Ops(ioQueue')
      BY <1>1, <3>1, QueueMakes DEF FunctorOps, Strong
    <3>4. QED
      BY <1>1, <2>1, <3>1, <3>2, <3>3 DEF Leaving, Ending
  <2>3. CASE callback # "closeDown"
    <3>1. /\ UNCHANGED <<connections_, baseQueue, ioQueue>>
          /\ (callback' \in Ending) <=> (callback \in Ending)
      BY <1>11, <2>1, <2>3 DEF CallbackReturns, InCallback, Ending
    <3>2. QED
      BY <1>1, <2>1, <3>1 DEF Leaving
  <2>4. QED
    BY <2>2, <2>3
<1>12. CASE RemoveChannel
  <2>1. /\ UNCHANGED <<server, connections_, created, baseQueue, ups, downs, ioQueue, batch, phase>>
        /\ index_' = "kNew" /\ callback' = "none" /\ callback = "remove"
    BY <1>12 DEF RemoveChannel, loop, rest, owner, told
  <2>2. ups = 1
    BY <2>1 DEF ConnInv, ConnTypes, TypeOK, BeforeUp, WhileUp
  <2>3. QED
    BY <1>1, <2>1, <2>2 DEF Leaving, Ending
<1>13. ASSUME NEW m \in Message, NEW c \in {"send", "sendBuffer"}, CallbackSends(m, c)
       PROVE  Leaving'
  <2>1. PICK data \in Seq(Bits) : SendInLoop(data)
    <3>1. Bytes(m) \in Seq(Bits) /\ Bytes(Junk) \in Seq(Bits)
      BY DEF Bytes, Bits
    <3>2. QED
      BY <1>13, <3>1 DEF CallbackSends
  <2>2. /\ Ops(ioQueue) \subseteq Ops(ioQueue')
        /\ Ops(ioQueue') \subseteq Ops(ioQueue) \cup {"writeComplete", "highWaterMark"}
    BY <2>1, SendMakes, SendTypesHold DEF ConnInv
  <2>3. /\ UNCHANGED <<server, connections_, created, baseQueue, ups, downs, callback, batch, phase,
                       state_>>
        /\ state_ = "kConnected"
    BY <1>13 DEF CallbackSends, loop, rest, owner, told
  <2>4. ups = 1 /\ downs = 0
    BY <1>1, <2>3 DEF ConnInv, ConnTypes, TypeOK, BeforeUp, WhileUp, AfterDown
  <2>5. index_ = "kAdded"
    BY <2>4 DEF ConnInv, WhileUp
  <2>6. QED
    BY <1>1, <2>2, <2>3, <2>4, <2>5 DEF Leaving, Ending
<1>14. CASE CallbackShutsDown
  BY <1>2, <1>14 DEF CallbackShutsDown, chan, loop, owner, told
<1>15. CASE NewConnection
  <2>1. ups = 0 /\ downs = 0 /\ callback = "none"
    BY <1>15 DEF NewConnection, ConnInv, ConnTypes, TypeOK, BeforeUp, WhileUp
  <2>2. /\ created' /\ connections_' /\ UNCHANGED <<baseQueue, server, phase, batch, downs>>
        /\ callback' \in {"up", "none"}
        /\ ioQueue' \in {ioQueue, Append(ioQueue, Functor("connectEstablished"))}
    BY <1>15, <2>1 DEF NewConnection, ConnectEstablished, loop, told
  <2>3. Ops(ioQueue') \subseteq Ops(ioQueue) \cup {"connectEstablished"}
    <3>1. CASE ioQueue' = Append(ioQueue, Functor("connectEstablished"))
      BY <1>1, <3>1, QueueMakes DEF FunctorOps, Strong
    <3>2. QED
      BY <2>2, <3>1
  <2>4. QED
    BY <1>1, <2>1, <2>2, <2>3 DEF Leaving, Ending
<1>16. CASE BaseRunsFunctor
  <2>1. /\ ioQueue' = Append(ioQueue, Functor("connectDestroyed"))
        /\ UNCHANGED <<created, server, phase, batch, downs, index_, callback, state_>>
        /\ baseQueue # 0
    BY <1>1, <1>16 DEF BaseRunsFunctor, RemoveConnectionInLoop, conn, chan, loop, told
  <2>2. downs = 1
    BY <1>1, <2>1 DEF ConnInv, WhileUp
  <2>3. "connectDestroyed" \in Ops(ioQueue')
    BY <1>1, <2>1, QueueMakes DEF FunctorOps, Strong
  <2>4. QED
    BY <1>1, <2>1, <2>2, <2>3 DEF Leaving
<1>17. CASE DestroyServer
  <2>1. server' = "dying" /\ UNCHANGED <<created, baseQueue, batch, phase>>
    BY <1>17 DEF DestroyServer, loop
  <2>2. CASE ~connections_
    BY <1>17, <2>1, <2>2 DEF DestroyServer, conn, chan, told, Leaving
  <2>3. CASE connections_ /\ baseIsIo
    <3>1. phase = "stopped" /\ ConnectDestroyed
      BY <1>17, <2>3 DEF DestroyServer
    <3>2. callback' \in Ending => state_' # "kConnected"
      BY <3>1 DEF ConnectDestroyed
    <3>3. QED
      BY <2>1, <3>1, <3>2 DEF Leaving
  <2>4. CASE connections_ /\ ~baseIsIo
    <3>1. /\ ioQueue' = Append(ioQueue, Functor("connectDestroyed"))
          /\ UNCHANGED <<state_, callback>>
      BY <1>17, <2>4 DEF DestroyServer, conn
    <3>2. "connectDestroyed" \in Ops(ioQueue')
      BY <1>1, <3>1, QueueMakes DEF FunctorOps, Strong
    <3>3. QED
      BY <2>1, <3>1, <3>2 DEF Leaving
  <2>5. QED
    BY <2>2, <2>3, <2>4
<1>18. CASE DestroyBaseLoop
  BY <1>18 DEF DestroyBaseLoop, conn, loop, Leaving, Ending
<1>19. ASSUME NEW t \in User,
              \/ \E m \in Message : UserSends(t, m)
              \/ UserShutsDown(t) \/ UserSetsState(t) \/ UserReleasesConn(t)
       PROVE  Leaving'
  BY <1>2, <1>19 DEF UserSends, UserShutsDown, UserSetsState, UserReleasesConn, conn, chan, loop,
                     owner, told
<1>20. ASSUME NEW t \in User, UserQueuesSend(t) \/ UserQueuesShutdown(t)
       PROVE  Leaving'
  <2>1. PICK f \in Functors :
             f.op \in {"sendInLoop", "shutdownInLoop"} /\ ioQueue' = Append(ioQueue, f)
    BY <1>20, FunctorsAre DEF UserQueuesSend, UserQueuesShutdown, FunctorOps
  <2>2. UNCHANGED <<server, connections_, created, baseQueue, ups, downs, index_, batch,
                    callback, phase, state_>>
    BY <1>20 DEF UserQueuesSend, UserQueuesShutdown, conn, chan, loop, owner, told
  <2>3. Ops(ioQueue') = Ops(ioQueue) \cup {f.op}
    BY <1>1, <2>1, OpsAppend
  <2>4. {"sendInLoop", "shutdownInLoop"} \subseteq FunctorOps \ {"connectDestroyed"}
    BY DEF FunctorOps
  <2>5. QED
    BY <2>1, <2>2, <2>3, <2>4, LeavingUntouched
<1>21. QED
  BY <1>3, <1>4, <1>5, <1>6, <1>7, <1>8, <1>9, <1>10, <1>11, <1>12, <1>13, <1>14, <1>15, <1>16, <1>17,
     <1>18, <1>19, <1>20 DEF Next, IoStep, UserFinishes

(* The channel leaves the poller in good order and for good, but for a connection
   kDisconnecting that ~TcpServer destroys and for a loop that has ended
   (connectDestroyed() line 186, removeConnectionInLoop(), sendInLoop() line 99). *)
THEOREM ChannelIsLeft ==
    ASSUME UsersDoNotMix
    PROVE  Spec => []ChannelLeaves
<1>1. Init => ConnInv /\ Leaving
  BY InitConnInv, OpsOfNone DEF Init, Leaving, Ending
<1>2. ConnInv /\ Leaving /\ [Next]_vars => (ConnInv /\ Leaving)'
  BY StepConnInv, StepLeaving
<1>3. ConnInv /\ Leaving => ChannelLeaves
  <2>1. SUFFICES ASSUME ConnInv, Leaving
                 PROVE  ChannelLeaves
    OBVIOUS
  <2>2. TypeOK /\ downs \in {0, 1} /\ ioQueue \in Seq(Functors) /\ batch \in Seq(Functors)
    BY <2>1 DEF ConnInv, ConnTypes, TypeOK, WhileUp
  <2>3. RemoveFindsNoEvent
    <3>1. SUFFICES ASSUME callback = "remove", events_ # {}
                   PROVE  state_ = "kDisconnecting" /\ server # "up"
      BY DEF RemoveFindsNoEvent
    <3>2. downs = 0
      BY <2>1, <2>2, <3>1 DEF ConnInv, AfterDown
    <3>3. ups = 1
      BY <2>1, <2>2, <3>1 DEF ConnInv, TypeOK, BeforeUp, WhileUp
    <3>4. state_ = "kDisconnecting"
      BY <2>1, <3>1, <3>2, <3>3 DEF Leaving, Ending, ConnInv, WhileUp
    <3>5. QED
      BY <2>1, <3>1, <3>2, <3>4 DEF Leaving, Ending
  <2>4. ASSUME created, ~Alive, phase # "stopped"
        PROVE  index_ = "kNew"
    <3>1. "connectDestroyed" \notin Ops(ioQueue)
      BY <2>2, <2>4, HoldsByOps DEF Alive, Strong
    <3>2. "connectDestroyed" \notin Ops(batch)
      BY <2>1, <2>4 DEF Alive, Strong, ConnInv, LoopPhases
    <3>3. callback \notin Ending /\ ~(baseQueue > 0)
      BY <2>4 DEF Alive, Ending
    <3>4. QED
      BY <2>1, <2>4, <3>1, <3>2, <3>3 DEF Leaving, Alive
  <2>5. QED
    BY <2>2, <2>3, <2>4 DEF ChannelLeaves, DestroyedUnregistered, HasChannel
<1>4. QED
  BY <1>1, <1>2, <1>3, PTL DEF Spec

-----------------------------------------------------------------------------
(* The calls of send() on their way to the loop.                           *)

(* Functors whose message, if they have one, is whole. *)
Whole == {f \in Functors : f.op = "sendInLoop" => Len(f.data) = 2}

Sending(f) == IF f.op = "sendInLoop" THEN 1 ELSE 0
UsersSending == {t \in User : upc[t] \in Message}

(* A message has the length of what is passed on for it. *)
LEMMA MessageLength ==
    ASSUME NEW m \in Bits
    PROVE  Bytes(m) \in Seq(Bits) /\ Len(Bytes(m)) = 2
BY DEF Bytes

(* The functors that are made are whole. *)
LEMMA WholeAre ==
    /\ \A op \in FunctorOps \ {"sendInLoop"} : Functor(op) \in Whole /\ Sending(Functor(op)) = 0
    /\ \A m \in Message : /\ SendFunctor(Bytes(m)) \in Whole
                          /\ Sending(SendFunctor(Bytes(m))) = 1
<1>1. \A op \in FunctorOps \ {"sendInLoop"} : Functor(op) \in Whole /\ Sending(Functor(op)) = 0
  BY FunctorsAre DEF Whole, Sending
<1>2. ASSUME NEW m \in Message
      PROVE  SendFunctor(Bytes(m)) \in Whole /\ Sending(SendFunctor(Bytes(m))) = 1
  <2>1. SendFunctor(Bytes(m)).data = Bytes(m) /\ Len(Bytes(m)) = 2
    BY DEF SendFunctor, Bytes
  <2>2. QED
    BY <2>1, FunctorsAre DEF Whole, Sending
<1>3. QED
  BY <1>1, <1>2

(* Two sets of positions have the same number when one is the other moved by one. *)
LEMMA Shifted ==
    ASSUME NEW S \in SUBSET Int, IsFiniteSet(S), NEW T \in SUBSET Int,
           \A i \in Int : i \in T <=> i + 1 \in S
    PROVE  IsFiniteSet(T) /\ Cardinality(T) = Cardinality(S)
<1> DEFINE f == [i \in S |-> i - 1]
<1>1. f \in [S -> T] /\ (\A a, b \in S : f[a] = f[b] => a = b)
  <2>1. \A i \in S : i - 1 \in T
    <3>1. SUFFICES ASSUME NEW i \in S PROVE i - 1 \in T
      OBVIOUS
    <3>2. i \in Int /\ i - 1 \in Int /\ (i - 1) + 1 = i
      OBVIOUS
    <3>3. QED
      BY <3>2
  <2>2. QED
    BY <2>1
<1>2. \A t \in T : \E s \in S : f[s] = t
  <2>1. SUFFICES ASSUME NEW t \in T PROVE \E s \in S : f[s] = t
    OBVIOUS
  <2>2. t + 1 \in S /\ f[t + 1] = t
    OBVIOUS
  <2>3. QED
    BY <2>2
<1>3. f \in Bijection(S, T)
  BY <1>1, <1>2 DEF Bijection, Injection, Surjection, IsInjective
<1>4. ExistsBijection(S, T)
  BY <1>3 DEF ExistsBijection
<1>5. QED
  BY <1>4, FS_Bijection

(* The number of sends in a queue, when one functor comes or is taken. *)
LEMMA SendsInQueue ==
    ASSUME NEW q \in Seq(Whole)
    PROVE  /\ SendsIn(q) \in Nat
           /\ \A f \in Whole : /\ Append(q, f) \in Seq(Whole)
                               /\ SendsIn(Append(q, f)) = SendsIn(q) + Sending(f)
           /\ q # <<>> => /\ Head(q) \in Whole /\ Tail(q) \in Seq(Whole)
                          /\ SendsIn(q) = SendsIn(Tail(q)) + Sending(Head(q))
<1> DEFINE S == {i \in DOMAIN q : q[i].op = "sendInLoop"}
<1>1. /\ Len(q) \in Nat /\ DOMAIN q = 1 .. Len(q)
      /\ IsFiniteSet(S) /\ Cardinality(S) \in Nat /\ SendsIn(q) = Cardinality(S)
  <2>1. Len(q) \in Nat /\ DOMAIN q = 1 .. Len(q)
    BY LenProperties
  <2>2. IsFiniteSet(1 .. Len(q)) /\ S \in SUBSET (1 .. Len(q))
    BY <2>1, FS_Interval
  <2>3. IsFiniteSet(S)
    BY <2>2, FS_Subset
  <2>4. QED
    BY <2>1, <2>3, FS_CardinalityType DEF SendsIn
<1>2. ASSUME NEW f \in Whole
      PROVE  Append(q, f) \in Seq(Whole) /\ SendsIn(Append(q, f)) = SendsIn(q) + Sending(f)
  <2> DEFINE p == Append(q, f)
             P == {i \in DOMAIN p : p[i].op = "sendInLoop"}
  <2>1. /\ p \in Seq(Whole) /\ Len(p) = Len(q) + 1
        /\ \A i \in 1 .. Len(q) : p[i] = q[i]
        /\ p[Len(q) + 1] = f
    BY AppendProperties
  <2>2. DOMAIN p = 1 .. Len(q) + 1
    BY <2>1, LenProperties
  <2>3. Len(q) + 1 \notin S /\ SendsIn(p) = Cardinality(P)
    BY <1>1 DEF SendsIn
  <2>4. CASE f.op = "sendInLoop"
    <3>1. P = S \cup {Len(q) + 1}
      BY <1>1, <2>1, <2>2, <2>4
    <3>2. Cardinality(S \cup {Len(q) + 1}) = Cardinality(S) + 1
      BY <1>1, <2>3, FS_AddElement
    <3>3. QED
      BY <1>1, <2>1, <2>3, <2>4, <3>1, <3>2 DEF Sending
  <2>5. CASE f.op # "sendInLoop"
    <3>1. \A i \in DOMAIN p : p[i].op = "sendInLoop" <=> i \in S
      BY <1>1, <2>1, <2>2, <2>5
    <3>2. P = S
      <4>1. S \subseteq DOMAIN p
        BY <1>1, <2>2
      <4>2. QED
        BY <3>1, <4>1
    <3>3. Sending(f) = 0 /\ SendsIn(p) = SendsIn(q)
      <4> HIDE DEF S, P, p
      <4>1. QED
        BY <1>1, <2>3, <2>5, <3>2 DEF Sending
    <3>4. QED
      BY <1>1, <2>1, <3>3
  <2>6. QED
    BY <2>4, <2>5
<1>3. ASSUME q # <<>>
      PROVE  /\ Head(q) \in Whole /\ Tail(q) \in Seq(Whole)
             /\ SendsIn(q) = SendsIn(Tail(q)) + Sending(Head(q))
  <2> DEFINE p == Tail(q)
             P == {i \in DOMAIN p : p[i].op = "sendInLoop"}
  <2>1. Len(q) >= 1 /\ Head(q) = q[1] /\ Head(q) \in Whole
    BY <1>1, <1>3, EmptySeq
  <2>2. /\ p \in Seq(Whole) /\ Len(p) = Len(q) - 1
        /\ \A i \in 1 .. Len(q) - 1 : p[i] = q[i + 1]
    BY <1>1, <1>3, <2>1
  <2>3. DOMAIN p = 1 .. Len(q) - 1
    BY <2>2, LenProperties
  <2>4. IsFiniteSet(S \ {1}) /\ Cardinality(S) = Cardinality(S \ {1}) + Sending(Head(q))
    <3>1. /\ IsFiniteSet(S \ {1})
          /\ Cardinality(S \ {1}) = IF 1 \in S THEN Cardinality(S) - 1 ELSE Cardinality(S)
      BY <1>1, FS_RemoveElement
    <3>2. 1 \in S <=> Head(q).op = "sendInLoop"
      BY <1>1, <2>1
    <3>3. QED
      BY <1>1, <3>1, <3>2 DEF Sending
  <2>5. \A i \in Int : i \in P <=> i + 1 \in S \ {1}
    <3>1. SUFFICES ASSUME NEW i \in Int PROVE i \in P <=> i + 1 \in S \ {1}
      OBVIOUS
    <3>2. i \in 1 .. Len(q) - 1 <=> i + 1 \in 1 .. Len(q) /\ i + 1 # 1
      BY <1>1
    <3>3. QED
      BY <1>1, <2>2, <2>3, <3>2
  <2>6. S \ {1} \in SUBSET Int /\ P \in SUBSET Int
    BY <1>1, <2>3
  <2>7. Cardinality(P) = Cardinality(S \ {1})
    <3> HIDE DEF S, P
    <3>1. QED
      BY <2>4, <2>5, <2>6, Shifted
  <2>8. SendsIn(p) = Cardinality(P)
    BY DEF SendsIn
  <2>9. QED
    BY <1>1, <2>1, <2>2, <2>4, <2>7, <2>8
<1>4. QED
  BY <1>1, <1>2, <1>3

(* None is in an empty queue. *)
LEMMA SendsInNone == <<>> \in Seq(Whole) /\ SendsIn(<<>>) = 0
<1>1. {i \in DOMAIN <<>> : <<>>[i].op = "sendInLoop"} = {}
  OBVIOUS
<1>2. QED
  BY <1>1, FS_EmptySet DEF SendsIn

(* The number of users with a send begun. *)
LEMMA UsersSendingCount ==
    ASSUME NEW t \in User, NEW place, upc \in [User -> Message \cup {"idle", "shutdown", "queue"}],
           upc' = [upc EXCEPT ![t] = place]
    PROVE  /\ Cardinality(UsersSending) \in Nat
           /\ place \in Message /\ upc[t] \notin Message
                 => Cardinality(UsersSending') = Cardinality(UsersSending) + 1
           /\ place \notin Message /\ upc[t] \in Message
                 => Cardinality(UsersSending) = Cardinality(UsersSending') + 1
                    /\ Cardinality(UsersSending') \in Nat
           /\ place \notin Message /\ upc[t] \notin Message => UsersSending' = UsersSending
<1>1. IsFiniteSet(UsersSending) /\ Cardinality(UsersSending) \in Nat
  <2>1. IsFiniteSet(User) /\ UsersSending \in SUBSET User
    BY TcpConnectionAssumption DEF TcpConnectionAssumption, UsersSending
  <2>2. IsFiniteSet(UsersSending)
    BY <2>1, FS_Subset
  <2>3. QED
    BY <2>2, FS_CardinalityType
<1>2. ASSUME place \in Message, upc[t] \notin Message
      PROVE  Cardinality(UsersSending') = Cardinality(UsersSending) + 1
  <2>1. UsersSending' = UsersSending \cup {t} /\ t \notin UsersSending
    BY <1>2 DEF UsersSending
  <2>2. Cardinality(UsersSending \cup {t}) = Cardinality(UsersSending) + 1
    BY <1>1, <2>1, FS_AddElement
  <2>3. QED
    BY <2>1, <2>2
<1>3. ASSUME place \notin Message, upc[t] \in Message
      PROVE  Cardinality(UsersSending) = Cardinality(UsersSending') + 1
             /\ Cardinality(UsersSending') \in Nat
  <2>1. UsersSending' = UsersSending \ {t} /\ t \in UsersSending
    BY <1>3 DEF UsersSending
  <2>2. IsFiniteSet(UsersSending \ {t}) /\ Cardinality(UsersSending \ {t}) = Cardinality(UsersSending) - 1
    BY <1>1, <2>1, FS_RemoveElement
  <2>3. Cardinality(UsersSending \ {t}) \in Nat
    BY <2>2, FS_CardinalityType
  <2>4. QED
    BY <1>1, <2>1, <2>2, <2>3
<1>4. ASSUME place \notin Message, upc[t] \notin Message
      PROVE  UsersSending' = UsersSending
  BY <1>4 DEF UsersSending
<1>5. QED
  BY <1>1, <1>2, <1>3, <1>4

-----------------------------------------------------------------------------
(* The FIN, whatever callbacks and users call.                             *)

(* The queues hold whole messages, and functors and callbacks are where the
   loop is; after it has stopped only ~TcpServer calls back. *)
FinTypes ==
    /\ ioQueue \in Seq(Whole) /\ batch \in Seq(Whole)
    /\ sent \in Seq(Bits) /\ downs \in Nat /\ finSent \in BOOLEAN
    /\ phase # "functors" => batch = <<>>
    /\ phase \in {"check", "poll"} => callback = "none"
    /\ phase = "stopped" /\ downs = 0 => ~InCallback

(* Before the fall an established connection is registered and reads. *)
OpenWhileUp ==
    downs = 0 => /\ state_ # "kDisconnected"
                 /\ state_ # "kConnecting" => index_ = "kAdded" /\ "read" \in events_

(* Every byte that send() accepted is on the wire, in outputBuffer_ or on its
   way to the loop. *)
Balance == Len(sent) = Len(wire) + Len(outputBuffer_) + 2 * SendsOnTheWay

(* So it is until a FIN, an RST, the fall or the end of the loop. *)
Flows == downs = 0 /\ rst = "none" /\ ~finSent /\ phase # "stopped"

FinInv == WatchInv /\ FinTypes /\ OpenWhileUp /\ (Flows => Balance)

(* What a step owes when it sends the FIN. *)
FinStep ==
    finSent' # finSent /\ downs = 0 =>
        outputBuffer_' = <<>> /\ (rst = "none" => Balance')

(* A step that sends no FIN owes nothing. *)
LEMMA NoFinStep == UNCHANGED finSent => FinStep
BY DEF FinStep

(* The numbers of bytes and calls are numbers. *)
LEMMA Numbers ==
    ASSUME FinInv
    PROVE  /\ Len(sent) \in Nat /\ Len(wire) \in Nat /\ Len(outputBuffer_) \in Nat
           /\ SendsIn(ioQueue) \in Nat /\ SendsIn(batch) \in Nat
           /\ Cardinality(UsersSending) \in Nat
           /\ SendsOnTheWay = SendsIn(ioQueue) + SendsIn(batch) + Cardinality(UsersSending)
           /\ SendsOnTheWay' = SendsIn(ioQueue') + SendsIn(batch') + Cardinality(UsersSending')
<1>1. Len(sent) \in Nat /\ Len(wire) \in Nat /\ Len(outputBuffer_) \in Nat
  BY LenProperties DEF FinInv, FinTypes, WatchInv, WatchTypes, SendTypes
<1>2. SendsIn(ioQueue) \in Nat /\ SendsIn(batch) \in Nat
  BY SendsInQueue DEF FinInv, FinTypes
<1>3. Cardinality(UsersSending) \in Nat
  <2>1. IsFiniteSet(User) /\ UsersSending \in SUBSET User
    BY TcpConnectionAssumption DEF TcpConnectionAssumption, UsersSending
  <2>2. IsFiniteSet(UsersSending)
    BY <2>1, FS_Subset
  <2>3. QED
    BY <2>2, FS_CardinalityType
<1>4. QED
  BY <1>1, <1>2, <1>3 DEF SendsOnTheWay, UsersSending

(* Nothing is accepted, written or lost: a step that at most moves functors. *)
LEMMA BytesUntouched ==
    ASSUME FinInv, FinTypes', OpenWhileUp', WatchInv',
           UNCHANGED <<outputBuffer_, wire, sent, finSent>>,
           rst' = "none" => rst = "none", downs' = 0 => downs = 0,
           phase' # "stopped" => phase # "stopped" /\ SendsOnTheWay' = SendsOnTheWay
    PROVE  FinInv' /\ FinStep
<1>1. Flows' => Balance'
  BY DEF FinInv, Flows, Balance
<1>2. QED
  BY <1>1 DEF FinInv, FinStep

(* A functor is queued that is no send. *)
LEMMA QueueingKeepsCount ==
    ASSUME FinInv, NEW op \in FunctorOps \ {"sendInLoop"},
           \/ ioQueue' = ioQueue
           \/ ioQueue' = Append(ioQueue, Functor(op))
    PROVE  ioQueue' \in Seq(Whole) /\ SendsIn(ioQueue') = SendsIn(ioQueue)
<1>1. ioQueue \in Seq(Whole) /\ SendsIn(ioQueue) \in Nat
  BY SendsInQueue DEF FinInv, FinTypes
<1>2. Functor(op) \in Whole /\ Sending(Functor(op)) = 0
  BY WholeAre
<1>3. CASE ioQueue' = Append(ioQueue, Functor(op))
  <2>1. /\ Append(ioQueue, Functor(op)) \in Seq(Whole)
        /\ SendsIn(Append(ioQueue, Functor(op))) = SendsIn(ioQueue) + Sending(Functor(op))
    BY <1>1, <1>2, SendsInQueue
  <2>2. QED
    BY <1>1, <1>2, <1>3, <2>1
<1>4. QED
  BY <1>1, <1>3

(* What sendInLoop() queues. *)
LEMMA SendQueues ==
    ASSUME FinInv, NEW data, SendInLoop(data)
    PROVE  ioQueue' \in Seq(Whole) /\ SendsIn(ioQueue') = SendsIn(ioQueue)
<1>1. \/ ioQueue' = ioQueue
      \/ ioQueue' = Append(ioQueue, Functor("writeComplete"))
      \/ ioQueue' = Append(ioQueue, Functor("highWaterMark"))
  BY DEF SendInLoop, WriteCompleteQueued
<1>2. {"writeComplete", "highWaterMark"} \subseteq FunctorOps \ {"sendInLoop"}
  BY DEF FunctorOps, Strong
<1>3. QED
  BY <1>1, <1>2, QueueingKeepsCount

(* A step that leaves the calls of the users alone. *)
LEMMA SameUsers ==
    ASSUME FinInv, UNCHANGED upc, SendsIn(ioQueue') + SendsIn(batch') = SendsIn(ioQueue) + SendsIn(batch)
    PROVE  SendsOnTheWay' = SendsOnTheWay
<1>1. UsersSending' = UsersSending
  BY DEF UsersSending
<1>2. QED
  BY <1>1, Numbers

(* Nothing has happened. *)
LEMMA InitFinInv == Init => FinInv
<1> SUFFICES ASSUME Init
             PROVE  FinInv
  OBVIOUS
<1>1. WatchInv
  BY InitWatchInv
<1>2. FinTypes /\ OpenWhileUp
  <2>1. ioQueue \in Seq(Whole) /\ batch \in Seq(Whole) /\ sent \in Seq(Bits)
    BY SendsInNone, EmptySeq DEF Init
  <2>2. QED
    BY <2>1 DEF Init, FinTypes, OpenWhileUp, InCallback
<1>3. Balance
  <2>1. UsersSending = {}
    BY TcpConnectionAssumption DEF Init, UsersSending, TcpConnectionAssumption
  <2>2. Cardinality(UsersSending) = 0
    BY <2>1, FS_EmptySet
  <2>3. SendsIn(ioQueue) = 0 /\ SendsIn(batch) = 0
    BY SendsInNone DEF Init
  <2>4. SendsOnTheWay = 0
    BY <2>2, <2>3 DEF SendsOnTheWay, UsersSending
  <2>5. sent = <<>> /\ wire = <<>> /\ outputBuffer_ = <<>> /\ Len(<<>>) = 0
    BY DEF Init
  <2>6. QED
    BY <2>4, <2>5 DEF Balance
<1>4. QED
  BY <1>1, <1>2, <1>3 DEF FinInv

(* The peer, the poller, quit(), and the loop between its handlers. *)
LEMMA LoopKeepsFin ==
    ASSUME FinInv, WatchInv',
           \/ PeerSends \/ PeerCloses \/ PeerResets \/ PollActive \/ PollOthers
           \/ CheckQuit \/ SwapFunctors \/ EndFunctors \/ QuitBaseLoop \/ QuitIoLoop
    PROVE  FinInv' /\ FinStep
<1>1. /\ FinTypes /\ OpenWhileUp /\ <<>> \in Seq(Whole) /\ SendsIn(<<>>) = 0
      /\ SendsIn(ioQueue) \in Nat /\ SendsIn(batch) \in Nat
  BY SendsInNone, Numbers DEF FinInv
<1>2. CASE PeerSends \/ PeerCloses \/ PeerResets
  <2>1. /\ UNCHANGED <<conn, chan, ioQueue, loop, callback, finSent, downs, upc>>
        /\ rst' = "none" => rst = "none"
    BY <1>2 DEF PeerSends, PeerCloses, PeerResets, users, told
  <2>2. FinTypes' /\ OpenWhileUp'
    BY <1>1, <2>1 DEF FinTypes, OpenWhileUp, InCallback, conn, chan, loop
  <2>3. SendsOnTheWay' = SendsOnTheWay
    BY <2>1, SameUsers DEF loop
  <2>4. QED
    BY <2>1, <2>2, <2>3, BytesUntouched DEF conn, loop
<1>3. CASE PollActive \/ PollOthers \/ EndFunctors \/ QuitBaseLoop \/ QuitIoLoop
  <2>1. /\ UNCHANGED <<conn, chan, ioQueue, batch, callback, finSent, rst, downs, upc>>
        /\ \/ phase' = phase
           \/ phase = "poll" /\ phase' = "events"
           \/ phase = "functors" /\ phase' = "check" /\ callback = "none" /\ batch = <<>>
    BY <1>3 DEF PollActive, PollOthers, Poll, EndFunctors, QuitBaseLoop, QuitIoLoop, rest, users,
       sock, told
  <2>2. FinTypes' /\ OpenWhileUp'
    BY <1>1, <2>1 DEF FinTypes, OpenWhileUp, InCallback, conn, chan
  <2>3. SendsOnTheWay' = SendsOnTheWay
    BY <2>1, SameUsers
  <2>4. QED
    BY <2>1, <2>2, <2>3, BytesUntouched DEF conn
<1>4. CASE CheckQuit
  <2>1. /\ UNCHANGED <<conn, chan, batch, callback, finSent, rst, downs, upc>>
        /\ phase = "check" /\ phase' \in {"stopped", "poll"}
        /\ ioQueue' \in {ioQueue, <<>>}
        /\ phase' = "poll" => UNCHANGED ioQueue
    BY <1>4 DEF CheckQuit, rest, users, sock, told
  <2>2. FinTypes' /\ OpenWhileUp'
    BY <1>1, <2>1 DEF FinTypes, OpenWhileUp, InCallback, conn, chan
  <2>3. phase' # "stopped" => SendsOnTheWay' = SendsOnTheWay
    BY <2>1, SameUsers
  <2>4. QED
    BY <2>1, <2>2, <2>3, BytesUntouched DEF conn
<1>5. CASE SwapFunctors
  <2>1. /\ UNCHANGED <<conn, chan, callback, finSent, rst, downs, upc>>
        /\ phase = "events" /\ phase' = "functors"
        /\ batch' = ioQueue /\ ioQueue' = <<>>
    BY <1>5 DEF SwapFunctors, rest, users, sock, told
  <2>2. FinTypes' /\ OpenWhileUp' /\ batch = <<>>
    BY <1>1, <2>1 DEF FinTypes, OpenWhileUp, InCallback, conn, chan
  <2>3. SendsIn(ioQueue') + SendsIn(batch') = SendsIn(ioQueue) + SendsIn(batch)
    BY <1>1, <2>1, <2>2
  <2>4. SendsOnTheWay' = SendsOnTheWay
    BY <2>1, <2>3, SameUsers
  <2>5. QED
    BY <2>1, <2>2, <2>4, BytesUntouched DEF conn
<1>6. QED
  BY <1>2, <1>3, <1>4, <1>5

(* handleClose(): from the fall on nothing is claimed. *)
LEMMA CloseKeepsFin ==
    ASSUME FinInv, WatchInv', HandleClose, UNCHANGED <<finSent, ioQueue, batch, phase>>,
           phase = "events"
    PROVE  FinInv' /\ FinStep
<1>1. downs' = downs + 1 /\ downs \in Nat /\ UNCHANGED sent
  BY DEF HandleClose, FinInv, FinTypes
<1>2. FinTypes' /\ OpenWhileUp' /\ ~Flows'
  BY <1>1 DEF FinInv, FinTypes, OpenWhileUp, Flows
<1>3. QED
  BY <1>2 DEF FinInv, FinStep

(* handleWrite() takes from outputBuffer_ what it writes, and sends the FIN that
   waited when nothing is left. *)
LEMMA WriteKeepsFin ==
    ASSUME FinInv, WatchInv', HandleWrite
    PROVE  FinInv' /\ FinStep
<1>1. /\ phase = "events" /\ FinTypes /\ OpenWhileUp
      /\ UNCHANGED <<batch, phase, callback, rst, downs, upc>>
  BY DEF HandleWrite, Due, users, told, FinInv
<1>2. CASE ~("write" \in events_ /\ ~Broken)
  <2>1. UNCHANGED <<conn, chan, ioQueue, finSent>>
    BY <1>2 DEF HandleWrite
  <2>2. FinTypes' /\ OpenWhileUp'
    BY <1>1, <2>1 DEF FinTypes, OpenWhileUp, InCallback, conn, chan
  <2>3. SendsOnTheWay' = SendsOnTheWay
    BY <1>1, <2>1, SameUsers
  <2>4. QED
    BY <1>1, <2>1, <2>2, <2>3, BytesUntouched DEF conn
<1>3. CASE "write" \in events_ /\ ~Broken
  <2>1. PICK n \in 1 .. Len(outputBuffer_) :
          /\ wire' = wire \o [i \in 1 .. n |-> Junk]
          /\ outputBuffer_' = SubSeq(outputBuffer_, n + 1, Len(outputBuffer_))
          /\ IF outputBuffer_' = <<>>
             THEN OutputDrained
             ELSE UNCHANGED <<chan, ioQueue, finSent>>
          /\ UNCHANGED <<state_, sent>>
    BY <1>3 DEF HandleWrite
  <2>2. outputBuffer_ \in Seq(Bits) /\ wire \in Seq(Bits)
    BY DEF FinInv, WatchInv, WatchTypes, SendTypes
  <2>3. Len(wire') + Len(outputBuffer_') = Len(wire) + Len(outputBuffer_)
    <3> DEFINE junk == [i \in 1 .. n |-> Junk]
    <3>1. /\ Len(outputBuffer_') = Len(outputBuffer_) - n /\ n \in Nat
          /\ junk \in Seq(Bits) /\ Len(junk) = n
      BY <2>1, <2>2, DropSome
    <3>2. wire' = wire \o junk
      BY <2>1
    <3> HIDE DEF junk
    <3>3. Len(wire') = Len(wire) + Len(junk)
      BY <2>2, <3>1, <3>2, Together
    <3>4. Len(wire) \in Nat /\ Len(outputBuffer_) \in Nat
      BY Numbers
    <3>5. QED
      BY <3>1, <3>3, <3>4
  <2>4. ioQueue' \in Seq(Whole) /\ SendsIn(ioQueue') = SendsIn(ioQueue)
    <3>1. ioQueue' = ioQueue \/ ioQueue' = Append(ioQueue, Functor("writeComplete"))
      BY <2>1 DEF OutputDrained, WriteCompleteQueued
    <3>2. "writeComplete" \in FunctorOps \ {"sendInLoop"}
      BY DEF FunctorOps, Strong
    <3>3. QED
      BY <3>1, <3>2, QueueingKeepsCount
  <2>5. /\ events_' \in {events_, events_ \ {"write"}}
        /\ index_ = "kAdded" /\ "read" \in events_ => index_' = "kAdded"
        /\ finSent' \in BOOLEAN
        /\ finSent' # finSent => outputBuffer_' = <<>>
    <3>1. CASE outputBuffer_' = <<>>
      <4>1. /\ events_' = events_ \ {"write"}
            /\ index_' = IF index_ = "kAdded" /\ events_' = {} THEN "kDeleted" ELSE "kAdded"
            /\ finSent' = (finSent \/ state_ = "kDisconnecting")
        BY <2>1, <3>1 DEF OutputDrained, UpdateChannel
      <4>2. "read" \in events_ => events_' # {}
        BY <4>1
      <4>3. finSent' \in BOOLEAN
        BY <1>1, <4>1 DEF FinTypes
      <4>4. QED
        BY <3>1, <4>1, <4>2, <4>3
    <3>2. CASE outputBuffer_' # <<>>
      BY <1>1, <2>1, <3>2 DEF chan, FinTypes
    <3>3. QED
      BY <3>1, <3>2
  <2>6. FinTypes'
    BY <1>1, <2>1, <2>4, <2>5 DEF FinTypes, InCallback
  <2>7. OpenWhileUp'
    BY <1>1, <2>1, <2>5 DEF OpenWhileUp
  <2>8. SendsOnTheWay' = SendsOnTheWay
    BY <1>1, <2>4, SameUsers
  <2>9. Balance => Balance'
    BY <2>1, <2>3, <2>8 DEF Balance
  <2>10. Flows' => Flows
    BY <1>1, <1>3 DEF Flows, Broken
  <2>11. finSent' # finSent /\ downs = 0 /\ rst = "none" => Flows
    BY <1>1, <1>3 DEF Flows, Broken
  <2>12. FinStep
    BY <2>5, <2>9, <2>11 DEF FinStep, FinInv
  <2>13. QED
    BY <2>6, <2>7, <2>9, <2>10, <2>12 DEF FinInv
<1>4. QED
  BY <1>2, <1>3

(* Channel::handleEventWithGuard() and its handlers. *)
LEMMA HandlersKeepFin ==
    ASSUME FinInv, WatchInv', HandleHup \/ HandleError \/ HandleRead \/ HandleWrite
    PROVE  FinInv' /\ FinStep
<1>1. FinTypes /\ OpenWhileUp
  BY DEF FinInv
<1>2. ASSUME UNCHANGED <<conn, chan, ioQueue, batch, phase, finSent, downs, upc>>,
             rst' = "none" => rst = "none", phase = "events"
      PROVE  FinInv' /\ FinStep
  <2>1. FinTypes' /\ OpenWhileUp'
    BY <1>1, <1>2 DEF FinTypes, OpenWhileUp, conn, chan
  <2>2. SendsOnTheWay' = SendsOnTheWay
    BY <1>2, SameUsers
  <2>3. QED
    BY <1>2, <2>1, <2>2, BytesUntouched DEF conn
<1>3. CASE HandleHup
  <2>1. UNCHANGED <<finSent, rst, ioQueue, batch, phase, upc>> /\ phase = "events"
    BY <1>3 DEF HandleHup, Due, users, sock
  <2>2. HandleClose \/ UNCHANGED <<conn, chan, downs>>
    BY <1>3 DEF HandleHup, told
  <2>3. QED
    BY <1>2, <2>1, <2>2, CloseKeepsFin
<1>4. CASE HandleError
  BY <1>2, <1>4 DEF HandleError, Due, users, told
<1>5. CASE HandleRead
  <2>1. UNCHANGED <<finSent, ioQueue, batch, phase, upc>> /\ phase = "events"
        /\ (rst' = "none" => rst = "none")
    BY <1>5 DEF HandleRead, Due, users
  <2>2. HandleClose \/ UNCHANGED <<conn, chan, downs>>
    BY <1>5 DEF HandleRead, told
  <2>3. QED
    BY <1>2, <2>1, <2>2, CloseKeepsFin
<1>6. QED
  BY <1>3, <1>4, <1>5, WriteKeepsFin

(* There is a number of bytes after a step, too. *)
LEMMA BytesAfter ==
    ASSUME WatchInv'
    PROVE  Len(wire') \in Nat /\ Len(outputBuffer_') \in Nat
BY LenProperties DEF WatchInv, WatchTypes, SendTypes

(* What is not watched for writability has nothing left to write. *)
LEMMA FinIsBehind ==
    ASSUME FinInv, downs = 0, "write" \notin events_
    PROVE  outputBuffer_ = <<>>
<1>1. CASE state_ = "kConnecting"
  BY <1>1 DEF FinInv, WatchInv, UntouchedBefore
<1>2. CASE state_ # "kConnecting"
  <2>1. index_ = "kAdded"
    BY <1>2 DEF FinInv, OpenWhileUp
  <2>2. QED
    BY <2>1 DEF FinInv, WatchInv, Registered, WritingIffOutput
<1>3. QED
  BY <1>1, <1>2

(* connectEstablished(), as a functor or in newConnection(). *)
LEMMA EstablishedKeepsFin ==
    ASSUME FinInv, WatchInv', state_ = "kConnecting", ConnectEstablished,
           UNCHANGED <<ioQueue, phase>>, phase \in {"events", "functors"},
           batch' \in Seq(Whole), phase = "events" => batch' = <<>>, SendsIn(batch') = SendsIn(batch)
    PROVE  FinInv' /\ FinStep
<1>1. /\ FinTypes /\ OpenWhileUp /\ index_ = "kNew"
  BY DEF FinInv, WatchInv, UntouchedBefore
<1>2. /\ state_' = "kConnected" /\ "read" \in events_' /\ index_' = "kAdded"
      /\ UNCHANGED <<outputBuffer_, wire, sent, downs, upc, finSent, rst>>
  BY <1>1 DEF ConnectEstablished, UpdateChannel, sock
<1>3. FinTypes' /\ OpenWhileUp'
  BY <1>1, <1>2 DEF FinTypes, OpenWhileUp
<1>4. SendsOnTheWay' = SendsOnTheWay
  BY <1>2, SameUsers
<1>5. QED
  BY <1>2, <1>3, <1>4, BytesUntouched

(* connectDestroyed() ends what is claimed or changes nothing. *)
LEMMA DestroyedKeepsFin ==
    ASSUME FinInv, WatchInv', ConnectDestroyed, UNCHANGED <<ioQueue, phase>>,
           phase \in {"functors", "stopped"},
           batch' \in Seq(Whole), phase = "stopped" => batch' = batch,
           SendsIn(batch') = SendsIn(batch)
    PROVE  FinInv' /\ FinStep
<1>1. FinTypes /\ OpenWhileUp
  BY DEF FinInv
<1>2. UNCHANGED <<outputBuffer_, wire, sent, upc, finSent, rst>>
  BY DEF ConnectDestroyed, users, sock
<1>3. SendsOnTheWay' = SendsOnTheWay
  BY <1>2, SameUsers
<1>4. CASE state_ = "kConnected"
  <2>1. downs' = downs + 1 /\ downs \in Nat
    BY <1>1, <1>4 DEF ConnectDestroyed, FinTypes
  <2>2. FinTypes' /\ OpenWhileUp'
    BY <1>1, <1>2, <2>1 DEF FinTypes, OpenWhileUp
  <2>3. QED
    BY <1>1, <1>2, <1>3, <2>1, <2>2, BytesUntouched DEF FinTypes
<1>5. CASE state_ # "kConnected"
  <2>1. callback' = "remove" /\ UNCHANGED <<state_, events_, index_, downs>>
    BY <1>5 DEF ConnectDestroyed, chan
  <2>2. FinTypes' /\ OpenWhileUp'
    BY <1>1, <1>2, <2>1 DEF FinTypes, OpenWhileUp, InCallback
  <2>3. QED
    BY <1>2, <1>3, <2>1, <2>2, BytesUntouched
<1>6. QED
  BY <1>4, <1>5

(* sendInLoop() has somewhere to put every byte while nothing is closed. *)
LEMMA SendKeepsBytes ==
    ASSUME FinInv, NEW data \in Seq(Bits), SendInLoop(data)
    PROVE  /\ Flows => Len(wire') + Len(outputBuffer_') = Len(wire) + Len(outputBuffer_) + Len(data)
           /\ index_ = "kAdded" /\ "read" \in events_ => index_' = "kAdded" /\ "read" \in events_'
           /\ index_ # "kAdded" => "read" \notin events_
<1>1. SendTypes /\ Registered
  BY DEF FinInv, WatchInv, WatchTypes
<1>2. Flows => state_ # "kDisconnected" /\ ~Broken
  BY DEF FinInv, OpenWhileUp, Flows, Broken
<1>3. index_ = "kAdded" => (("write" \in events_) <=> (outputBuffer_ # <<>>))
  BY <1>1 DEF Registered, WritingIffOutput
<1>4. index_ # "kAdded" => events_ = {}
  BY <1>1 DEF Registered
<1>5. QED
  BY <1>1, <1>2, <1>3, <1>4, SendMakes

(* A functor is run. *)
LEMMA FunctorKeepsFin ==
    ASSUME FinInv, WatchInv', RunFunctor
    PROVE  FinInv' /\ FinStep
<1>1. /\ phase = "functors" /\ callback = "none" /\ batch # <<>> /\ batch' = Tail(batch)
      /\ UNCHANGED phase /\ FinTypes /\ OpenWhileUp
  BY DEF RunFunctor, FinInv
<1>2. /\ Head(batch) \in Whole /\ batch' \in Seq(Whole)
      /\ SendsIn(batch) = SendsIn(batch') + Sending(Head(batch))
      /\ SendsIn(batch') \in Nat
  BY <1>1, SendsInQueue DEF FinTypes
<1>3. Head(batch).op # "sendInLoop" => SendsIn(batch') = SendsIn(batch)
  BY <1>2 DEF Sending
<1>4. CASE Head(batch).op = "connectEstablished" /\ ConnectEstablished /\ UNCHANGED ioQueue
  <2>1. Head(batch) \in Functors /\ Head(batch).op \in Ops(batch)
    <3>1. batch \in Seq(Functors)
      BY DEF FinInv, WatchInv, WatchTypes
    <3>2. QED
      BY <1>1, <3>1, OpsTail
  <2>2. state_ = "kConnecting"
    BY <1>4, <2>1 DEF FinInv, WatchInv, EstablishedOnce, Queued
  <2>3. QED
    BY <1>1, <1>2, <1>3, <1>4, <2>2, EstablishedKeepsFin
<1>5. CASE Head(batch).op = "connectDestroyed" /\ ConnectDestroyed /\ UNCHANGED ioQueue
  BY <1>1, <1>2, <1>3, <1>5, DestroyedKeepsFin
<1>6. CASE /\ Head(batch).op = "sendInLoop" /\ SendInLoop(Head(batch).data)
           /\ UNCHANGED <<state_, sent, callback, users, sock, told>>
  <2>1. /\ Head(batch).data \in Seq(Bits) /\ Len(Head(batch).data) = 2
        /\ Sending(Head(batch)) = 1
    <3>1. Head(batch).data \in Seq(Message)
      BY <1>2 DEF Whole, Functors
    <3>2. QED
      BY <1>2, <1>6, <3>1 DEF Whole, Sending, Bits
  <2>2. /\ Flows => Len(wire') + Len(outputBuffer_') = Len(wire) + Len(outputBuffer_) + 2
        /\ index_ = "kAdded" /\ "read" \in events_ => index_' = "kAdded" /\ "read" \in events_'
    <3>1. PICK data \in Seq(Bits) : data = Head(batch).data /\ Len(data) = 2
      BY <2>1
    <3>2. SendInLoop(data)
      BY <1>6, <3>1
    <3>3. Flows => Len(wire') + Len(outputBuffer_')
                      = Len(wire) + Len(outputBuffer_) + Len(data)
      BY <3>2, SendKeepsBytes
    <3>4. index_ = "kAdded" /\ "read" \in events_ => index_' = "kAdded" /\ "read" \in events_'
      BY <3>2, SendKeepsBytes
    <3>5. QED
      BY <3>1, <3>3, <3>4
  <2>3. ioQueue' \in Seq(Whole) /\ SendsIn(ioQueue') = SendsIn(ioQueue)
    BY <1>6, SendQueues
  <2>4. UNCHANGED <<state_, sent, callback, upc, finSent, rst, downs>>
    BY <1>6 DEF users, sock, told
  <2>5. FinTypes' /\ OpenWhileUp'
    BY <1>1, <1>2, <2>2, <2>3, <2>4 DEF FinTypes, OpenWhileUp, InCallback
  <2>6. SendsOnTheWay = SendsOnTheWay' + 1
    <3>1. UsersSending' = UsersSending
      BY <2>4 DEF UsersSending
    <3>2. QED
      BY <1>2, <2>1, <2>3, <3>1, Numbers
  <2>7. Flows' => Balance'
    <3>1. Flows' => Flows
      BY <1>1, <2>4 DEF Flows
    <3>2. SendsOnTheWay' \in Nat
      BY <1>2, <2>3, <2>4, Numbers DEF UsersSending
    <3>3. /\ Len(sent) \in Nat /\ Len(wire) \in Nat /\ Len(outputBuffer_) \in Nat
          /\ Len(wire') \in Nat /\ Len(outputBuffer_') \in Nat
      BY Numbers, BytesAfter
    <3>4. QED
      BY <2>2, <2>4, <2>6, <3>1, <3>2, <3>3 DEF FinInv, Balance
  <2>8. QED
    BY <2>4, <2>5, <2>7, NoFinStep DEF FinInv
<1>7. CASE /\ Head(batch).op = "shutdownInLoop" /\ ShutdownInLoop
           /\ UNCHANGED <<inData, peerFin, rst, conn, chan, ioQueue, callback, users, told>>
  <2>1. /\ UNCHANGED <<conn, chan, callback, upc, rst, downs>>
        /\ finSent' \in BOOLEAN
        /\ finSent' # finSent => "write" \notin events_ /\ ~finSent
        /\ finSent => finSent'
    BY <1>1, <1>7 DEF ShutdownInLoop, users, told, FinTypes
  <2>2. FinTypes' /\ OpenWhileUp'
    BY <1>1, <1>2, <1>7, <2>1 DEF FinTypes, OpenWhileUp, InCallback, conn, chan
  <2>3. SendsOnTheWay' = SendsOnTheWay
    BY <1>3, <1>7, <2>1, SameUsers
  <2>4. (Balance => Balance') /\ (Flows' => Flows)
    BY <1>1, <2>1, <2>3 DEF Balance, Flows, conn
  <2>5. FinStep
    BY <1>1, <2>1, <2>4, FinIsBehind DEF FinStep, FinInv, Flows, conn
  <2>6. QED
    BY <2>2, <2>4, <2>5 DEF FinInv
<1>8. CASE /\ Head(batch).op \in {"writeComplete", "highWaterMark"} /\ callback' = "note"
           /\ UNCHANGED <<conn, chan, ioQueue, users, sock, told>>
  <2>1. UNCHANGED <<conn, chan, ioQueue, upc, finSent, rst, downs>>
    BY <1>8 DEF users, sock, told
  <2>2. FinTypes' /\ OpenWhileUp'
    BY <1>1, <1>2, <2>1 DEF FinTypes, OpenWhileUp, conn, chan
  <2>3. SendsOnTheWay' = SendsOnTheWay
    BY <1>3, <1>8, <2>1, SameUsers
  <2>4. QED
    BY <1>1, <2>1, <2>2, <2>3, BytesUntouched DEF conn
<1>9. QED
  BY <1>4, <1>5, <1>6, <1>7, <1>8 DEF RunFunctor

(* What user callbacks do, and what follows a callback. *)
LEMMA CallbacksKeepFin ==
    ASSUME FinInv, WatchInv',
           \/ \E m \in Message, c \in {"send", "sendBuffer"} : CallbackSends(m, c)
           \/ CallbackShutsDown \/ CallbackReturns \/ RemoveChannel
    PROVE  FinInv' /\ FinStep
<1>1. FinTypes /\ OpenWhileUp
  BY DEF FinInv
<1>2. ASSUME NEW m \in Message, NEW c \in {"send", "sendBuffer"}, CallbackSends(m, c)
      PROVE  FinInv' /\ FinStep
  <2>1. PICK data \in Seq(Bits) : SendInLoop(data) /\ Len(data) = 2
    <3>1. m \in Bits /\ Junk \in Bits
      BY DEF Bits
    <3>2. QED
      BY <1>2, <3>1, MessageLength DEF CallbackSends
  <2>2. PICK bytes \in Seq(Bits) : sent' = sent \o bytes /\ Len(bytes) = 2
    BY <1>2, MessageLength DEF CallbackSends, Bits
  <2>3. UNCHANGED <<state_, phase, batch, callback, upc, finSent, rst, downs>>
    BY <1>2 DEF CallbackSends, loop, rest, users, sock, told
  <2>4. Flows => Len(wire') + Len(outputBuffer_') = Len(wire) + Len(outputBuffer_) + Len(data)
    BY <2>1, SendKeepsBytes
  <2>5. index_ = "kAdded" /\ "read" \in events_ => index_' = "kAdded" /\ "read" \in events_'
    BY <2>1, SendKeepsBytes
  <2>6. ioQueue' \in Seq(Whole) /\ SendsIn(ioQueue') = SendsIn(ioQueue)
    BY <2>1, SendQueues
  <2>7. sent' \in Seq(Bits) /\ Len(sent') = Len(sent) + 2
    <3>1. sent \in Seq(Bits)
      BY <1>1 DEF FinTypes
    <3>2. sent \o bytes \in Seq(Bits) /\ Len(sent \o bytes) = Len(sent) + Len(bytes)
      BY <3>1, Together
    <3>3. QED
      BY <2>2, <3>2
  <2>8. FinTypes' /\ OpenWhileUp'
    BY <1>1, <2>3, <2>5, <2>6, <2>7 DEF FinTypes, OpenWhileUp, InCallback
  <2>9. SendsOnTheWay' = SendsOnTheWay
    BY <2>3, <2>6, SameUsers
  <2>10. Flows' => Balance'
    <3>1. Flows' => Flows
      BY <2>3 DEF Flows
    <3>2. /\ Len(sent) \in Nat /\ Len(wire) \in Nat /\ Len(outputBuffer_) \in Nat
          /\ Len(wire') \in Nat /\ Len(outputBuffer_') \in Nat /\ SendsOnTheWay \in Nat
      BY Numbers, BytesAfter
    <3>3. QED
      BY <2>1, <2>4, <2>7, <2>9, <3>1, <3>2 DEF FinInv, Balance
  <2>11. QED
    BY <2>3, <2>8, <2>10, NoFinStep DEF FinInv
<1>3. CASE CallbackShutsDown
  <2>1. /\ UNCHANGED <<outputBuffer_, wire, sent, chan, ioQueue, batch, phase, callback>>
        /\ UNCHANGED <<upc, rst, downs>>
        /\ state_ = "kConnected" /\ state_' = "kDisconnecting" /\ InCallback
        /\ finSent' \in BOOLEAN
        /\ finSent' # finSent => "write" \notin events_ /\ ~finSent
        /\ finSent => finSent'
    BY <1>1, <1>3 DEF CallbackShutsDown, MayShutDown, ShutdownInLoop, loop, users, told, FinTypes
  <2>2. FinTypes' /\ OpenWhileUp'
    BY <1>1, <2>1 DEF FinTypes, OpenWhileUp, InCallback, chan
  <2>3. SendsOnTheWay' = SendsOnTheWay
    BY <2>1, SameUsers
  <2>4. (Balance => Balance') /\ (Flows' => Flows)
    BY <2>1, <2>3 DEF Balance, Flows
  <2>5. downs = 0 => phase # "stopped"
    BY <1>1, <2>1 DEF FinTypes
  <2>6. FinStep
    BY <2>1, <2>4, <2>5, FinIsBehind DEF FinStep, FinInv, Flows
  <2>7. QED
    BY <2>2, <2>4, <2>6 DEF FinInv
<1>4. CASE CallbackReturns
  <2>1. /\ UNCHANGED <<conn, chan, batch, phase, finSent, rst, downs, upc>>
        /\ callback # "none" /\ callback' \in {"none", "remove"}
        /\ ioQueue' \in {ioQueue, Append(ioQueue, Functor("connectDestroyed"))}
    BY <1>4 DEF CallbackReturns, InCallback, RemoveConnectionInLoop, loop, users, sock, told
  <2>2. "connectDestroyed" \in FunctorOps \ {"sendInLoop"}
    BY DEF FunctorOps, Strong
  <2>3. ioQueue' \in Seq(Whole) /\ SendsIn(ioQueue') = SendsIn(ioQueue)
    BY <2>1, <2>2, QueueingKeepsCount
  <2>4. FinTypes' /\ OpenWhileUp'
    BY <1>1, <2>1, <2>3 DEF FinTypes, OpenWhileUp, InCallback, conn, chan
  <2>5. SendsOnTheWay' = SendsOnTheWay
    BY <2>1, <2>3, SameUsers
  <2>6. QED
    BY <2>1, <2>4, <2>5, BytesUntouched DEF conn
<1>5. CASE RemoveChannel
  <2>1. /\ UNCHANGED <<conn, ioQueue, batch, phase, finSent, rst, downs, upc>>
        /\ events_ = {} /\ callback' = "none" /\ UNCHANGED events_
    BY <1>5 DEF RemoveChannel, loop, rest, users, sock, told
  <2>2. FinTypes' /\ OpenWhileUp'
    BY <1>1, <2>1 DEF FinTypes, OpenWhileUp, InCallback, conn
  <2>3. SendsOnTheWay' = SendsOnTheWay
    BY <2>1, SameUsers
  <2>4. QED
    BY <2>1, <2>2, <2>3, BytesUntouched DEF conn
<1>6. QED
  BY <1>2, <1>3, <1>4, <1>5

(* TcpServer. *)
LEMMA ServerKeepsFin ==
    ASSUME FinInv, WatchInv', NewConnection \/ BaseRunsFunctor \/ DestroyServer \/ DestroyBaseLoop
    PROVE  FinInv' /\ FinStep
<1>1. FinTypes /\ OpenWhileUp
  BY DEF FinInv
<1>2. ASSUME NEW op \in {"connectEstablished", "connectDestroyed"},
             ioQueue' \in {ioQueue, Append(ioQueue, Functor(op))},
             UNCHANGED <<conn, chan, loop, callback, users, sock, told>>
      PROVE  FinInv' /\ FinStep
  <2>1. op \in FunctorOps \ {"sendInLoop"}
    BY DEF FunctorOps, Strong
  <2>2. ioQueue' \in Seq(Whole) /\ SendsIn(ioQueue') = SendsIn(ioQueue)
    BY <1>2, <2>1, QueueingKeepsCount
  <2>3. FinTypes' /\ OpenWhileUp'
    BY <1>1, <1>2, <2>2 DEF FinTypes, OpenWhileUp, InCallback, conn, chan, loop, sock, told
  <2>4. SendsOnTheWay' = SendsOnTheWay
    BY <1>2, <2>2, SameUsers DEF loop, users
  <2>5. QED
    BY <1>2, <2>3, <2>4, BytesUntouched DEF conn, loop, sock, told
<1>3. CASE NewConnection
  <2>1. UNCHANGED <<batch, phase>> /\ (baseIsIo => phase = "events")
    BY <1>3 DEF NewConnection, loop
  <2>2. CASE baseIsIo
    <3>1. ConnectEstablished /\ UNCHANGED ioQueue /\ ~created
      BY <1>3, <2>2 DEF NewConnection
    <3>2. state_ = "kConnecting"
      BY <3>1 DEF FinInv, WatchInv, EstablishedOnce
    <3>3. batch \in Seq(Whole) /\ batch = <<>>
      BY <1>1, <2>1, <2>2 DEF FinTypes
    <3>4. QED
      BY <2>1, <2>2, <3>1, <3>2, <3>3, EstablishedKeepsFin
  <2>3. CASE ~baseIsIo
    BY <1>2, <1>3, <2>3 DEF NewConnection
  <2>4. QED
    BY <2>2, <2>3
<1>4. CASE BaseRunsFunctor
  BY <1>2, <1>4 DEF BaseRunsFunctor, RemoveConnectionInLoop
<1>5. CASE DestroyServer
  <2>1. UNCHANGED loop /\ (baseIsIo => phase = "stopped")
    BY <1>5 DEF DestroyServer
  <2>2. CASE connections_ /\ baseIsIo
    <3>1. ConnectDestroyed /\ UNCHANGED ioQueue
      BY <1>5, <2>2 DEF DestroyServer
    <3>2. batch \in Seq(Whole)
      BY <1>1 DEF FinTypes
    <3>3. QED
      BY <2>1, <2>2, <3>1, <3>2, DestroyedKeepsFin DEF loop
  <2>3. CASE ~(connections_ /\ baseIsIo)
    BY <1>2, <1>5, <2>1, <2>3 DEF DestroyServer
  <2>4. QED
    BY <2>2, <2>3
<1>6. CASE DestroyBaseLoop
  <2>1. /\ UNCHANGED <<conn, chan, batch, phase, callback, finSent, rst, downs>>
        /\ phase = "stopped" /\ ioQueue' = <<>>
    BY <1>6 DEF DestroyBaseLoop, loop, sock, told
  <2>2. FinTypes' /\ OpenWhileUp'
    BY <1>1, <2>1, SendsInNone DEF FinTypes, OpenWhileUp, InCallback, conn, chan
  <2>3. QED
    BY <2>1, <2>2, BytesUntouched DEF conn
<1>7. QED
  BY <1>3, <1>4, <1>5, <1>6

(* Other threads. *)
LEMMA UsersKeepFin ==
    ASSUME FinInv, WatchInv', NEW t \in User,
           \/ \E m \in Message : UserSends(t, m)
           \/ UserShutsDown(t) \/ UserFinishes(t) \/ UserReleasesConn(t)
    PROVE  FinInv' /\ FinStep
<1>1. /\ FinTypes /\ OpenWhileUp
      /\ upc \in [User -> Message \cup {"idle", "shutdown", "queue"}]
      /\ "idle" \notin Message /\ "shutdown" \notin Message /\ "queue" \notin Message
  BY TcpConnectionAssumption DEF FinInv, WatchInv, WatchTypes, TcpConnectionAssumption
<1>2. ASSUME NEW m \in Message, UserSends(t, m)
      PROVE  FinInv' /\ FinStep
  <2>1. /\ upc[t] = "idle" /\ upc' = [upc EXCEPT ![t] = m] /\ sent' = sent \o Bytes(m)
        /\ UNCHANGED <<state_, outputBuffer_, wire, chan, ioQueue, batch, phase, callback>>
        /\ UNCHANGED <<finSent, rst, downs>>
    BY <1>2 DEF UserSends, UserMayCall, loop, sock, told
  <2>2. sent' \in Seq(Bits) /\ Len(sent') = Len(sent) + 2
    <3>1. PICK bytes \in Seq(Bits) : bytes = Bytes(m) /\ Len(bytes) = 2
      BY MessageLength DEF Bits
    <3>2. sent \in Seq(Bits)
      BY <1>1 DEF FinTypes
    <3>3. sent \o bytes \in Seq(Bits) /\ Len(sent \o bytes) = Len(sent) + Len(bytes)
      BY <3>1, <3>2, Together
    <3>4. QED
      BY <2>1, <3>1, <3>3
  <2>3. FinTypes' /\ OpenWhileUp'
    BY <1>1, <2>1, <2>2 DEF FinTypes, OpenWhileUp, InCallback, chan
  <2>4. SendsOnTheWay' = SendsOnTheWay + 1 /\ SendsOnTheWay \in Nat
    <3>1. Cardinality(UsersSending') = Cardinality(UsersSending) + 1
      BY <1>1, <2>1, UsersSendingCount
    <3>2. QED
      BY <2>1, <3>1, Numbers
  <2>5. Flows' => Balance'
    <3>1. Flows' => Flows
      BY <2>1 DEF Flows
    <3>2. Len(sent) \in Nat /\ Len(wire) \in Nat /\ Len(outputBuffer_) \in Nat
      BY Numbers
    <3>3. Flows => Len(sent) = Len(wire) + Len(outputBuffer_) + 2 * SendsOnTheWay
      BY DEF FinInv, Balance
    <3>4. Flows => Len(sent') = Len(wire') + Len(outputBuffer_') + 2 * SendsOnTheWay'
      BY <2>1, <2>2, <2>4, <3>2, <3>3
    <3>5. QED
      BY <3>1, <3>4 DEF Balance
  <2>6. QED
    BY <2>1, <2>3, <2>5, NoFinStep DEF FinInv
<1>3. CASE UserShutsDown(t) \/ UserSetsState(t)
  <2>1. PICK place \in {"shutdown", "queue"} :
        /\ upc' = [upc EXCEPT ![t] = place] /\ upc[t] \notin Message
        /\ UNCHANGED <<outputBuffer_, wire, sent, chan, ioQueue, batch, phase, callback>>
        /\ UNCHANGED <<finSent, rst, downs>>
        /\ \/ UNCHANGED state_
           \/ state_' = "kDisconnecting" /\ upc[t] # "idle"
    BY <1>1, <1>3
    DEF UserShutsDown, UserSetsState, UserMayCall, conn, loop, sock, told
  <2>2. upc[t] # "idle" => state_ # "kConnecting"
    BY DEF FinInv, WatchInv, UntouchedBefore
  <2>3. FinTypes' /\ OpenWhileUp'
    BY <1>1, <2>1, <2>2 DEF FinTypes, OpenWhileUp, InCallback, chan
  <2>4. SendsOnTheWay' = SendsOnTheWay
    <3>1. UsersSending' = UsersSending
      BY <1>1, <2>1, UsersSendingCount
    <3>2. QED
      BY <2>1, <3>1, Numbers
  <2>5. QED
    BY <2>1, <2>3, <2>4, BytesUntouched
<1>4. CASE UserQueuesSend(t) \/ UserQueuesShutdown(t)
  <2>1. PICK f \in Whole :
          /\ ioQueue' = Append(ioQueue, f) /\ upc' = [upc EXCEPT ![t] = "idle"]
          /\ \/ Sending(f) = 1 /\ upc[t] \in Message
             \/ Sending(f) = 0 /\ upc[t] \notin Message
    <3>1. CASE UserQueuesSend(t)
      BY <3>1, WholeAre DEF UserQueuesSend
    <3>2. CASE UserQueuesShutdown(t)
      <4>1. "shutdownInLoop" \in FunctorOps \ {"sendInLoop"}
        BY DEF FunctorOps, Strong
      <4>2. QED
        BY <1>1, <3>2, <4>1, WholeAre DEF UserQueuesShutdown
    <3>3. QED
      BY <1>4, <3>1, <3>2
  <2>2. UNCHANGED <<conn, chan, batch, phase, callback, finSent, rst, downs>>
    BY <1>4 DEF UserQueuesSend, UserQueuesShutdown, loop, sock, told
  <2>3. ioQueue' \in Seq(Whole) /\ SendsIn(ioQueue') = SendsIn(ioQueue) + Sending(f)
    BY <1>1, <2>1, SendsInQueue DEF FinTypes
  <2>4. FinTypes' /\ OpenWhileUp'
    BY <1>1, <2>2, <2>3 DEF FinTypes, OpenWhileUp, InCallback, conn, chan
  <2>5. SendsOnTheWay' = SendsOnTheWay
    <3>1. CASE Sending(f) = 1 /\ upc[t] \in Message
      <4>1. Cardinality(UsersSending) = Cardinality(UsersSending') + 1
            /\ Cardinality(UsersSending') \in Nat
        BY <1>1, <2>1, <3>1, UsersSendingCount
      <4>2. QED
        BY <2>2, <2>3, <3>1, <4>1, Numbers
    <3>2. CASE Sending(f) = 0 /\ upc[t] \notin Message
      <4>1. UsersSending' = UsersSending
        BY <1>1, <2>1, <3>2, UsersSendingCount
      <4>2. QED
        BY <2>2, <2>3, <3>2, <4>1, Numbers
    <3>3. QED
      BY <2>1, <3>1, <3>2
  <2>6. QED
    BY <2>2, <2>4, <2>5, BytesUntouched DEF conn
<1>5. CASE UserReleasesConn(t)
  <2>1. UNCHANGED <<conn, chan, ioQueue, batch, phase, callback, finSent, rst, downs, upc>>
    BY <1>5 DEF UserReleasesConn, loop, sock, told
  <2>2. FinTypes' /\ OpenWhileUp'
    BY <1>1, <2>1 DEF FinTypes, OpenWhileUp, InCallback, conn, chan
  <2>3. SendsOnTheWay' = SendsOnTheWay
    BY <2>1, SameUsers
  <2>4. QED
    BY <2>1, <2>2, <2>3, BytesUntouched DEF conn
<1>6. QED
  BY <1>2, <1>3, <1>4, <1>5 DEF UserFinishes

(* No byte is lost before the FIN, and no step sends it too early. *)
LEMMA StepFinInv ==
    ASSUME FinInv, [Next]_vars
    PROVE  FinInv' /\ FinStep
<1>1. WatchInv'
  BY StepWatchInv DEF FinInv
<1>2. CASE UNCHANGED vars
  <2>1. /\ UNCHANGED <<conn, chan, ioQueue, batch, phase, callback, finSent, rst, downs, upc>>
    BY <1>2 DEF vars, loop, users, sock, told
  <2>2. FinTypes' /\ OpenWhileUp'
    BY <2>1 DEF FinInv, FinTypes, OpenWhileUp, InCallback, conn, chan
  <2>3. SendsOnTheWay' = SendsOnTheWay
    BY <2>1, SameUsers
  <2>4. QED
    BY <1>1, <2>1, <2>2, <2>3, BytesUntouched DEF conn
<1>3. CASE \/ PeerSends \/ PeerCloses \/ PeerResets \/ PollActive \/ PollOthers
           \/ QuitBaseLoop \/ QuitIoLoop
  BY <1>1, <1>3, LoopKeepsFin
<1>4. CASE IoStep
  BY <1>1, <1>4, LoopKeepsFin, HandlersKeepFin, FunctorKeepsFin, CallbacksKeepFin DEF IoStep
<1>5. CASE \/ \E m \in Message, c \in {"send", "sendBuffer"} : CallbackSends(m, c)
           \/ CallbackShutsDown
  BY <1>1, <1>5, CallbacksKeepFin
<1>6. CASE NewConnection \/ BaseRunsFunctor \/ DestroyServer \/ DestroyBaseLoop
  BY <1>1, <1>6, ServerKeepsFin
<1>7. ASSUME NEW t \in User,
             \/ \E m \in Message : UserSends(t, m)
             \/ UserShutsDown(t)
             \/ UserFinishes(t)
             \/ UserReleasesConn(t)
      PROVE  FinInv' /\ FinStep
  BY <1>1, <1>7, UsersKeepFin
<1>8. QED
  BY <1>2, <1>3, <1>4, <1>5, <1>6, <1>7 DEF Next

(* The FIN goes out behind every byte the loop was given, whoever calls send()
   and shutdown() and however the calls cross: when it is sent outputBuffer_ is
   empty and all that send() accepted is on the wire but the messages of calls
   that the loop has not begun with (shutdownInLoop() line 168, handleWrite()
   line 233). *)
THEOREM FinComesBehindOutput == Spec => FinBehindOutput
<1>1. Init => FinInv
  BY InitFinInv
<1>2. FinInv /\ [Next]_vars => FinInv'
  BY StepFinInv
<1>3. FinInv /\ [Next]_vars =>
        [finSent' # finSent /\ downs = 0 =>
            /\ outputBuffer_' = <<>>
            /\ rst = "none" => Len(sent') - Len(wire') = 2 * SendsOnTheWay']_vars
  <2>1. SUFFICES ASSUME FinInv, [Next]_vars, finSent' # finSent, downs = 0
                 PROVE  /\ outputBuffer_' = <<>>
                        /\ rst = "none" => Len(sent') - Len(wire') = 2 * SendsOnTheWay'
    OBVIOUS
  <2>2. FinInv' /\ outputBuffer_' = <<>> /\ (rst = "none" => Balance')
    BY <2>1, StepFinInv DEF FinStep
  <2>3. Len(sent') \in Nat /\ Len(wire') \in Nat
    BY <2>2, LenProperties DEF FinInv, FinTypes, WatchInv, WatchTypes, SendTypes
  <2>4. Len(outputBuffer_') = 0
    BY <2>2
  <2>5. SendsOnTheWay' \in Nat
    <3>1. SendsIn(ioQueue') \in Nat /\ SendsIn(batch') \in Nat
      BY <2>2, SendsInQueue DEF FinInv, FinTypes
    <3>2. Cardinality(UsersSending') \in Nat
      <4>1. IsFiniteSet(User) /\ UsersSending' \in SUBSET User
        BY TcpConnectionAssumption DEF TcpConnectionAssumption, UsersSending
      <4>2. IsFiniteSet(UsersSending')
        BY <4>1, FS_Subset
      <4>3. QED
        BY <4>2, FS_CardinalityType
    <3>3. QED
      BY <3>1, <3>2 DEF SendsOnTheWay, UsersSending
  <2>6. QED
    BY <2>2, <2>3, <2>4, <2>5 DEF Balance
<1>4. QED
  BY <1>1, <1>2, <1>3, PTL DEF Spec, FinBehindOutput
=============================================================================
