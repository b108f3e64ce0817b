---------------------------- MODULE TcpConnection ----------------------------
(***************************************************************************)
(* The life of one connection of a TcpServer: TcpConnection with its       *)
(* Channel as EPollPoller sees it, the IO loop that runs its handlers, the *)
(* server's entry for it in the base loop, the peer, and other threads     *)
(* that call send() and shutdown().                                        *)
(*                                                                         *)
(* The IO loop goes through the passes of EventLoop: check quit_, poll,    *)
(* handle the reported events, swap and run the functors (wakeups are      *)
(* EventLoop's business).  A handler is one step up to its user callback;  *)
(* while the callback runs the other threads go on.  With baseIsIo (a      *)
(* server without threads) the base loop is the IO loop.                   *)
(***************************************************************************)
EXTENDS Integers, Sequences, FiniteSets, SequencesExt

CONSTANTS
    User,          \* threads other than the loops' with a TcpConnectionPtr
    Message,       \* what is sent; each message at most once
    Junk,          \* a byte that is in no message
    Deployments,   \* the values of baseIsIo
    CallbackCalls, \* what user callbacks call
    UserPrograms,  \* the values of userCalls
    ServerDies,    \* the base loop may return and the server be destroyed
    WriteComplete, \* writeCompleteCallback_ is set
    highWaterMark_ \* in bytes; highWaterMarkCallback_ is set

ASSUME TcpConnectionAssumption ==
    /\ Junk \notin Message
    /\ IsFiniteSet(User)
    /\ Deployments \subseteq BOOLEAN
    /\ ServerDies \in BOOLEAN /\ WriteComplete \in BOOLEAN
    /\ CallbackCalls \subseteq {"send", "sendBuffer", "shutdown"}
    /\ UserPrograms \subseteq SUBSET {"send", "shutdown"}
    /\ highWaterMark_ \in Nat
    /\ Message \cap {"idle", "shutdown", "queue"} = {}   \* places of a user thread

VARIABLES
    state_, outputBuffer_,
    events_, index_,  \* of channel_, which channels_ has unless it is kNew
    ioQueue,          \* pendingFunctors_ of the IO loop
    batch,            \* the functors of this pass not run yet
    batchHolds,       \* the functors of this pass hold a TcpConnectionPtr
    phase,            \* where the IO loop is
    revents_,         \* events of this pass not handled yet
    callback,         \* the user callback being run, or "none"
    ioQuit,           \* quit_ of the IO loop
    created,          \* newConnection() has been called
    connections_,     \* the server's connections_ has the connection
    baseQueue,        \* removeConnectionInLoop functors of the base loop
    server,           \* "up", "dying" (in ~TcpServer) or "gone"
    userCalls,        \* what the threads of User call
    upc,              \* where each user thread is
    holds,            \* user threads with a TcpConnectionPtr
    inData, peerFin, rst,   \* socket: unread data, the peer's FIN, its RST
    finSent,          \* socket: SHUT_WR done
    wire,             \* bytes given to the kernel
    sent,             \* bytes of the messages accepted by send()
    baseIsIo,         \* the base loop runs the connection (numThreads_ = 0)
    ups, downs        \* calls of connectionCallback_, by connected()

conn  == <<state_, outputBuffer_, wire, sent>>
chan  == <<events_, index_>>
loop  == <<batch, batchHolds, phase, revents_, ioQuit>>
owner == <<created, connections_, baseQueue, server, baseIsIo>>
users == <<userCalls, upc, holds>>
sock  == <<inData, peerFin, rst, finSent>>
told  == <<ups, downs>>
rest  == <<owner, users, sock, told>>
vars  == <<conn, chan, ioQueue, loop, callback, owner, users, sock, told>>

HasChannel == index_ # "kNew"
States == {"kConnecting", "kConnected", "kDisconnecting", "kDisconnected"}
Bytes(m) == <<m, m>>
Functor(op) == [op |-> op, data |-> <<>>]
SendFunctor(s) == [op |-> "sendInLoop", data |-> s]

(* Functors bound to shared_from_this(); the others are bound to `this'. *)
Strong == {"connectEstablished", "connectDestroyed", "writeComplete",
           "highWaterMark"}
HoldsConn(q) == \E f \in Range(q) : f.op \in Strong

(* The connection exists as long as some TcpConnectionPtr does: in
   connections_, in a functor, in the guard of Channel::handleEvent() or of a
   callback, in a user thread. *)
Alive == \/ connections_ \/ baseQueue > 0 \/ HoldsConn(ioQueue) \/ batchHolds
         \/ callback # "none" \/ revents_ # {} \/ holds # {}

Init ==
    /\ state_ = "kConnecting" /\ outputBuffer_ = <<>>
    /\ events_ = {} /\ index_ = "kNew"
    /\ ioQueue = <<>> /\ batch = <<>> /\ batchHolds = FALSE
    /\ phase = "check" /\ revents_ = {} /\ callback = "none" /\ ioQuit = FALSE
    /\ created = FALSE /\ connections_ = FALSE /\ baseQueue = 0
    /\ server = "up" /\ baseIsIo \in Deployments
    /\ userCalls \in UserPrograms
    /\ upc = [t \in User |-> "idle"] /\ holds = {}
    /\ inData = FALSE /\ peerFin = FALSE /\ rst = "none" /\ finSent = FALSE
    /\ wire = <<>> /\ sent = <<>>
    /\ ups = 0 /\ downs = 0

-----------------------------------------------------------------------------
(* The peer and the kernel.                                                *)

PeerSends ==
    /\ created /\ ~peerFin /\ rst = "none"
    /\ inData' = TRUE
    /\ UNCHANGED <<peerFin, rst, finSent, conn, chan, ioQueue, loop, callback,
                   owner, users, told>>

PeerCloses ==
    /\ created /\ rst = "none"
    /\ peerFin' = TRUE
    /\ UNCHANGED <<inData, rst, finSent, conn, chan, ioQueue, loop, callback,
                   owner, users, told>>

PeerResets ==
    /\ created /\ rst = "none"
    /\ rst' = "pending"
    /\ UNCHANGED <<inData, peerFin, finSent, conn, chan, ioQueue, loop,
                   callback, owner, users, told>>

(* What epoll reports for the socket: hang-up and error whatever events_ asks,
   the rest when asked for.  `out' says whether the send buffer has room. *)
Ready(out) ==
    IF index_ # "kAdded" THEN {}
    ELSE {e \in {"HUP"} : rst # "none" \/ (peerFin /\ finSent)}
         \cup {e \in {"ERR"} : rst = "pending"}
         \cup {e \in {"IN"} : "read" \in events_
                              /\ (inData \/ peerFin \/ rst # "none")}
         \cup {e \in {"OUT"} : "write" \in events_ /\ (out \/ rst # "none")}

-----------------------------------------------------------------------------
(* Channel and EPollPoller.                                                *)

(* events_ = ev; update(), as EPollPoller::updateChannel() does it: a channel
   that is kNew or kDeleted is added to epoll, whatever its events. *)
UpdateChannel(ev) ==
    /\ events_' = ev
    /\ index_' = IF index_ = "kAdded" /\ ev = {} THEN "kDeleted" ELSE "kAdded"

-----------------------------------------------------------------------------
(* TcpConnection, in the IO loop's thread.                                 *)

(* ::write() of n of the bytes, or failing with EPIPE or ECONNRESET.  The
   process is taken to ignore SIGPIPE. *)
Broken == rst # "none" \/ finSent
GivesUp == state_ = "kDisconnected"
Direct == "write" \notin events_ /\ outputBuffer_ = <<>>

WriteCompleteQueued ==
    ioQueue' = IF WriteComplete THEN Append(ioQueue, Functor("writeComplete"))
                                ELSE ioQueue

SendInLoop(data) ==
    \/ /\ GivesUp \/ (Direct /\ Broken)
       /\ UNCHANGED <<outputBuffer_, wire, chan, ioQueue>>
    \/ /\ ~GivesUp /\ ~(Direct /\ Broken)
       /\ \E n \in IF Direct THEN 0 .. Len(data) ELSE {0} :
            LET tail == SubSeq(data, n + 1, Len(data))
                old == Len(outputBuffer_)
            IN /\ wire' = wire \o SubSeq(data, 1, n)
               /\ outputBuffer_' = outputBuffer_ \o tail
               /\ IF tail = <<>>
                  THEN WriteCompleteQueued /\ UNCHANGED chan
                  ELSE /\ ioQueue' =
                            IF /\ old + Len(tail) >= highWaterMark_
                               /\ old < highWaterMark_
                            THEN Append(ioQueue, Functor("highWaterMark"))
                            ELSE ioQueue
                       /\ IF "write" \in events_
                          THEN UNCHANGED chan
                          ELSE UpdateChannel(events_ \cup {"write"})

ShutdownAtOnce == finSent' = TRUE   \* faulty variant of ShutdownInLoop
ShutdownInLoop == finSent' = (finSent \/ "write" \notin events_)

(* connectionCallback_ is called; user threads get their TcpConnectionPtr. *)
ConnectEstablished ==
    /\ state_' = "kConnected"
    /\ UpdateChannel(events_ \cup {"read"})
    /\ callback' = "up"
    /\ ups' = ups + 1
    /\ holds' = User
    /\ UNCHANGED <<outputBuffer_, wire, sent, downs, userCalls, upc, sock>>

(* Faulty variant of ConnectDestroyed: it reports a fall in any state. *)
ConnectDestroyedInAnyState ==
    /\ state_' = "kDisconnected"
    /\ UpdateChannel({})
    /\ callback' = "destroyDown"
    /\ downs' = downs + 1
    /\ UNCHANGED <<outputBuffer_, wire, sent, ups, users, sock>>

(* Up to connectionCallback_ or, if it is not called, up to remove(). *)
ConnectDestroyed ==
    /\ IF state_ = "kConnected"
       THEN /\ state_' = "kDisconnected"
            /\ UpdateChannel({})
            /\ callback' = "destroyDown"
            /\ downs' = downs + 1
       ELSE /\ callback' = "remove"
            /\ UNCHANGED <<state_, chan, downs>>
    /\ UNCHANGED <<outputBuffer_, wire, sent, ups, users, sock>>

(* Faulty variant of HandleClose: it does not disable the events. *)
HandleCloseKeepsEvents ==
    /\ state_' = "kDisconnected"
    /\ callback' = "closeDown"
    /\ downs' = downs + 1
    /\ UNCHANGED <<outputBuffer_, wire, sent, ups, chan>>

HandleClose ==
    /\ state_' = "kDisconnected"
    /\ UpdateChannel({})
    /\ callback' = "closeDown"
    /\ downs' = downs + 1
    /\ UNCHANGED <<outputBuffer_, wire, sent, ups>>

-----------------------------------------------------------------------------
(* The IO loop.                                                            *)

CheckQuit ==
    /\ phase = "check"
    /\ IF ioQuit
       THEN /\ phase' = "stopped"
            /\ ioQueue' = IF baseIsIo THEN ioQueue ELSE <<>>  \* ~EventLoop
       ELSE /\ phase' = "poll"
            /\ UNCHANGED ioQueue
    /\ UNCHANGED <<batch, batchHolds, revents_, ioQuit, conn, chan, callback,
                   rest>>

(* epoll_wait() returns, with the events r for the connection's channel. *)
Poll(r) ==
    /\ phase = "poll"
    /\ phase' = "events"
    /\ revents_' = r
    /\ UNCHANGED <<batch, batchHolds, ioQuit, conn, chan, ioQueue, callback,
                   rest>>

PollActive == \E out \in BOOLEAN : Ready(out) # {} /\ Poll(Ready(out))
PollOthers == Poll({})

(* The next event for Channel::handleEventWithGuard() to look at. *)
Due(e) ==
    /\ phase = "events" /\ callback = "none"
    /\ e \in revents_
    /\ revents_' = revents_ \ {e}
    /\ UNCHANGED <<batch, batchHolds, phase, ioQuit>>

HandleHup ==
    /\ Due("HUP")
    /\ IF "IN" \in revents_
       THEN UNCHANGED <<conn, chan, callback, told>>
       ELSE HandleClose
    /\ UNCHANGED <<ioQueue, owner, users, sock>>

HandleError ==
    /\ revents_ \cap {"HUP"} = {}
    /\ Due("ERR")
    /\ rst' = "taken"
    /\ UNCHANGED <<inData, peerFin, finSent, conn, chan, ioQueue, callback,
                   owner, users, told>>

(* read() returns data, else the pending error, else 0. *)
HandleRead ==
    /\ revents_ \cap {"HUP", "ERR"} = {}
    /\ Due("IN")
    /\ IF inData
       THEN /\ inData' = FALSE
            /\ callback' = "message"
            /\ UNCHANGED <<rst, conn, chan, told>>
       ELSE IF rst = "pending"
            THEN /\ rst' = "taken"
                 /\ UNCHANGED <<inData, conn, chan, callback, told>>
            ELSE /\ HandleClose
                 /\ UNCHANGED <<inData, rst>>
    /\ UNCHANGED <<peerFin, finSent, ioQueue, owner, users>>

(* Faulty variants of OutputDrained: writability stays watched; a shutdown()
   that waited for the output is forgotten. *)
OutputDrainedStillWriting ==
    /\ UNCHANGED chan
    /\ WriteCompleteQueued
    /\ finSent' = (finSent \/ state_ = "kDisconnecting")

OutputDrainedWithoutFin ==
    /\ UpdateChannel(events_ \ {"write"})
    /\ WriteCompleteQueued
    /\ UNCHANGED finSent

(* handleWrite() has emptied outputBuffer_. *)
OutputDrained ==
    /\ UpdateChannel(events_ \ {"write"})
    /\ WriteCompleteQueued
    /\ finSent' = (finSent \/ state_ = "kDisconnecting")

(* The bytes written are those after the write index of outputBuffer_, of
   which nothing is known, not its readable bytes. *)
HandleWrite ==
    /\ revents_ = {"OUT"}
    /\ Due("OUT")
    /\ IF "write" \in events_ /\ ~Broken
       THEN \E n \in 1 .. Len(outputBuffer_) :
              /\ wire' = wire \o [i \in 1 .. n |-> Junk]
              /\ outputBuffer_' =
                     SubSeq(outputBuffer_, n + 1, Len(outputBuffer_))
              /\ IF outputBuffer_' = <<>>
                 THEN OutputDrained
                 ELSE UNCHANGED <<chan, ioQueue, finSent>>
              /\ UNCHANGED <<state_, sent>>
       ELSE UNCHANGED <<conn, chan, ioQueue, finSent>>
    /\ UNCHANGED <<inData, peerFin, rst, callback, owner, users, told>>

SwapFunctors ==
    /\ phase = "events" /\ revents_ = {} /\ callback = "none"
    /\ phase' = "functors"
    /\ batch' = ioQueue
    /\ batchHolds' = HoldsConn(ioQueue)
    /\ ioQueue' = <<>>
    /\ UNCHANGED <<revents_, ioQuit, conn, chan, callback, rest>>

RunFunctor ==
    /\ phase = "functors" /\ callback = "none"
    /\ batch # <<>>
    /\ LET f == Head(batch)
       IN \/ /\ f.op = "connectEstablished"
             /\ ConnectEstablished
             /\ UNCHANGED ioQueue
          \/ /\ f.op = "connectDestroyed"
             /\ ConnectDestroyed
             /\ UNCHANGED ioQueue
          \/ /\ f.op = "sendInLoop"
             /\ SendInLoop(f.data)
             /\ UNCHANGED <<state_, sent, callback, users, sock, told>>
          \/ /\ f.op = "shutdownInLoop"
             /\ ShutdownInLoop
             /\ UNCHANGED <<inData, peerFin, rst, conn, chan, ioQueue,
                            callback, users, told>>
          \/ /\ f.op \in {"writeComplete", "highWaterMark"}
             /\ callback' = "note"
             /\ UNCHANGED <<conn, chan, ioQueue, users, sock, told>>
    /\ batch' = Tail(batch)
    /\ UNCHANGED <<batchHolds, phase, revents_, ioQuit, owner>>

EndFunctors ==
    /\ phase = "functors" /\ callback = "none"
    /\ batch = <<>>
    /\ phase' = "check"
    /\ batchHolds' = FALSE
    /\ UNCHANGED <<batch, revents_, ioQuit, conn, chan, ioQueue, callback,
                   rest>>

-----------------------------------------------------------------------------
(* What user callbacks do.                                                 *)

InCallback == callback \in {"up", "message", "note", "closeDown", "destroyDown"}

(* send(const std::string&), or send() of a Buffer, which passes what lies after
   the write index of the caller's buffer. *)
CallbackSends(m, call) ==
    /\ InCallback /\ call \in CallbackCalls
    /\ m \notin Range(sent)
    /\ state_ = "kConnected"
    /\ sent' = sent \o Bytes(m)
    /\ SendInLoop(IF call = "send" THEN Bytes(m) ELSE Bytes(Junk))
    /\ UNCHANGED <<state_, loop, callback, rest>>

MayShutDown == state_ = "kConnected"

CallbackShutsDown ==
    /\ InCallback /\ "shutdown" \in CallbackCalls
    /\ MayShutDown
    /\ state_' = "kDisconnecting"
    /\ ShutdownInLoop
    /\ UNCHANGED <<outputBuffer_, wire, sent, chan, ioQueue, inData, peerFin,
                   rst, loop, callback, owner, users, told>>

(* Faulty variant of RemoveConnectionInLoop: the connection is forgotten. *)
ForgetConnection ==
    /\ connections_' = FALSE
    /\ UNCHANGED ioQueue

RemoveConnectionInLoop ==
    /\ connections_' = FALSE
    /\ ioQueue' = Append(ioQueue, Functor("connectDestroyed"))

(* A callback returns.  handleClose() goes on with closeCallback_, that is
   removeConnection(); connectDestroyed() with channel_->remove(). *)
CallbackReturns ==
    /\ InCallback
    /\ callback' = IF callback = "destroyDown" THEN "remove" ELSE "none"
    /\ IF callback = "closeDown"
       THEN IF baseIsIo
            THEN RemoveConnectionInLoop /\ UNCHANGED baseQueue
            ELSE /\ baseQueue' = baseQueue + 1
                 /\ UNCHANGED <<connections_, ioQueue>>
       ELSE UNCHANGED <<connections_, baseQueue, ioQueue>>
    /\ UNCHANGED <<created, server, baseIsIo, conn, chan, loop, users, sock, told>>

(* Channel::remove(), past its assertion, and EPollPoller::removeChannel(). *)
RemoveChannel ==
    /\ callback = "remove"
    /\ events_ = {}
    /\ callback' = "none"
    /\ index_' = "kNew"
    /\ UNCHANGED <<events_, conn, ioQueue, loop, rest>>

-----------------------------------------------------------------------------
(* TcpServer, in the base loop's thread.                                   *)

(* newConnection(), in the read handler of the Acceptor. *)
NewConnection ==
    /\ ~created /\ server = "up"
    /\ created' = TRUE
    /\ connections_' = TRUE
    /\ IF baseIsIo
       THEN /\ phase = "events" /\ callback = "none"
            /\ ConnectEstablished
            /\ UNCHANGED ioQueue
       ELSE /\ ioQueue' = Append(ioQueue, Functor("connectEstablished"))
            /\ UNCHANGED <<conn, chan, callback, users, sock, told>>
    /\ UNCHANGED <<baseQueue, server, baseIsIo, loop>>

(* removeConnectionInLoop(). *)
BaseRunsFunctor ==
    /\ baseQueue > 0 /\ server = "up"
    /\ baseQueue' = baseQueue - 1
    /\ RemoveConnectionInLoop
    /\ UNCHANGED <<created, server, baseIsIo, conn, chan, loop, callback,
                   users, sock, told>>

(* quit() on the base loop. *)
QuitBaseLoop ==
    /\ ServerDies /\ baseIsIo /\ ~ioQuit
    /\ ioQuit' = TRUE
    /\ UNCHANGED <<batch, batchHolds, phase, revents_, conn, chan, ioQueue,
                   callback, rest>>

(* The base loop has returned; its thread enters ~TcpServer. *)
DestroyServer ==
    /\ ServerDies /\ server = "up"
    /\ baseIsIo => phase = "stopped"
    /\ server' = "dying"
    /\ connections_' = FALSE
    /\ IF ~connections_
       THEN UNCHANGED <<conn, chan, ioQueue, callback, users, sock, told>>
       ELSE IF baseIsIo
            THEN ConnectDestroyed /\ UNCHANGED ioQueue
            ELSE /\ ioQueue' = Append(ioQueue, Functor("connectDestroyed"))
                 /\ UNCHANGED <<conn, chan, callback, users, sock, told>>
    /\ UNCHANGED <<created, baseQueue, baseIsIo, loop>>

(* ~EventLoopThread, from ~TcpServer: quit(), then join(). *)
QuitIoLoop ==
    /\ server = "dying" /\ ~ioQuit
    /\ ioQuit' = TRUE
    /\ UNCHANGED <<batch, batchHolds, phase, revents_, conn, chan, ioQueue,
                   callback, rest>>

(* ~TcpServer is done and the base EventLoop is destroyed with its functors. *)
DestroyBaseLoop ==
    /\ server = "dying" /\ phase = "stopped" /\ callback = "none"
    /\ server' = "gone"
    /\ baseQueue' = 0
    /\ ioQueue' = <<>>
    /\ UNCHANGED <<created, connections_, baseIsIo, conn, chan, loop, callback,
                   users, sock, told>>

-----------------------------------------------------------------------------
(* Other threads, until the server is destroyed.                           *)

UserMayCall(t, call) ==
    /\ upc[t] = "idle" /\ t \in holds /\ call \in userCalls
    /\ server = "up" /\ phase # "stopped"
    /\ state_ = "kConnected"

UserSends(t, m) ==
    /\ UserMayCall(t, "send")
    /\ m \notin Range(sent)
    /\ sent' = sent \o Bytes(m)
    /\ upc' = [upc EXCEPT ![t] = m]
    /\ UNCHANGED <<state_, outputBuffer_, wire, holds, userCalls, chan, ioQueue, loop,
                   callback, owner, sock, told>>

UserQueuesSend(t) ==
    /\ upc[t] \in Message
    /\ ioQueue' = Append(ioQueue, SendFunctor(Bytes(upc[t])))
    /\ upc' = [upc EXCEPT ![t] = "idle"]
    /\ UNCHANGED <<holds, userCalls, conn, chan, loop, callback, owner, sock, told>>

UserShutsDown(t) ==
    /\ UserMayCall(t, "shutdown")
    /\ upc' = [upc EXCEPT ![t] = "shutdown"]
    /\ UNCHANGED <<holds, userCalls, conn, chan, ioQueue, loop, callback, owner, sock,
                   told>>

UserSetsState(t) ==
    /\ upc[t] = "shutdown"
    /\ state_' = "kDisconnecting"
    /\ upc' = [upc EXCEPT ![t] = "queue"]
    /\ UNCHANGED <<outputBuffer_, wire, sent, holds, userCalls, chan, ioQueue, loop,
                   callback, owner, sock, told>>

UserQueuesShutdown(t) ==
    /\ upc[t] = "queue"
    /\ ioQueue' = Append(ioQueue, Functor("shutdownInLoop"))
    /\ upc' = [upc EXCEPT ![t] = "idle"]
    /\ UNCHANGED <<holds, userCalls, conn, chan, loop, callback, owner, sock, told>>

(* Once no call of send() or shutdown() waits in the loop: their functors are
   bound to the raw `this'. *)
UserReleasesConn(t) ==
    /\ upc[t] = "idle" /\ t \in holds
    /\ \A f \in Range(ioQueue \o batch) : f.op \in Strong
    /\ holds' = holds \ {t}
    /\ UNCHANGED <<upc, userCalls, conn, chan, ioQueue, loop, callback, owner, sock,
                   told>>

-----------------------------------------------------------------------------
(* What the IO loop's thread does without waiting in epoll_wait(). *)
IoStep ==
    \/ CheckQuit
    \/ HandleHup \/ HandleError \/ HandleRead \/ HandleWrite
    \/ SwapFunctors \/ RunFunctor \/ EndFunctors
    \/ CallbackReturns \/ RemoveChannel

UserFinishes(t) ==
    UserQueuesSend(t) \/ UserSetsState(t) \/ UserQueuesShutdown(t)

Next ==
    \/ PeerSends \/ PeerCloses \/ PeerResets
    \/ PollActive \/ PollOthers \/ IoStep
    \/ \E m \in Message, c \in {"send", "sendBuffer"} : CallbackSends(m, c)
    \/ CallbackShutsDown
    \/ NewConnection \/ BaseRunsFunctor
    \/ QuitBaseLoop \/ DestroyServer \/ QuitIoLoop \/ DestroyBaseLoop
    \/ \E t \in User : \/ \E m \in Message : UserSends(t, m)
                       \/ UserShutsDown(t)
                       \/ UserFinishes(t)
                       \/ UserReleasesConn(t)

Spec == Init /\ [][Next]_vars

(* Both loops are scheduled and callbacks return; started calls of other
   threads finish; poll returns when a functor or a quit() woke it (EventLoop's
   NoLostWakeup); epoll, being level-triggered, does not pass over a ready
   channel for ever. *)
Fairness ==
    /\ WF_vars(IoStep)
    /\ WF_vars((ioQueue # <<>> \/ ioQuit) /\ PollOthers)
    /\ SF_vars(PollActive)
    /\ WF_vars(BaseRunsFunctor)
    /\ \A t \in User : WF_vars(UserFinishes(t))

FairSpec == Spec /\ Fairness

(* As above, and the peer goes on reading: the send buffer gets room. *)
ReadingPeerSpec ==
    FairSpec /\ SF_vars("OUT" \in Ready(TRUE) /\ Poll(Ready(TRUE)))

-----------------------------------------------------------------------------
(* Properties.                                                             *)

(* Every variable has its type. *)
TypeOK ==
    /\ state_ \in States
    /\ outputBuffer_ \in Seq(Message \cup {Junk})
    /\ events_ \subseteq {"read", "write"}
    /\ index_ \in {"kNew", "kAdded", "kDeleted"}
    /\ phase \in {"check", "poll", "events", "functors", "stopped"}
    /\ revents_ \subseteq {"HUP", "ERR", "IN", "OUT"}
    /\ callback \in {"none", "up", "message", "note", "closeDown",
                     "destroyDown", "remove"}
    /\ baseQueue \in Nat /\ ups \in Nat /\ downs \in Nat
    /\ upc \in [User -> Message \cup {"idle", "shutdown", "queue"}]
    /\ holds \subseteq User
    /\ rst \in {"none", "pending", "taken"}

(* Other threads call both send() and shutdown().  The second half of such a
   shutdown() may set kDisconnecting after handleClose() (line 160), and a send
   still queued then finds a connection that looks open. *)
MixedUse == {"send", "shutdown"} \subseteq userCalls

(* Channel::remove() asserts isNoneEvent() (Channel.cpp line 41).  It finds
   events only where connectDestroyed() left them to a connection that was
   kDisconnecting (line 186): in ~TcpServer, or closed under mixed use. *)
RemoveFindsNoEvent ==
    callback = "remove" /\ events_ # {} =>
        state_ = "kDisconnecting" /\ (server # "up" \/ MixedUse)

(* A destroyed connection is unknown to the poller, which keeps a raw Channel*
   (the assertion of ~Channel, Channel.cpp line 32), unless the IO loop, and the
   poller with it, ended before connectDestroyed() had its turn. *)
DestroyedUnregistered ==
    created /\ ~Alive /\ HasChannel => phase = "stopped" \/ MixedUse

(* The channel leaves the poller in good order and for good, whether the peer
   closes or the server is destroyed, and however that runs into sends and
   shutdowns still queued: no event is left when it is removed, no registration
   when it is destroyed (connectDestroyed() line 186, sendInLoop() line 99), but
   for the two cases that RemoveFindsNoEvent and DestroyedUnregistered name. *)
ChannelLeaves == TypeOK /\ RemoveFindsNoEvent /\ DestroyedUnregistered

(* connectionCallback_ reports one rise, then one fall; messages come between
   (connectEstablished(), handleRead(), handleClose(), connectDestroyed()).  Under
   mixed use the fall may be reported twice. *)
CallbackOrder ==
    /\ ups <= 1 /\ (MixedUse \/ downs <= ups)
    /\ callback = "message" => ups = 1 /\ downs = 0

(* While epoll watches the channel it watches for writability exactly as long
   as there is something to write: else the loop would spin, or the rest of a
   message would never leave (sendInLoop() line 149, handleWrite() line 228). *)
WritingIffOutput ==
    index_ = "kAdded" => ("write" \in events_ <=> outputBuffer_ # <<>>)

(* The calls of send() that the loop has not begun with. *)
SendsIn(q) == Cardinality({i \in DOMAIN q : q[i].op = "sendInLoop"})
SendsOnTheWay ==
    SendsIn(ioQueue) + SendsIn(batch) + Cardinality({t \in User : upc[t] \in Message})

(* The FIN goes out behind every byte the loop was given: when it is sent
   outputBuffer_ is empty, and of what send() accepted nothing is missing on the
   wire but the messages other threads have still to queue or that wait as
   sendInLoop() functors (shutdownInLoop() line 168, handleWrite() line 233).
   Those are lost: kDisconnecting, set ahead of the queue (line 160), lets
   handleWrite() send the FIN in front of them. *)
FinBehindOutput ==
    [][finSent' # finSent /\ downs = 0 =>
          /\ outputBuffer_' = <<>>
          /\ rst = "none" => Len(sent') - Len(wire') = 2 * SendsOnTheWay']_vars

(* The peer reads the bytes given to send(), in order. *)
WireIsPrefix == IsPrefix(wire, sent)

(* A peer that goes away takes the connection with it: the callback reports
   the fall, the server forgets it and the channel leaves the poller. *)
PeerEndsConnection ==
    (peerFin \/ rst # "none") /\ ups = 1
        ~> downs = 1 /\ ~connections_ /\ ~HasChannel

(* After shutdown() everything accepted is written and the peer gets its FIN,
   unless the connection is closed first. *)
ShutdownSendsFin ==
    state_ = "kDisconnecting" ~> finSent \/ state_ = "kDisconnected"
=============================================================================
