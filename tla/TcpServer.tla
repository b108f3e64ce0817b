----------------------------- MODULE TcpServer -----------------------------
(***************************************************************************)
(* TcpServer and Acceptor (net/): the owner of an EventLoopThreadPool      *)
(* accepts connections in the base loop, hands them to the IO loops and    *)
(* forgets them when they close, until it is destroyed with the pool.  Of  *)
(* a TcpConnection only its life is here: TcpConnection has the rest.      *)
(* The names of connections differ in nextConnId_ only.                    *)
(***************************************************************************)
EXTENDS EventLoopThreadPool, FiniteSets, Functions

CONSTANTS
    MaxClients,   \* bound of the clients that ever connect
    MaxOpen       \* connections the limit of descriptors leaves room for

ASSUME TcpServerAssumption == MaxClients \in Nat /\ MaxOpen \in Nat \ {0}

VARIABLES
    listenning_,      \* the Acceptor listens and its channel reads
    clients,          \* how many have connected, accepted or not (the kernel's)
    ioLoop, names,    \* the loop and the name of each connection accepted so far
    nextConnId_,
    connections_,     \* the map from names, here ids, to connections
    baseFunctors,     \* removeConnectionInLoop() queued in the base loop
    functors,         \* connectEstablished(), connectDestroyed() in the IO loops
    calls,            \* of these, what has run for each connection
    closed,           \* connections whose handleClose() has run
    ending            \* the base loop has returned, ~TcpServer runs

kernel == <<listenning_, clients>>
server == <<ioLoop, names, nextConnId_, connections_>>
conns  == <<baseFunctors, functors, calls, closed>>
serverVars == <<vars, kernel, server, conns, ending>>

Conn == 1 .. Len(ioLoop)
BaseLoops == opc = "up" /\ ~ending
Established(c) == <<c, "connectEstablished">>
Destroyed(c) == <<c, "connectDestroyed">>
Open == {c \in Conn : Destroyed(c) \notin Range(calls)}
AtLimit == Cardinality(Open) >= MaxOpen

ServerInit ==
    /\ Init
    /\ listenning_ = FALSE /\ clients = 0
    /\ ioLoop = <<>> /\ names = <<>> /\ nextConnId_ = 1 /\ connections_ = <<>>
    /\ baseFunctors = <<>> /\ functors = [i \in Thread |-> <<>>]
    /\ calls = <<>> /\ closed = {}
    /\ ending = FALSE

-----------------------------------------------------------------------------
(* The base loop.                                                          *)

(* start(), when the pool is up: Acceptor::listen(), here in the base loop. *)
Listen ==
    /\ BaseLoops /\ ~listenning_
    /\ listenning_' = TRUE
    /\ UNCHANGED <<vars, clients, server, conns, ending>>

(* A client connects and waits for accept(). *)
Connect ==
    /\ listenning_ /\ clients < MaxClients
    /\ clients' = clients + 1
    /\ UNCHANGED <<vars, listenning_, server, conns, ending>>

Pending == IF clients > Len(ioLoop) THEN Len(ioLoop) + 1 .. clients ELSE {}

(* Faulty variant of Queue: the loop is not woken. *)
QueueWithoutWakeup(i, functor) ==
    /\ functors' = [functors EXCEPT ![i] = Append(@, functor)]
    /\ UNCHANGED woken

(* queueInLoop() of an IO loop: the functor and the wakeup. *)
Queue(i, functor) ==
    /\ functors' = [functors EXCEPT ![i] = Append(@, functor)]
    /\ woken' = [woken EXCEPT ![i] = TRUE]

(* Faulty variant of NewName: connections have the same name. *)
SameName == UNCHANGED nextConnId_
NewName == nextConnId_' = nextConnId_ + 1

NewConnection(c) ==
    LET i == NextLoop
    IN  /\ GetNextLoop
        /\ ioLoop' = Append(ioLoop, i)
        /\ names' = Append(names, nextConnId_)
        /\ connections_' = [id \in DOMAIN connections_ \cup {nextConnId_} |->
                               IF id = nextConnId_ THEN c ELSE connections_[id]]
        /\ NewName
        /\ Queue(i, Established(c))

(* Accepts one; at the limit accept() fails, and the client goes on waiting. *)
HandleRead ==
    /\ BaseLoops /\ listenning_
    /\ Pending # {} /\ ~AtLimit
    /\ NewConnection(Len(ioLoop) + 1)
    /\ UNCHANGED <<loops_, owner, loop_, exists, quit_, pc, kernel, baseFunctors,
                   calls, closed, ending>>

Forget(c) == connections_' = Restrict(connections_, DOMAIN connections_ \ {names[c]})

RemoveConnectionInLoop ==
    /\ BaseLoops /\ baseFunctors # <<>>
    /\ baseFunctors' = Tail(baseFunctors)
    /\ Forget(Head(baseFunctors))
    /\ Queue(ioLoop[Head(baseFunctors)], Destroyed(Head(baseFunctors)))
    /\ UNCHANGED <<pool, owner, loop_, exists, quit_, pc, kernel, ioLoop, names, nextConnId_,
                   calls, closed, ending>>

(* loop() of the base loop returns, whatever is queued there. *)
BaseLoopEnds ==
    /\ BaseLoops /\ listenning_
    /\ ending' = TRUE
    /\ UNCHANGED <<vars, kernel, server, conns>>

(* ~TcpServer: one connection after the other, in the order of the map. *)
ReleaseConnection(id) ==
    /\ opc = "up" /\ ending
    /\ id \in DOMAIN connections_
    /\ Forget(connections_[id])
    /\ Queue(ioLoop[connections_[id]], Destroyed(connections_[id]))
    /\ UNCHANGED <<pool, owner, loop_, exists, quit_, pc, kernel, ioLoop, names, nextConnId_,
                   baseFunctors, calls, closed, ending>>

DestroyPool ==
    /\ ending /\ connections_ = <<>>
    /\ Destroy
    /\ UNCHANGED <<kernel, server, conns, ending>>

-----------------------------------------------------------------------------
(* The IO loops.                                                           *)

(* handleClose() of a connection calls removeConnection(). *)
HandleClose(c) ==
    /\ pc[ioLoop[c]] = "poll"
    /\ Established(c) \in Range(calls) /\ c \in Open \ closed
    /\ closed' = closed \cup {c}
    /\ baseFunctors' = Append(baseFunctors, c)
    /\ UNCHANGED <<vars, kernel, server, functors, calls, ending>>

(* doPendingFunctors() *)
RunFunctors(i) ==
    /\ calls' = calls \o functors[i]
    /\ functors' = [functors EXCEPT ![i] = <<>>]

EndPass(i) ==
    /\ PollReturns(i)
    /\ RunFunctors(i)
    /\ UNCHANGED <<kernel, server, baseFunctors, closed, ending>>

(* ~EventLoop drops what is queued. *)
EndThread(i) ==
    /\ Unwind(i)
    /\ functors' = [functors EXCEPT ![i] = <<>>]
    /\ UNCHANGED <<kernel, server, baseFunctors, calls, closed, ending>>

-----------------------------------------------------------------------------

PoolOwner ==
    /\ OwnerStep
    /\ UNCHANGED <<kernel, server, conns, ending>>

BaseLoop == Listen \/ HandleRead \/ RemoveConnectionInLoop
ServerEnds == (\E id \in DOMAIN connections_ : ReleaseConnection(id)) \/ DestroyPool

IoThread(i) ==
    \/ ThreadStep(i) /\ UNCHANGED <<kernel, server, conns, ending>>
    \/ EndThread(i)

ServerNext ==
    \/ PoolOwner \/ BaseLoop \/ BaseLoopEnds \/ ServerEnds
    \/ Connect
    \/ \E c \in Conn : HandleClose(c)
    \/ \E i \in Thread : IoThread(i) \/ EndPass(i)

(* Every thread is scheduled, epoll_wait() returns on a readable eventfd, and
   for a client that waits: the epoll of the base loop is level-triggered.
   Clients need not connect, connections need not close, nobody has to destroy
   the server. *)
ServerSpec ==
    /\ ServerInit /\ [][ServerNext]_serverVars
    /\ WF_serverVars(PoolOwner) /\ WF_serverVars(ServerEnds)
    /\ WF_serverVars(Listen) /\ WF_serverVars(HandleRead)
    /\ WF_serverVars(RemoveConnectionInLoop)
    /\ \A i \in Thread : /\ WF_serverVars(IoThread(i))
                         /\ WF_serverVars(woken[i] /\ EndPass(i))

-----------------------------------------------------------------------------
(* Properties.                                                             *)

(* A loop exists from when it is handed out until it is told to quit: those
   the pool hands out while it is up (startLoop() waits for loop_), those
   functors wait in, and those ~EventLoopThread has still to call quit() on
   (EventLoopThread.cpp lines 17-19 read loop_ unlocked, line 59 resets it before
   the loop ends).  What quit() does after quit_ = true is not spoken of: its
   wakeup() may come to a loop that is gone. *)
LoopsExistUntilQuit ==
    /\ TypeOK /\ LoopsExist /\ LoopsExistToQuit
    /\ \A i \in Thread : functors[i] # <<>> => exists[i]

(* How many connections a loop was given. *)
Given(i) == Cardinality({c \in Conn : ioLoop[c] = i})

Balanced == \A i, j \in Thread : Given(i) <= Given(j) + 1

(* For each connection connectEstablished() runs once and connectDestroyed() at
   most once after it, whether it closes, the server is destroyed, or both; and
   until then connections_ keeps every connection that did not close and no
   other, under a name of its own (TcpServer.cpp lines 72-73, 115).  No loop is
   given two connections more than another (getNextLoop()).                 *)
EachConnectionOnce ==
    /\ IsInjective(calls)
    /\ \A n \in DOMAIN calls : \E c \in Conn :
          \/ calls[n] = Established(c)
          \/ calls[n] = Destroyed(c) /\ \E m \in 1 .. n - 1 : calls[m] = Established(c)
    /\ ~ending => /\ IsInjective(connections_)
                  /\ Conn \ Range(connections_) \subseteq closed
    /\ Range(connections_) \subseteq Open
    /\ Balanced

(* A client that waits is accepted when a descriptor is free, also if there was
   none before (Acceptor::handleRead() lines 66-73), and a connection that closes
   is destroyed three functors later: unless the server ends.               *)
ConnectionsMoveOn ==
    \A c \in 1 .. MaxClients :
        /\ c \in Pending /\ ~AtLimit ~> c \in Conn \/ AtLimit \/ ending
        /\ c \in closed ~> c \notin Open \/ ending
=============================================================================
