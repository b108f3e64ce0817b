-------------------------- MODULE TcpServer_proofs --------------------------
(***************************************************************************)
(* Proofs that the loops of an EventLoopThreadPool outlive their use and   *)
(* that TcpServer establishes and destroys each connection once, for any   *)
(* number of IO threads, of clients and of connections open at a time.     *)
(***************************************************************************)
EXTENDS TcpServer, SequenceTheorems, FiniteSetTheorems, TLAPS

(* startLoop() has returned the loop of thread i. *)
Started(i) == opc \in {"start", "wait"} => i < turn

(* startLoop() has not been called for thread i. *)
NotStarted(i) ==
    \/ opc = "start" /\ turn <= i
    \/ opc = "wait" /\ turn < i

(* ~EventLoopThread has called quit() on the loop of thread i. *)
Quitted(i) ==
    /\ opc \notin {"start", "wait", "up"}
    /\ turn <= i => turn = i /\ opc \notin {"read", "quit"}

(* Between the owner's calls: thread i does not run before startLoop(), and from
   there to quit() its loop_ is set and stays so. *)
ThreadInv(i) ==
    /\ exists[i] <=> pc[i] \in {"publish", "enter", "check", "poll", "clear", "unwind"}
    /\ loop_[i] <=> pc[i] \in {"enter", "check", "poll", "clear"}
    /\ NotStarted(i) => pc[i] = "none"
    /\ Started(i) => pc[i] \notin {"none", "create", "publish"}
    /\ quit_[i] \/ pc[i] \in {"clear", "unwind", "done"} => Quitted(i)

HowManyStarted == IF opc \in {"start", "wait"} THEN turn - 1 ELSE numThreads_

(* loops_ has the loops in the order of the threads. *)
PoolInv ==
    /\ TypeOK
    /\ next_ < numThreads_
    /\ loops_ = [n \in 1 .. HowManyStarted |-> n]
    /\ \A i \in Thread : ThreadInv(i)

(* The pool is up before anything is accepted. *)
ListenInv == opc \in {"start", "wait"} => ~listenning_ /\ ioLoop = <<>>

(* Every connection has its number as its name, connections_ has those that are
   not yet removed, and each is to be removed once. *)
RegistryInv ==
    /\ ioLoop \in Seq(Thread)
    /\ names = [c \in Conn |-> c]
    /\ nextConnId_ = Len(ioLoop) + 1
    /\ DOMAIN connections_ \subseteq Conn
    /\ \A id \in DOMAIN connections_ : connections_[id] = id
    /\ closed \subseteq Conn
    /\ baseFunctors \in Seq(Conn) /\ IsInjective(baseFunctors)
    /\ Range(baseFunctors) \subseteq closed
    /\ ~ending => /\ Conn \ DOMAIN connections_ \subseteq closed
                  /\ Range(baseFunctors) \subseteq DOMAIN connections_

Call == Nat \X {"connectEstablished", "connectDestroyed"}

About(c, s) == Established(c) \in Range(s) \/ Destroyed(c) \in Range(s)

(* In s no connection is destroyed before it is established, in s or before. *)
InOrder(s, before) ==
    \A n \in 1 .. Len(s), c \in Nat :
        s[n] = Destroyed(c) =>
            \/ Established(c) \in before
            \/ \E m \in 1 .. n - 1 : s[m] = Established(c)

(* What waits in loop i: calls for connections of that loop, none of which has
   run or waits twice. *)
QueueInv(i) ==
    /\ functors[i] # <<>> => exists[i]
    /\ IsInjective(functors[i])
    /\ Range(functors[i]) \cap Range(calls) = {}
    /\ InOrder(functors[i], Range(calls))
    /\ \A c \in Nat : About(c, functors[i]) => c \in Conn /\ ioLoop[c] = i

QueuesInv ==
    /\ calls \in Seq(Call) /\ functors \in [Thread -> Seq(Call)]
    /\ IsInjective(calls) /\ InOrder(calls, {})
    /\ \A c \in Nat : About(c, calls) => c \in Conn
    /\ \A i \in Thread : QueueInv(i)

(* A connection in connections_ has connectEstablished() behind it or, while the
   loops run, before it, and connectDestroyed() is not asked for. *)
MapInv ==
    \A c \in DOMAIN connections_ :
        /\ Destroyed(c) \notin Range(calls) \cup Range(functors[ioLoop[c]])
        /\ opc = "up" => Established(c) \in Range(calls) \cup Range(functors[ioLoop[c]])

(* The threads up to next_ were given one connection more than the others. *)
TurnsInv ==
    \E k \in Nat : \A i \in Thread : Given(i) = IF i <= next_ THEN k + 1 ELSE k

ServerInv ==
    PoolInv /\ ListenInv /\ RegistryInv /\ QueuesInv /\ MapInv /\ TurnsInv

-----------------------------------------------------------------------------
(* The pool.                                                               *)

(* The loops of the first k threads; startLoop() adds the next one. *)
LEMMA FirstLoops ==
    ASSUME NEW k \in Nat, k <= numThreads_
    PROVE  LET s == [n \in 1 .. k |-> n]
           IN  /\ s \in Seq(Thread) /\ Len(s) = k
               /\ \A n \in 1 .. k : s[n] = n
               /\ k < numThreads_ => Append(s, k + 1) = [n \in 1 .. k + 1 |-> n]
<1> DEFINE s == [n \in 1 .. k |-> n]
<1>1. s \in Seq(Thread) /\ Len(s) = k
  BY EventLoopThreadPoolAssumption DEF Thread
<1>2. ASSUME k < numThreads_
      PROVE  Append(s, k + 1) = [n \in 1 .. k + 1 |-> n]
  <2>1. Len(Append(s, k + 1)) = k + 1 /\ Append(s, k + 1) \in Seq(Nat)
    BY <1>1 DEF Thread
  <2>2. \A n \in 1 .. k + 1 : Append(s, k + 1)[n] = n
    BY <1>1
  <2>3. [n \in 1 .. k + 1 |-> n] \in Seq(Nat) /\ Len([n \in 1 .. k + 1 |-> n]) = k + 1
    OBVIOUS
  <2>. QED
    BY <2>1, <2>2, <2>3, SeqEqual
<1>. QED
  BY <1>1, <1>2

(* A pool that is not started yet. *)
LEMMA InitPoolInv == Init => PoolInv
<1>1. SUFFICES ASSUME Init PROVE PoolInv
  OBVIOUS
<1>2. HowManyStarted = 0 /\ loops_ = [n \in 1 .. 0 |-> n] /\ Len(loops_) = 0
  BY <1>1 DEF Init, HowManyStarted
<1>3. TypeOK
  BY <1>1, EventLoopThreadPoolAssumption DEF Init, TypeOK, Thread, PC
<1>4. \A i \in Thread : ThreadInv(i)
  BY <1>1, EventLoopThreadPoolAssumption
  DEF Init, ThreadInv, NotStarted, Started, Quitted, Thread
<1>. QED
  BY <1>1, <1>2, <1>3, <1>4, EventLoopThreadPoolAssumption DEF Init, PoolInv

(* How many loops loops_ has, and which. *)
LEMMA LoopsOfPool ==
    ASSUME PoolInv
    PROVE  /\ HowManyStarted \in 0 .. numThreads_
           /\ Len(loops_) = HowManyStarted
           /\ \A n \in 1 .. HowManyStarted : loops_[n] = n
           /\ next_ \in Nat /\ next_ < numThreads_ /\ (next_ = 0 \/ next_ < Len(loops_))
<1>1. HowManyStarted \in Nat /\ HowManyStarted <= numThreads_
  BY EventLoopThreadPoolAssumption DEF PoolInv, TypeOK, HowManyStarted, Thread
<1>2. /\ Len(loops_) = HowManyStarted
      /\ \A n \in 1 .. HowManyStarted : loops_[n] = n
  BY <1>1, FirstLoops DEF PoolInv
<1>3. next_ < numThreads_ /\ (next_ = 0 \/ next_ \in 0 .. Len(loops_) - 1)
  BY DEF PoolInv, TypeOK
<1>. QED
  BY <1>1, <1>2, <1>3, EventLoopThreadPoolAssumption

(* What a step of thread i does to the pool. *)
ThreadMoves(i) == ThreadStep(i) \/ PollReturns(i) \/ Unwind(i)

(* threadFunc() keeps PoolInv: it resets loop_ only when quit() was called. *)
LEMMA ThreadMovesKeepsPoolInv ==
    ASSUME PoolInv, NEW i \in Thread, ThreadMoves(i)
    PROVE  PoolInv'
<1> USE DEF PoolInv, ThreadMoves, ThreadStep, CreateLoop, Publish, EnterLoop, CheckQuit,
            ClearLoop, PollReturns, Unwind, Goto, pool, owner
<1>1. UNCHANGED <<loops_, next_, opc, turn>>
  OBVIOUS
<1>2. HowManyStarted' = HowManyStarted
  BY <1>1 DEF HowManyStarted
<1>3. TypeOK'
  BY <1>1 DEF TypeOK, PC
<1>4. ASSUME NEW j \in Thread, j # i
      PROVE  ThreadInv(j)'
  <2>1. /\ ThreadInv(j)
        /\ exists'[j] = exists[j] /\ loop_'[j] = loop_[j]
        /\ quit_'[j] = quit_[j] /\ pc'[j] = pc[j]
    BY <1>4 DEF TypeOK
  <2>. QED
    BY <1>1, <2>1 DEF ThreadInv, Started, NotStarted, Quitted
<1>5. ThreadInv(i)'
  <2>1. ThreadInv(i)
    OBVIOUS
  <2>2. /\ NotStarted(i)' <=> NotStarted(i)
        /\ Started(i)' <=> Started(i)
        /\ Quitted(i)' <=> Quitted(i)
    BY <1>1 DEF Started, NotStarted, Quitted
  <2>. QED
    BY <2>1, <2>2 DEF ThreadInv, TypeOK
<1>. QED
  BY <1>1, <1>2, <1>3, <1>4, <1>5

(* start() and ~EventLoopThreadPool keep PoolInv: startLoop() returns when loop_
   is set, and the threads are destroyed in order. *)
LEMMA OwnerKeepsPoolInv ==
    ASSUME PoolInv, OwnerStep \/ Destroy
    PROVE  PoolInv'
<1> USE EventLoopThreadPoolAssumption DEF PoolInv, pool, owner, Thread
<1>1. CASE StartThread
  <2>1. TypeOK' /\ HowManyStarted' = HowManyStarted
    BY <1>1 DEF StartThread, TypeOK, HowManyStarted, PC
  <2>2. \A i \in Thread : ThreadInv(i)'
    BY <1>1 DEF StartThread, TypeOK, ThreadInv, Started, NotStarted, Quitted
  <2>. QED
    BY <1>1, <2>1, <2>2 DEF StartThread
<1>2. CASE LoopPublished
  <2>1. /\ HowManyStarted = turn - 1 /\ HowManyStarted' = turn
        /\ turn \in 1 .. numThreads_
    BY <1>2 DEF LoopPublished, HowManyStarted, TypeOK
  <2>2. /\ loops_' = [n \in 1 .. turn |-> n]
        /\ loops_' \in Seq(Thread) /\ Len(loops_') = turn /\ Len(loops_) = turn - 1
    <3>1. turn - 1 \in Nat /\ turn \in Nat /\ turn <= numThreads_ /\ turn - 1 < numThreads_
      BY <2>1
    <3>2. loops_' = Append(loops_, turn)
      BY <1>2 DEF LoopPublished
    <3>. QED
      BY <2>1, <3>1, <3>2, FirstLoops
  <2>3. TypeOK'
    BY <1>2, <2>1, <2>2 DEF LoopPublished, TypeOK
  <2>4. ASSUME NEW i \in Thread
        PROVE  ThreadInv(i)'
    <3>1. ThreadInv(i) /\ ThreadInv(turn) /\ loop_[turn] /\ opc = "wait" /\ turn \in Nat
      BY <1>2 DEF LoopPublished, TypeOK
    <3>2. i \in 1 .. numThreads_ /\ UNCHANGED <<exists, loop_, pc, quit_>>
      BY <1>2 DEF LoopPublished
    <3>3. ~ Quitted(i) /\ ~ Quitted(turn)
      BY <3>1 DEF Quitted
    <3>4. NotStarted(i)' => NotStarted(i)
      BY <1>2, <2>1, <3>1, <3>2 DEF LoopPublished, NotStarted
    <3>5. Started(i)' => Started(i) \/ i = turn
      BY <1>2, <2>1, <3>1, <3>2 DEF LoopPublished, Started
    <3>6. pc[turn] \notin {"none", "create", "publish"}
      BY <3>1 DEF ThreadInv
    <3>. QED
      BY <3>1, <3>2, <3>3, <3>4, <3>5, <3>6 DEF ThreadInv
  <2>. QED
    BY <1>2, <2>1, <2>2, <2>3, <2>4 DEF LoopPublished
<1>3. CASE ReadLoop \/ Quit \/ Wakeup \/ Join \/ Destroy
  <2>1. opc \notin {"start", "wait"} /\ opc' \notin {"start", "wait", "up"}
    BY <1>3 DEF ReadLoop, Quit, Wakeup, Join, Destroy, NextToDestroy
  <2>2. UNCHANGED <<loops_, next_>> /\ HowManyStarted' = HowManyStarted
    BY <1>3, <2>1 DEF ReadLoop, Quit, Wakeup, Join, Destroy, NextToDestroy, HowManyStarted
  <2>3. TypeOK'
    <3>1. NextToDestroy => turn' \in Thread /\ opc' \in {"read", "gone"}
      BY DEF NextToDestroy, TypeOK
    <3>2. turn' \in Thread /\ opc' \in {"read", "quit", "wakeup", "join", "gone"}
      BY <1>3, <3>1 DEF ReadLoop, Quit, Wakeup, Join, Destroy, TypeOK
    <3>3. UNCHANGED <<exists, loop_, pc>>
      BY <1>3 DEF ReadLoop, Quit, Wakeup, Join, Destroy
    <3>4. quit_' \in [Thread -> BOOLEAN] /\ woken' \in [Thread -> BOOLEAN]
      BY <1>3 DEF ReadLoop, Quit, Wakeup, Join, Destroy, TypeOK
    <3>. QED
      BY <2>2, <3>2, <3>3, <3>4 DEF TypeOK
  <2>4. ASSUME NEW i \in Thread
        PROVE  ThreadInv(i)'
    <3>1. ThreadInv(i) /\ ThreadInv(turn) /\ turn \in 1 .. numThreads_
      BY DEF TypeOK
    <3>2. ~ NotStarted(i)' /\ Started(i) /\ UNCHANGED <<exists, loop_, pc>>
      BY <1>3, <2>1 DEF NotStarted, Started, ReadLoop, Quit, Wakeup, Join, Destroy
    <3>3. Quitted(i) => Quitted(i)'
      BY <1>3, <3>1 DEF ReadLoop, Quit, Wakeup, Join, Destroy, NextToDestroy, Quitted,
                 ThreadInv, Started
    <3>4. quit_'[i] => quit_[i] \/ Quitted(i)'
      BY <1>3, <3>1 DEF ReadLoop, Quit, Wakeup, Join, Destroy, NextToDestroy, Quitted, TypeOK
    <3>. QED
      BY <3>1, <3>2, <3>3, <3>4 DEF ThreadInv
  <2>. QED
    BY <2>2, <2>3, <2>4
<1>. QED
  BY <1>1, <1>2, <1>3 DEF OwnerStep

(* Calls that only hand out a loop or wake it keep PoolInv. *)
LEMMA CallsKeepPoolInv ==
    ASSUME PoolInv, UNCHANGED <<loops_, owner, loop_, exists, quit_, pc>>,
           woken' \in [Thread -> BOOLEAN],
           UNCHANGED next_ \/ (GetNextLoop /\ opc = "up")
    PROVE  PoolInv'
<1>1. next_' \in Nat /\ next_' < numThreads_ /\ (next_' = 0 \/ next_' < Len(loops_))
  <2>1. CASE opc = "up" /\ GetNextLoop
    <3>1. Len(loops_) = numThreads_ /\ numThreads_ \in Nat /\ numThreads_ > 0
      BY <2>1, LoopsOfPool, EventLoopThreadPoolAssumption DEF HowManyStarted
    <3>2. next_' = IF next_ + 1 >= numThreads_ THEN 0 ELSE next_ + 1
      BY <2>1, <3>1 DEF GetNextLoop, NextIndex
    <3>. QED
      BY <3>1, <3>2, LoopsOfPool
  <2>. QED
    BY <2>1, LoopsOfPool
<1>2. TypeOK'
  <2>1. next_' = 0 \/ next_' \in 0 .. Len(loops_) - 1
    BY <1>1, LoopsOfPool, EventLoopThreadPoolAssumption
  <2>. QED
    BY <2>1 DEF PoolInv, TypeOK, owner
<1>3. HowManyStarted' = HowManyStarted /\ \A i \in Thread : ThreadInv(i)'
  BY DEF PoolInv, HowManyStarted, ThreadInv, Started, NotStarted, Quitted, owner
<1>. QED
  BY <1>1, <1>2, <1>3 DEF PoolInv

(* Once the pool is up loops_ has a loop for every thread, and the next one to
   be handed out is that of thread next_ + 1. *)
LEMMA LoopsWhenUp ==
    ASSUME PoolInv, opc = "up"
    PROVE  /\ next_ \in 0 .. numThreads_ - 1
           /\ NextLoop = next_ + 1
           /\ NextIndex = IF next_ + 1 = numThreads_ THEN 0 ELSE next_ + 1
           /\ \A i \in Thread : exists[i]
<1>1. next_ \in 0 .. numThreads_ - 1
  BY EventLoopThreadPoolAssumption DEF PoolInv, TypeOK
<1>2. NextLoop = next_ + 1 /\ NextIndex = IF next_ + 1 = numThreads_ THEN 0 ELSE next_ + 1
  BY <1>1, LoopsOfPool, EventLoopThreadPoolAssumption DEF NextLoop, NextIndex, HowManyStarted
<1>3. \A i \in Thread : exists[i]
  BY DEF PoolInv, TypeOK, PC, ThreadInv, Started, Quitted
<1>. QED
  BY <1>1, <1>2, <1>3

(* In every state with PoolInv the loops the pool hands out exist, and so do
   those its destructor has still to quit. *)
LEMMA PoolInvShows == PoolInv => TypeOK /\ LoopsExist /\ LoopsExistToQuit
<1>1. SUFFICES ASSUME PoolInv PROVE TypeOK /\ LoopsExist /\ LoopsExistToQuit
  OBVIOUS
<1>2. LoopsExist
  <2>1. SUFFICES ASSUME opc \in {"start", "wait", "up"}, NEW n \in 1 .. Len(loops_)
                 PROVE  exists[loops_[n]]
    BY DEF LoopsExist
  <2>2. loops_[n] = n /\ n \in 1 .. HowManyStarted /\ n \in Thread /\ turn \in Thread
    <3>1. loops_[n] = n /\ n \in 1 .. HowManyStarted /\ HowManyStarted \in 0 .. numThreads_
      BY <1>1, <2>1, LoopsOfPool
    <3>. QED
      BY <1>1, <3>1, EventLoopThreadPoolAssumption DEF Thread, PoolInv, TypeOK
  <2>3. Started(n) /\ ~Quitted(n)
    BY <2>1, <2>2, EventLoopThreadPoolAssumption DEF HowManyStarted, Started, Quitted, Thread
  <2>. QED
    BY <1>1, <2>2, <2>3 DEF PoolInv, ThreadInv, TypeOK, PC
<1>3. LoopsExistToQuit
  <2>1. SUFFICES ASSUME NEW i \in NotQuit PROVE exists[i] /\ loop_[i]
    BY DEF LoopsExistToQuit
  <2>2. i \in Thread /\ turn \in Thread /\ Started(i) /\ ~Quitted(i)
    BY <1>1, <2>1, EventLoopThreadPoolAssumption
    DEF PoolInv, TypeOK, NotQuit, Started, Quitted, Thread
  <2>. QED
    BY <1>1, <2>1, <2>2, EventLoopThreadPoolAssumption
    DEF PoolInv, TypeOK, PC, ThreadInv, NotQuit, Started, Quitted, Thread
<1>. QED
  BY <1>1, <1>2, <1>3 DEF PoolInv

-----------------------------------------------------------------------------
(* Sequences of calls without repetition.                                  *)

(* What a sequence without repetitions is. *)
LEMMA OnceInSeq ==
    ASSUME NEW T, NEW s \in Seq(T)
    PROVE  /\ IsInjective(s) <=> \A m, n \in 1 .. Len(s) : s[m] = s[n] => m = n
           /\ Range(s) = {s[n] : n \in 1 .. Len(s)}
           /\ Range(s) \subseteq T
BY DEF IsInjective, Range

(* queueInLoop() of what is not yet queued. *)
LEMMA AppendOnce ==
    ASSUME NEW T, NEW s \in Seq(T), NEW e \in T
    PROVE  /\ Append(s, e) \in Seq(T)
           /\ Range(Append(s, e)) = Range(s) \cup {e}
           /\ IsInjective(s) /\ e \notin Range(s) => IsInjective(Append(s, e))
<1>1. /\ Append(s, e) \in Seq(T) /\ Len(Append(s, e)) = Len(s) + 1 /\ Len(s) \in Nat
      /\ \A n \in 1 .. Len(s) : Append(s, e)[n] = s[n]
      /\ Append(s, e)[Len(s) + 1] = e
  OBVIOUS
<1> DEFINE t == Append(s, e)
<1> HIDE DEF t
<1>2. Range(t) = Range(s) \cup {e}
  <2>1. Range(t) = {t[n] : n \in 1 .. Len(t)} /\ Range(s) = {s[n] : n \in 1 .. Len(s)}
    BY <1>1, OnceInSeq DEF t
  <2>2. 1 .. Len(t) = 1 .. Len(s) \cup {Len(s) + 1}
    BY <1>1 DEF t
  <2>. QED
    BY <1>1, <2>1, <2>2 DEF t
<1>3. ASSUME IsInjective(s), e \notin Range(s)
      PROVE  IsInjective(t)
  <2>1. SUFFICES ASSUME NEW m \in 1 .. Len(t), NEW n \in 1 .. Len(t), t[m] = t[n]
                 PROVE  m = n
    BY <1>1, OnceInSeq DEF t
  <2>2. \A k \in 1 .. Len(s) : s[k] # e
    BY <1>3, OnceInSeq
  <2>3. \A k \in 1 .. Len(t) : (k \in 1 .. Len(s) /\ t[k] = s[k]) \/ (k = Len(s) + 1 /\ t[k] = e)
    BY <1>1 DEF t
  <2>. QED
    BY <1>3, <2>1, <2>2, <2>3, OnceInSeq
<1>. QED
  BY <1>1, <1>2, <1>3 DEF t

(* doPendingFunctors() runs a queue behind what has run. *)
LEMMA ConcatOnce ==
    ASSUME NEW T, NEW s \in Seq(T), NEW t \in Seq(T)
    PROVE  /\ s \o t \in Seq(T)
           /\ Range(s \o t) = Range(s) \cup Range(t)
           /\ IsInjective(s) /\ IsInjective(t) /\ Range(s) \cap Range(t) = {} => IsInjective(s \o t)
<1> DEFINE u == s \o t
<1>1. /\ u \in Seq(T) /\ Len(u) = Len(s) + Len(t) /\ Len(s) \in Nat /\ Len(t) \in Nat
      /\ \A n \in 1 .. Len(s) + Len(t) : u[n] = IF n <= Len(s) THEN s[n] ELSE t[n - Len(s)]
  BY ConcatProperties
<1> HIDE DEF u
<1>2. /\ \A n \in 1 .. Len(s) : n \in 1 .. Len(u) /\ u[n] = s[n]
      /\ \A n \in 1 .. Len(t) : Len(s) + n \in 1 .. Len(u) /\ u[Len(s) + n] = t[n]
      /\ \A n \in 1 .. Len(u) :
            \/ n \in 1 .. Len(s)
            \/ n - Len(s) \in 1 .. Len(t) /\ u[n] = t[n - Len(s)]
  <2>1. \A n \in 1 .. Len(s) : n \in 1 .. Len(u) /\ u[n] = s[n]
    BY <1>1
  <2>2. \A n \in 1 .. Len(t) : Len(s) + n \in 1 .. Len(u) /\ u[Len(s) + n] = t[n]
    <3>1. SUFFICES ASSUME NEW n \in 1 .. Len(t)
                   PROVE  Len(s) + n \in 1 .. Len(u) /\ u[Len(s) + n] = t[n]
      OBVIOUS
    <3>2. Len(s) + n \in 1 .. Len(s) + Len(t) /\ ~ (Len(s) + n <= Len(s)) /\ Len(s) + n - Len(s) = n
      BY <1>1
    <3>. QED
      BY <1>1, <3>2
  <2>3. ASSUME NEW n \in 1 .. Len(u)
        PROVE  \/ n \in 1 .. Len(s)
               \/ n - Len(s) \in 1 .. Len(t) /\ u[n] = t[n - Len(s)]
    BY <1>1
  <2>. QED
    BY <2>1, <2>2, <2>3
<1>3. /\ Range(u) = {u[n] : n \in 1 .. Len(u)}
      /\ Range(s) = {s[n] : n \in 1 .. Len(s)}
      /\ Range(t) = {t[n] : n \in 1 .. Len(t)}
  <2>1. Range(u) = {u[n] : n \in 1 .. Len(u)}
    BY <1>1, OnceInSeq
  <2>. QED
    BY <2>1, OnceInSeq
<1>4. Range(u) = Range(s) \cup Range(t)
  <2>1. Range(u) \subseteq Range(s) \cup Range(t)
    BY <1>2, <1>3
  <2>2. Range(s) \cup Range(t) \subseteq Range(u)
    BY <1>2, <1>3
  <2>. QED
    BY <2>1, <2>2
<1>5. ASSUME IsInjective(s), IsInjective(t), Range(s) \cap Range(t) = {}
      PROVE  IsInjective(u)
  <2>1. SUFFICES ASSUME NEW m \in 1 .. Len(u), NEW n \in 1 .. Len(u), u[m] = u[n]
                 PROVE  m = n
    BY <1>1, OnceInSeq
  <2>2. \A i \in 1 .. Len(s), j \in 1 .. Len(t) : s[i] # t[j]
    BY <1>3, <1>5
  <2>3. \A i, j \in 1 .. Len(s) : s[i] = s[j] => i = j
    BY <1>5, OnceInSeq
  <2>4. \A i, j \in 1 .. Len(t) : t[i] = t[j] => i = j
    BY <1>5, OnceInSeq
  <2>5. CASE m \in 1 .. Len(s) /\ n \in 1 .. Len(s)
    BY <1>2, <2>1, <2>3, <2>5
  <2>6. CASE m \in 1 .. Len(s) /\ n \notin 1 .. Len(s)
    BY <1>2, <2>1, <2>2, <2>6
  <2>7. CASE m \notin 1 .. Len(s) /\ n \in 1 .. Len(s)
    BY <1>2, <2>1, <2>2, <2>7
  <2>8. CASE m \notin 1 .. Len(s) /\ n \notin 1 .. Len(s)
    <3>1. m - Len(s) \in 1 .. Len(t) /\ n - Len(s) \in 1 .. Len(t) /\ t[m - Len(s)] = t[n - Len(s)]
      BY <1>2, <2>1, <2>8
    <3>2. m - Len(s) = n - Len(s)
      BY <2>4, <3>1
    <3>. QED
      BY <1>1, <3>2
  <2>. QED
    BY <2>5, <2>6, <2>7, <2>8
<1>. QED
  BY <1>1, <1>4, <1>5 DEF u

(* Taking the first of a queue. *)
LEMMA TailOnce ==
    ASSUME NEW T, NEW s \in Seq(T), s # <<>>, IsInjective(s)
    PROVE  /\ Tail(s) \in Seq(T) /\ IsInjective(Tail(s))
           /\ Head(s) \in Range(s)
           /\ Range(Tail(s)) = Range(s) \ {Head(s)}
<1> DEFINE t == Tail(s)
<1>1. /\ t \in Seq(T) /\ Len(s) \in Nat \ {0} /\ Len(t) = Len(s) - 1 /\ Head(s) = s[1]
      /\ \A n \in 1 .. Len(t) : t[n] = s[n + 1]
  BY HeadTailProperties, EmptySeq, LenProperties
<1> HIDE DEF t
<1>2. \A m, n \in 1 .. Len(s) : s[m] = s[n] => m = n
  BY OnceInSeq
<1>3. \A m, n \in 1 .. Len(t) : t[m] = t[n] => m = n
  <2>1. SUFFICES ASSUME NEW m \in 1 .. Len(t), NEW n \in 1 .. Len(t), t[m] = t[n]
                 PROVE  m = n
    OBVIOUS
  <2>2. m + 1 \in 1 .. Len(s) /\ n + 1 \in 1 .. Len(s) /\ s[m + 1] = s[n + 1]
    BY <1>1, <2>1
  <2>3. m + 1 = n + 1
    BY <1>2, <2>2
  <2>. QED
    BY <2>3
<1>4. Range(t) = {t[n] : n \in 1 .. Len(t)} /\ Range(s) = {s[n] : n \in 1 .. Len(s)}
  BY <1>1, OnceInSeq
<1>5. \A n \in 1 .. Len(t) : n + 1 \in 1 .. Len(s) /\ t[n] = s[n + 1] /\ s[n + 1] # s[1]
  <2>1. SUFFICES ASSUME NEW n \in 1 .. Len(t)
                 PROVE  n + 1 \in 1 .. Len(s) /\ t[n] = s[n + 1] /\ s[n + 1] # s[1]
    OBVIOUS
  <2>2. n + 1 \in 1 .. Len(s) /\ 1 \in 1 .. Len(s) /\ n + 1 # 1
    BY <1>1
  <2>. QED
    BY <1>1, <1>2, <2>2
<1>6. \A n \in 1 .. Len(s) : s[n] # s[1] => n - 1 \in 1 .. Len(t) /\ t[n - 1] = s[n]
  BY <1>1
<1>7. Range(t) = Range(s) \ {s[1]}
  <2>1. Range(t) \subseteq Range(s) \ {s[1]}
    BY <1>4, <1>5
  <2>2. Range(s) \ {s[1]} \subseteq Range(t)
    BY <1>4, <1>6
  <2>. QED
    BY <2>1, <2>2
<1>8. s[1] \in Range(s)
  BY <1>1, <1>4
<1>. QED
  BY <1>1, <1>3, <1>7, <1>8, OnceInSeq DEF t

-----------------------------------------------------------------------------
(* connectEstablished() before connectDestroyed().                         *)

(* More that has run before does no harm. *)
LEMMA InOrderMonotonic ==
    ASSUME NEW s, NEW before, NEW more, InOrder(s, before), before \subseteq more
    PROVE  InOrder(s, more)
BY DEF InOrder

(* Calls of two connections, and the two calls of one, differ. *)
LEMMA CallsDiffer ==
    /\ \A c \in Nat : Established(c) \in Call /\ Destroyed(c) \in Call
    /\ \A e \in Call : \E c \in Nat : e = Established(c) \/ e = Destroyed(c)
    /\ \A c, d \in Nat : Established(c) # Destroyed(d)
    /\ \A c, d \in Nat : Established(c) = Established(d) => c = d
    /\ \A c, d \in Nat : Destroyed(c) = Destroyed(d) => c = d
BY DEF Call, Established, Destroyed

(* A call is queued in order: connectDestroyed() behind connectEstablished(). *)
LEMMA AppendInOrder ==
    ASSUME NEW s \in Seq(Call), NEW e \in Call, NEW before, InOrder(s, before),
           \A c \in Nat : e = Destroyed(c) => Established(c) \in before \cup Range(s)
    PROVE  InOrder(Append(s, e), before)
<1> DEFINE t == Append(s, e)
<1>1. /\ Len(t) = Len(s) + 1 /\ Len(s) \in Nat
      /\ \A n \in 1 .. Len(s) : t[n] = s[n]
      /\ t[Len(s) + 1] = e
  OBVIOUS
<1> HIDE DEF t
<1>2. SUFFICES ASSUME NEW n \in 1 .. Len(t), NEW c \in Nat, t[n] = Destroyed(c),
                      Established(c) \notin before
               PROVE  \E m \in 1 .. n - 1 : t[m] = Established(c)
  BY DEF InOrder, t
<1>3. CASE n \in 1 .. Len(s)
  <2>1. PICK m \in 1 .. n - 1 : s[m] = Established(c)
    BY <1>1, <1>2, <1>3 DEF InOrder
  <2>. QED
    BY <1>1, <1>3, <2>1
<1>4. CASE n = Len(s) + 1
  <2>1. Established(c) \in Range(s)
    BY <1>1, <1>2, <1>4
  <2>2. PICK m \in 1 .. Len(s) : s[m] = Established(c)
    BY <2>1, OnceInSeq
  <2>. QED
    BY <1>1, <1>4, <2>2
<1>. QED
  BY <1>1, <1>3, <1>4

(* A queue in order runs in order behind what has run. *)
LEMMA ConcatInOrder ==
    ASSUME NEW s \in Seq(Call), NEW t \in Seq(Call), InOrder(s, {}), InOrder(t, Range(s))
    PROVE  InOrder(s \o t, {})
<1> DEFINE u == s \o t
<1>1. /\ Len(u) = Len(s) + Len(t) /\ Len(s) \in Nat /\ Len(t) \in Nat
      /\ \A n \in 1 .. Len(s) + Len(t) : u[n] = IF n <= Len(s) THEN s[n] ELSE t[n - Len(s)]
  BY ConcatProperties
<1> HIDE DEF u
<1>2. SUFFICES ASSUME NEW n \in 1 .. Len(u), NEW c \in Nat, u[n] = Destroyed(c)
               PROVE  \E m \in 1 .. n - 1 : u[m] = Established(c)
  BY DEF InOrder, u
<1>3. CASE n <= Len(s)
  <2>1. n \in 1 .. Len(s) /\ s[n] = Destroyed(c)
    BY <1>1, <1>2, <1>3
  <2>2. PICK m \in 1 .. n - 1 : s[m] = Established(c)
    BY <2>1 DEF InOrder
  <2>3. m \in 1 .. n - 1 /\ u[m] = s[m]
    BY <1>1, <1>3, <2>1
  <2>. QED
    BY <2>2, <2>3
<1>4. CASE n > Len(s)
  <2>1. n - Len(s) \in 1 .. Len(t) /\ t[n - Len(s)] = Destroyed(c)
    BY <1>1, <1>2, <1>4
  <2>2. CASE Established(c) \in Range(s)
    <3>1. PICK m \in 1 .. Len(s) : s[m] = Established(c)
      BY <2>2, OnceInSeq
    <3>2. m \in 1 .. n - 1 /\ u[m] = s[m]
      BY <1>1, <1>4
    <3>. QED
      BY <3>1, <3>2
  <2>3. CASE \E m \in 1 .. (n - Len(s)) - 1 : t[m] = Established(c)
    <3>1. PICK m \in 1 .. (n - Len(s)) - 1 : t[m] = Established(c)
      BY <2>3
    <3>2. /\ Len(s) + m \in 1 .. n - 1 /\ Len(s) + m \in 1 .. Len(s) + Len(t)
          /\ ~ (Len(s) + m <= Len(s)) /\ Len(s) + m - Len(s) = m
      BY <1>1, <1>4
    <3>3. u[Len(s) + m] = t[m]
      BY <1>1, <3>2
    <3>. QED
      BY <3>1, <3>2, <3>3
  <2>. QED
    BY <2>1, <2>2, <2>3 DEF InOrder
<1>. QED
  BY <1>1, <1>3, <1>4

-----------------------------------------------------------------------------
(* The queues of the loops.                                                *)

(* queueInLoop() of a call nobody has asked for keeps the queues in order. *)
LEMMA QueueKeepsQueuesInv ==
    ASSUME QueuesInv, RegistryInv, NEW i \in Thread, NEW e \in Call, Queue(i, e), exists[i],
           UNCHANGED <<calls, exists>>, e \notin Range(calls) \cup Range(functors[i]),
           Len(ioLoop) <= Len(ioLoop'), Len(ioLoop') \in Nat,
           \A c \in Conn : ioLoop'[c] = ioLoop[c],
           \A c \in Nat : e = Established(c) \/ e = Destroyed(c) =>
               c \in Conn' /\ ioLoop'[c] = i,
           \A c \in Nat : e = Destroyed(c) =>
               Established(c) \in Range(calls) \cup Range(functors[i])
    PROVE  QueuesInv'
<1>1. /\ functors[i] \in Seq(Call) /\ functors' \in [Thread -> Seq(Call)]
      /\ functors'[i] = Append(functors[i], e)
      /\ \A j \in Thread \ {i} : functors'[j] = functors[j]
      /\ UNCHANGED Range(calls)
  BY DEF QueuesInv, Queue
<1>2. Conn \subseteq Conn'
  <2>1. Len(ioLoop) \in Nat
    BY DEF RegistryInv
  <2>. QED
    BY <2>1 DEF Conn
<1>3. ASSUME NEW j \in Thread, j # i
      PROVE  QueueInv(j)'
  <2>1. QueueInv(j) /\ functors'[j] = functors[j]
    BY <1>1, <1>3 DEF QueuesInv
  <2>. QED
    BY <1>1, <1>2, <2>1 DEF QueueInv, About
<1>4. QueueInv(i)'
  <2>1. QueueInv(i)
    BY DEF QueuesInv
  <2>2. /\ Range(functors'[i]) = Range(functors[i]) \cup {e}
        /\ IsInjective(functors'[i])
    BY <1>1, <2>1, AppendOnce DEF QueueInv
  <2>3. InOrder(functors'[i], Range(calls)')
    BY <1>1, <2>1, AppendInOrder DEF QueueInv
  <2>4. Range(functors'[i]) \cap Range(calls)' = {}
    BY <1>1, <2>1, <2>2 DEF QueueInv
  <2>5. \A c \in Nat : About(c, functors'[i]) => c \in Conn' /\ ioLoop'[c] = i
    BY <1>2, <2>1, <2>2 DEF QueueInv, About
  <2>. QED
    BY <2>2, <2>3, <2>4, <2>5 DEF QueueInv
<1>5. \A c \in Nat : About(c, calls)' => c \in Conn'
  BY <1>1, <1>2 DEF QueuesInv, About
<1>. QED
  BY <1>1, <1>3, <1>4, <1>5 DEF QueuesInv

(* doPendingFunctors() runs the calls of a loop in their order. *)
LEMMA RunKeepsQueuesInv ==
    ASSUME QueuesInv, NEW i \in Thread, RunFunctors(i), UNCHANGED <<ioLoop, exists>>
    PROVE  /\ QueuesInv'
           /\ Range(calls') = Range(calls) \cup Range(functors[i])
           /\ functors'[i] = <<>>
           /\ \A j \in Thread \ {i} : functors'[j] = functors[j]
<1>1. /\ calls \in Seq(Call) /\ functors[i] \in Seq(Call) /\ QueueInv(i)
      /\ calls' = calls \o functors[i]
      /\ functors' \in [Thread -> Seq(Call)] /\ functors'[i] = <<>>
      /\ \A j \in Thread \ {i} : functors'[j] = functors[j]
      /\ UNCHANGED Conn
  BY DEF QueuesInv, RunFunctors, Conn
<1>2. /\ calls' \in Seq(Call) /\ IsInjective(calls')
      /\ Range(calls') = Range(calls) \cup Range(functors[i])
  BY <1>1, ConcatOnce DEF QueuesInv, QueueInv
<1>3. InOrder(calls', {})
  BY <1>1, ConcatInOrder DEF QueuesInv, QueueInv
<1>4. \A c \in Nat : About(c, calls') => c \in Conn'
  BY <1>1, <1>2 DEF QueuesInv, QueueInv, About
<1>5. ASSUME NEW j \in Thread, j # i
      PROVE  QueueInv(j)'
  <2>1. QueueInv(j) /\ functors'[j] = functors[j] /\ functors[j] \in Seq(Call)
    BY <1>1, <1>5 DEF QueuesInv
  <2>2. Range(functors[j]) \cap Range(functors[i]) = {}
    <3>1. SUFFICES ASSUME NEW e \in Range(functors[j]), e \in Range(functors[i])
                   PROVE  FALSE
      OBVIOUS
    <3>2. PICK c \in Nat : e = Established(c) \/ e = Destroyed(c)
      BY <2>1, CallsDiffer, OnceInSeq
    <3>3. About(c, functors[i]) /\ About(c, functors[j])
      BY <3>1, <3>2 DEF About
    <3>4. ioLoop[c] = i /\ ioLoop[c] = j
      BY <1>1, <2>1, <3>3, Zenon DEF QueueInv
    <3>. QED
      BY <1>5, <3>4
  <2>3. InOrder(functors[j], Range(calls'))
    BY <1>2, <2>1, InOrderMonotonic DEF QueueInv
  <2>. QED
    BY <1>1, <1>2, <2>1, <2>2, <2>3 DEF QueueInv, About
<1>6. QueueInv(i)'
  BY <1>1, EmptySeq DEF QueueInv, InOrder, About, IsInjective, Range
<1>. QED
  BY <1>1, <1>2, <1>3, <1>4, <1>5, <1>6 DEF QueuesInv

(* ~EventLoop drops what is queued. *)
LEMMA DropKeepsQueuesInv ==
    ASSUME QueuesInv, NEW i \in Thread, functors' = [functors EXCEPT ![i] = <<>>],
           UNCHANGED <<ioLoop, calls>>, \A j \in Thread \ {i} : exists'[j] = exists[j]
    PROVE  QueuesInv'
<1>1. /\ functors' \in [Thread -> Seq(Call)] /\ functors'[i] = <<>>
      /\ \A j \in Thread \ {i} : functors'[j] = functors[j]
      /\ UNCHANGED Conn
  BY DEF QueuesInv, Conn
<1>2. ASSUME NEW j \in Thread, j # i
      PROVE  QueueInv(j)'
  <2>1. QueueInv(j) /\ functors'[j] = functors[j] /\ exists'[j] = exists[j]
    BY <1>1, <1>2 DEF QueuesInv
  <2>. QED
    BY <1>1, <2>1 DEF QueueInv, About
<1>3. QueueInv(i)'
  BY <1>1, EmptySeq DEF QueueInv, InOrder, About, IsInjective, Range
<1>. QED
  BY <1>1, <1>2, <1>3 DEF QueuesInv, About

(* A step that queues and runs nothing. *)
LEMMA StillKeepsQueuesInv ==
    ASSUME QueuesInv, UNCHANGED <<ioLoop, calls, functors>>,
           \A j \in Thread : exists[j] => exists'[j]
    PROVE  QueuesInv'
BY DEF QueuesInv, QueueInv, About, Conn

-----------------------------------------------------------------------------
(* The map and the loops' shares.                                          *)

(* The registry at the start. *)
LEMMA InitServerInv == ServerInit => ServerInv
<1>1. SUFFICES ASSUME ServerInit PROVE ServerInv
  OBVIOUS
<1>2. PoolInv /\ ListenInv
  BY <1>1, InitPoolInv DEF ServerInit, ListenInv
<1>3. Len(ioLoop) = 0 /\ Conn = {} /\ 1 .. 0 = {}
  BY <1>1, EmptySeq DEF ServerInit, Conn
<1>4. RegistryInv
  <2>1. names = [c \in Conn |-> c] /\ DOMAIN connections_ = {} /\ Range(baseFunctors) = {}
    BY <1>1, <1>3 DEF ServerInit, Range
  <2>. QED
    BY <1>1, <1>3, <2>1, EmptySeq DEF ServerInit, RegistryInv, IsInjective
<1>5. QueuesInv
  BY <1>1, EmptySeq DEF ServerInit, QueuesInv, QueueInv, InOrder, About, IsInjective, Range
<1>6. MapInv
  BY <1>1 DEF ServerInit, MapInv
<1>7. TurnsInv
  <2>1. \A i \in Thread : Given(i) = 0
    BY <1>3, FS_EmptySet DEF Given
  <2>2. \A i \in Thread : ~ (i <= next_)
    BY <1>1 DEF ServerInit, Init, Thread
  <2>. QED
    BY <2>1, <2>2 DEF TurnsInv
<1>. QED
  BY <1>2, <1>4, <1>5, <1>6, <1>7 DEF ServerInv

(* A connection more counts for its own loop alone. *)
LEMMA GivenOneMore ==
    ASSUME ioLoop \in Seq(Thread), NEW i \in Thread, ioLoop' = Append(ioLoop, i)
    PROVE  \A t \in Thread : /\ Given(t) \in Nat
                             /\ Given(t)' = IF t = i THEN Given(t) + 1 ELSE Given(t)
<1>1. /\ Len(ioLoop) \in Nat /\ Len(ioLoop') = Len(ioLoop) + 1
      /\ \A c \in Conn : ioLoop'[c] = ioLoop[c]
      /\ ioLoop'[Len(ioLoop) + 1] = i
      /\ Conn' = Conn \cup {Len(ioLoop) + 1}
      /\ Len(ioLoop) + 1 \notin Conn
  BY DEF Conn
<1>2. SUFFICES ASSUME NEW t \in Thread
               PROVE  /\ Given(t) \in Nat
                      /\ Given(t)' = IF t = i THEN Given(t) + 1 ELSE Given(t)
  OBVIOUS
<1> DEFINE S == {c \in Conn : ioLoop[c] = t}
           n == Len(ioLoop) + 1
<1>3. IsFiniteSet(S)
  <2>1. IsFiniteSet(Conn)
    BY <1>1, FS_Interval DEF Conn
  <2>. QED
    BY <2>1, FS_Subset
<1>4. Cardinality(S) \in Nat
  BY <1>3, FS_CardinalityType
<1>5. S' = IF t = i THEN S \cup {n} ELSE S
  BY <1>1
<1>6. n \notin S
  BY <1>1
<1>7. Cardinality(S \cup {n}) = Cardinality(S) + 1
  BY <1>3, <1>6, FS_AddElement
<1> HIDE DEF S, n
<1>8. Given(t) = Cardinality(S) /\ Given(t)' = Cardinality(S')
  BY DEF Given, S
<1>. QED
  BY <1>4, <1>5, <1>7, <1>8

(* getNextLoop() keeps the shares of the loops even. *)
LEMMA AcceptKeepsTurns ==
    ASSUME PoolInv, TurnsInv, ioLoop \in Seq(Thread), opc = "up", GetNextLoop,
           ioLoop' = Append(ioLoop, NextLoop)
    PROVE  TurnsInv'
<1> DEFINE i == NextLoop
<1>1. /\ numThreads_ \in Nat /\ next_ \in 0 .. numThreads_ - 1 /\ i = next_ + 1 /\ i \in Thread
      /\ next_' = IF i = numThreads_ THEN 0 ELSE i
  BY LoopsWhenUp, EventLoopThreadPoolAssumption DEF GetNextLoop, Thread
<1> HIDE DEF i
<1>2. PICK k \in Nat : \A t \in Thread : Given(t) = IF t <= next_ THEN k + 1 ELSE k
  BY DEF TurnsInv
<1>3. \A t \in Thread : Given(t)' = IF t = i THEN Given(t) + 1 ELSE Given(t)
  BY <1>1, GivenOneMore DEF i
<1>4. \A t \in Thread : Given(t)' = IF t <= i THEN k + 1 ELSE k
  BY <1>1, <1>2, <1>3 DEF Thread
<1>5. CASE i = numThreads_
  <2>1. \A t \in Thread : Given(t)' = IF t <= next_' THEN k + 2 ELSE k + 1
    BY <1>1, <1>4, <1>5 DEF Thread
  <2>2. k + 1 \in Nat /\ \A t \in Thread : Given(t)' = IF t <= next_' THEN (k + 1) + 1 ELSE k + 1
    BY <2>1
  <2>. QED
    BY <2>2 DEF TurnsInv
<1>6. CASE i # numThreads_
  BY <1>1, <1>4, <1>6 DEF TurnsInv
<1>. QED
  BY <1>5, <1>6

(* Steps that give nothing to a loop. *)
LEMMA StillKeepsTurns == ASSUME TurnsInv, UNCHANGED <<ioLoop, next_>> PROVE TurnsInv'
BY DEF TurnsInv, Given, Conn

(* A step that leaves the registry alone. *)
LEMMA StillKeepsRegistry ==
    ASSUME RegistryInv, UNCHANGED <<server, baseFunctors, closed>>, ending => ending'
    PROVE  RegistryInv'
BY DEF RegistryInv, Conn, server

-----------------------------------------------------------------------------
(* The steps of TcpServer.                                                 *)

(* Accepting gives the next loop a connection with a new name. *)
LEMMA HandleReadKeepsInv == ServerInv /\ HandleRead => ServerInv'
<1>1. SUFFICES ASSUME ServerInv, HandleRead PROVE ServerInv'
  OBVIOUS
<1> DEFINE i == NextLoop
           c == Len(ioLoop) + 1
<1>2. /\ PoolInv /\ ListenInv /\ RegistryInv /\ QueuesInv /\ MapInv /\ TurnsInv
      /\ opc = "up" /\ ~ending /\ listenning_
      /\ UNCHANGED <<loops_, owner, loop_, exists, quit_, pc, kernel, baseFunctors,
                     calls, closed, ending>>
      /\ GetNextLoop
      /\ ioLoop' = Append(ioLoop, i)
      /\ names' = Append(names, nextConnId_)
      /\ connections_' = [id \in DOMAIN connections_ \cup {nextConnId_} |->
                               IF id = nextConnId_ THEN c ELSE connections_[id]]
      /\ nextConnId_' = nextConnId_ + 1
      /\ Queue(i, Established(c))
  BY <1>1 DEF ServerInv, HandleRead, NewConnection, NewName, BaseLoops
<1>3. i \in Thread /\ exists[i]
  BY <1>2, LoopsWhenUp, EventLoopThreadPoolAssumption DEF Thread
<1> HIDE DEF i
<1>4. /\ ioLoop \in Seq(Thread) /\ Len(ioLoop) \in Nat /\ nextConnId_ = c
      /\ ioLoop' \in Seq(Thread) /\ Len(ioLoop') = c
      /\ \A d \in Conn : ioLoop'[d] = ioLoop[d]
      /\ ioLoop'[c] = i
      /\ c \in Nat /\ c \notin Conn /\ Conn' = Conn \cup {c}
  BY <1>2, <1>3 DEF RegistryInv, Conn
<1> HIDE DEF c
<1>5. PoolInv'
  <2>1. woken' \in [Thread -> BOOLEAN]
    BY <1>2 DEF Queue, PoolInv, TypeOK
  <2>. QED
    BY <1>2, <2>1, CallsKeepPoolInv
<1>6. ListenInv'
  BY <1>2 DEF ListenInv, owner
<1>7. RegistryInv'
  <2>1. names' = [d \in Conn' |-> d]
    <3>1. names = [d \in 1 .. Len(ioLoop) |-> d] /\ Conn' = 1 .. c
      BY <1>2, <1>4 DEF RegistryInv, Conn
    <3>2. names \in Seq(Nat) /\ Len(names) = Len(ioLoop)
      BY <1>4, <3>1
    <3>3. /\ names' \in Seq(Nat) /\ Len(names') = c
          /\ \A d \in 1 .. c : names'[d] = d
      BY <1>2, <1>4, <3>1, <3>2 DEF c
    <3>4. [d \in 1 .. c |-> d] \in Seq(Nat) /\ Len([d \in 1 .. c |-> d]) = c
      BY <1>4
    <3>5. names' = [d \in 1 .. c |-> d]
      BY <3>3, <3>4, SeqEqual
    <3>. QED
      BY <3>1, <3>5
  <2>2. /\ DOMAIN connections_' = DOMAIN connections_ \cup {c}
        /\ \A id \in DOMAIN connections_' : connections_'[id] = id
    BY <1>2, <1>4 DEF RegistryInv
  <2>3. baseFunctors \in Seq(Conn')
    BY <1>2, <1>4, SeqMonotonic DEF RegistryInv
  <2>4. nextConnId_' = Len(ioLoop') + 1
    BY <1>2, <1>4
  <2>. QED
    BY <1>2, <1>4, <2>1, <2>2, <2>3, <2>4 DEF RegistryInv
<1>8. ~ About(c, calls) /\ \A j \in Thread : ~ About(c, functors[j])
  BY <1>2, <1>4 DEF QueuesInv, QueueInv
<1>9. QueuesInv'
  <2>1. Established(c) \in Call /\ Established(c) \notin Range(calls) \cup Range(functors[i])
    BY <1>3, <1>4, <1>8, CallsDiffer DEF About
  <2>2. \A d \in Nat : Established(c) = Established(d) \/ Established(c) = Destroyed(d) =>
            d \in Conn' /\ ioLoop'[d] = i
    BY <1>4, CallsDiffer
  <2>3. \A d \in Nat : Established(c) = Destroyed(d) =>
            Established(d) \in Range(calls) \cup Range(functors[i])
    BY <1>4, CallsDiffer
  <2>4. Len(ioLoop) <= Len(ioLoop') /\ Len(ioLoop') \in Nat
    BY <1>4 DEF c
  <2>. QED
    BY <1>2, <1>3, <1>4, <2>1, <2>2, <2>3, <2>4, QueueKeepsQueuesInv
<1>10. MapInv'
  <2>1. SUFFICES ASSUME NEW d \in DOMAIN connections_ \cup {c}
                 PROVE  /\ Destroyed(d) \notin Range(calls) \cup Range(functors'[ioLoop'[d]])
                        /\ Established(d) \in Range(calls) \cup Range(functors'[ioLoop'[d]])
    BY <1>2, <1>4 DEF MapInv
  <2>2. /\ functors[i] \in Seq(Call)
        /\ functors'[i] = Append(functors[i], Established(c))
        /\ \A j \in Thread \ {i} : functors'[j] = functors[j]
    BY <1>2, <1>3 DEF QueuesInv, Queue
  <2>3. Range(functors'[i]) = Range(functors[i]) \cup {Established(c)}
    BY <1>4, <2>2, AppendOnce, CallsDiffer
  <2>4. CASE d = c
    BY <1>3, <1>4, <1>8, <2>3, <2>4, CallsDiffer DEF About
  <2>5. CASE d # c
    <3>1. d \in DOMAIN connections_ /\ d \in Conn /\ d \in Nat /\ ioLoop[d] \in Thread
      BY <1>2, <1>4, <2>5 DEF RegistryInv, Conn
    <3>2. /\ Destroyed(d) \notin Range(calls) \cup Range(functors[ioLoop[d]])
          /\ Established(d) \in Range(calls) \cup Range(functors[ioLoop[d]])
      BY <1>2, <3>1 DEF MapInv
    <3>3. /\ Range(functors[ioLoop[d]]) \subseteq Range(functors'[ioLoop[d]])
          /\ Range(functors'[ioLoop[d]]) \subseteq Range(functors[ioLoop[d]]) \cup {Established(c)}
      BY <2>2, <2>3, <3>1
    <3>4. Destroyed(d) # Established(c)
      BY <1>4, <3>1, CallsDiffer
    <3>. QED
      BY <1>4, <3>1, <3>2, <3>3, <3>4
  <2>. QED
    BY <2>4, <2>5
<1>11. TurnsInv'
  BY <1>2, <1>4, AcceptKeepsTurns DEF i
<1>. QED
  BY <1>5, <1>6, <1>7, <1>9, <1>10, <1>11 DEF ServerInv

(* A connection is taken out of connections_ and connectDestroyed() queued in
   its loop, by its close or by ~TcpServer. *)
LEMMA RemovalKeepsInv ==
    ASSUME ServerInv, NEW c \in DOMAIN connections_, opc = "up",
           Forget(c), Queue(ioLoop[c], Destroyed(c)),
           UNCHANGED <<pool, owner, loop_, exists, quit_, pc, kernel, ioLoop, names,
                       nextConnId_, calls, closed, ending>>,
           \/ UNCHANGED baseFunctors /\ ending
           \/ baseFunctors # <<>> /\ c = Head(baseFunctors) /\ baseFunctors' = Tail(baseFunctors)
    PROVE  ServerInv'
<1> DEFINE i == ioLoop[c]
<1>1. PoolInv /\ ListenInv /\ RegistryInv /\ QueuesInv /\ MapInv /\ TurnsInv
  BY DEF ServerInv
<1>2. c \in Conn /\ c \in Nat /\ i \in Thread /\ names[c] = c /\ Len(ioLoop) \in Nat /\ UNCHANGED Conn
  BY <1>1 DEF RegistryInv, Conn
<1>3. exists[i]
  BY <1>1, <1>2, LoopsWhenUp
<1> HIDE DEF i
<1>4. PoolInv'
  <2>1. woken' \in [Thread -> BOOLEAN]
    BY <1>1 DEF Queue, PoolInv, TypeOK
  <2>. QED
    BY <1>1, <2>1, CallsKeepPoolInv DEF pool
<1>5. ListenInv'
  BY <1>1 DEF ListenInv, owner, kernel
<1>6. /\ DOMAIN connections_' = DOMAIN connections_ \ {c}
      /\ \A id \in DOMAIN connections_' : connections_'[id] = connections_[id]
  BY <1>2 DEF Forget, Restrict
<1>7. RegistryInv'
  <2>1. /\ baseFunctors' \in Seq(Conn) /\ IsInjective(baseFunctors')
        /\ Range(baseFunctors') \subseteq Range(baseFunctors)
        /\ ~ending => c \in Range(baseFunctors) /\ c \notin Range(baseFunctors')
    <3>1. baseFunctors \in Seq(Conn) /\ IsInjective(baseFunctors)
      BY <1>1 DEF RegistryInv
    <3>2. CASE UNCHANGED baseFunctors /\ ending
      BY <3>1, <3>2
    <3>3. CASE baseFunctors # <<>> /\ c = Head(baseFunctors) /\ baseFunctors' = Tail(baseFunctors)
      BY <3>1, <3>3, TailOnce
    <3>. QED
      BY <3>2, <3>3
  <2>. QED
    BY <1>1, <1>2, <1>6, <2>1 DEF RegistryInv
<1>8. /\ Destroyed(c) \notin Range(calls) \cup Range(functors[i])
      /\ Established(c) \in Range(calls) \cup Range(functors[i])
  BY <1>1 DEF MapInv, i
<1>9. QueuesInv'
  <2>1. Queue(i, Destroyed(c)) /\ Destroyed(c) \in Call
    BY <1>2, CallsDiffer DEF i
  <2>2. \A d \in Nat : Destroyed(c) = Established(d) \/ Destroyed(c) = Destroyed(d) =>
            d \in Conn' /\ ioLoop'[d] = i
    BY <1>2, CallsDiffer DEF i
  <2>3. \A d \in Nat : Destroyed(c) = Destroyed(d) =>
            Established(d) \in Range(calls) \cup Range(functors[i])
    BY <1>2, <1>8, CallsDiffer
  <2>. QED
    BY <1>1, <1>2, <1>3, <1>8, <2>1, <2>2, <2>3, QueueKeepsQueuesInv
<1>10. MapInv'
  <2>1. SUFFICES ASSUME NEW d \in DOMAIN connections_, d # c
                 PROVE  /\ Destroyed(d) \notin Range(calls) \cup Range(functors'[ioLoop[d]])
                        /\ Established(d) \in Range(calls) \cup Range(functors'[ioLoop[d]])
    BY <1>6 DEF MapInv
  <2>2. /\ functors[i] \in Seq(Call)
        /\ functors'[i] = Append(functors[i], Destroyed(c))
        /\ \A j \in Thread \ {i} : functors'[j] = functors[j]
    BY <1>1, <1>2 DEF QueuesInv, Queue, i
  <2>3. Range(functors'[i]) = Range(functors[i]) \cup {Destroyed(c)}
    BY <1>2, <2>2, AppendOnce, CallsDiffer
  <2>4. d \in Nat /\ ioLoop[d] \in Thread
    BY <1>1 DEF RegistryInv, Conn
  <2>5. /\ Destroyed(d) \notin Range(calls) \cup Range(functors[ioLoop[d]])
        /\ Established(d) \in Range(calls) \cup Range(functors[ioLoop[d]])
    BY <1>1 DEF MapInv
  <2>6. /\ Range(functors[ioLoop[d]]) \subseteq Range(functors'[ioLoop[d]])
        /\ Range(functors'[ioLoop[d]]) \subseteq Range(functors[ioLoop[d]]) \cup {Destroyed(c)}
    BY <2>2, <2>3, <2>4
  <2>7. Destroyed(d) # Destroyed(c)
    BY <1>2, <2>1, <2>4, CallsDiffer
  <2>. QED
    BY <2>5, <2>6, <2>7
<1>11. TurnsInv'
  BY <1>1, StillKeepsTurns DEF pool
<1>. QED
  BY <1>4, <1>5, <1>7, <1>9, <1>10, <1>11 DEF ServerInv

(* Both ways to take a connection out of connections_. *)
LEMMA RemovalsKeepInv ==
    ASSUME ServerInv,
           RemoveConnectionInLoop \/ \E id \in DOMAIN connections_ : ReleaseConnection(id)
    PROVE  ServerInv'
<1>1. RegistryInv
  BY DEF ServerInv
<1>2. CASE RemoveConnectionInLoop
  <2> DEFINE c == Head(baseFunctors)
  <2>1. /\ opc = "up" /\ ~ending /\ baseFunctors # <<>>
        /\ baseFunctors' = Tail(baseFunctors)
        /\ Forget(c) /\ Queue(ioLoop[c], Destroyed(c))
        /\ UNCHANGED <<pool, owner, loop_, exists, quit_, pc, kernel, ioLoop, names,
                       nextConnId_, calls, closed, ending>>
    BY <1>2 DEF RemoveConnectionInLoop, BaseLoops
  <2>2. c \in Range(baseFunctors)
    BY <1>1, <2>1, TailOnce DEF RegistryInv
  <2> HIDE DEF c
  <2>3. c \in DOMAIN connections_
    BY <1>1, <2>1, <2>2 DEF RegistryInv
  <2>. QED
    BY <2>1, <2>3, RemovalKeepsInv DEF c
<1>3. ASSUME NEW id \in DOMAIN connections_, ReleaseConnection(id)
      PROVE  ServerInv'
  <2>1. connections_[id] = id
    BY <1>1 DEF RegistryInv
  <2>2. /\ opc = "up" /\ ending
        /\ Forget(id) /\ Queue(ioLoop[id], Destroyed(id))
        /\ UNCHANGED <<pool, owner, loop_, exists, quit_, pc, kernel, ioLoop, names,
                       nextConnId_, calls, closed, ending, baseFunctors>>
    BY <1>3, <2>1 DEF ReleaseConnection
  <2>. QED
    BY <2>2, RemovalKeepsInv
<1>. QED
  BY <1>2, <1>3

(* handleClose() of a connection that is still in the map asks for its removal. *)
LEMMA HandleCloseKeepsInv ==
    ASSUME ServerInv, NEW c \in Conn, HandleClose(c)
    PROVE  ServerInv'
<1>1. PoolInv /\ ListenInv /\ RegistryInv /\ QueuesInv /\ MapInv /\ TurnsInv
  BY DEF ServerInv
<1>2. /\ closed' = closed \cup {c} /\ baseFunctors' = Append(baseFunctors, c) /\ c \notin closed
      /\ UNCHANGED <<vars, kernel, server, functors, calls, ending>>
  BY DEF HandleClose
<1>3. UNCHANGED Conn
  BY <1>2 DEF Conn, server
<1>4. RegistryInv'
  <2>1. baseFunctors \in Seq(Conn) /\ c \notin Range(baseFunctors)
    BY <1>1, <1>2 DEF RegistryInv
  <2>2. /\ baseFunctors' \in Seq(Conn) /\ IsInjective(baseFunctors')
        /\ Range(baseFunctors') = Range(baseFunctors) \cup {c}
    BY <1>1, <1>2, <2>1, AppendOnce DEF RegistryInv
  <2>3. ~ending => c \in DOMAIN connections_
    BY <1>1, <1>2 DEF RegistryInv
  <2>. QED
    BY <1>1, <1>2, <1>3, <2>2, <2>3 DEF RegistryInv, server
<1>5. PoolInv' /\ ListenInv'
  <2>1. woken' \in [Thread -> BOOLEAN]
    BY <1>1, <1>2 DEF PoolInv, TypeOK, vars
  <2>2. PoolInv'
    BY <1>1, <1>2, <2>1, CallsKeepPoolInv DEF vars, pool
  <2>. QED
    BY <1>1, <1>2, <2>2 DEF ListenInv, vars, owner, kernel, server
<1>6. QueuesInv'
  BY <1>1, <1>2, StillKeepsQueuesInv DEF vars, server
<1>7. MapInv'
  BY <1>1, <1>2 DEF MapInv, vars, owner, server
<1>8. TurnsInv'
  BY <1>1, <1>2, StillKeepsTurns DEF vars, pool, server
<1>. QED
  BY <1>1, <1>4, <1>5, <1>6, <1>7, <1>8 DEF ServerInv

(* A loop runs its functors: what was queued has run. *)
LEMMA EndPassKeepsInv ==
    ASSUME ServerInv, NEW i \in Thread, EndPass(i)
    PROVE  ServerInv'
<1>1. PoolInv /\ ListenInv /\ RegistryInv /\ QueuesInv /\ MapInv /\ TurnsInv
  BY DEF ServerInv
<1>2. /\ PollReturns(i) /\ RunFunctors(i)
      /\ UNCHANGED <<kernel, server, baseFunctors, closed, ending>>
      /\ UNCHANGED <<pool, owner, loop_, exists, quit_>>
  BY DEF EndPass, PollReturns
<1>3. PoolInv' /\ ListenInv'
  BY <1>1, <1>2, ThreadMovesKeepsPoolInv DEF ThreadMoves, ListenInv, owner, kernel, server
<1>4. /\ QueuesInv'
      /\ Range(calls') = Range(calls) \cup Range(functors[i])
      /\ functors'[i] = <<>>
      /\ \A j \in Thread \ {i} : functors'[j] = functors[j]
  BY <1>1, <1>2, RunKeepsQueuesInv DEF server
<1>5. MapInv'
  <2>1. SUFFICES ASSUME NEW d \in DOMAIN connections_
                 PROVE  /\ Destroyed(d) \notin Range(calls') \cup Range(functors'[ioLoop[d]])
                        /\ opc = "up" => Established(d) \in Range(calls') \cup Range(functors'[ioLoop[d]])
    BY <1>2 DEF MapInv, server, owner
  <2>2. d \in Conn /\ d \in Nat /\ ioLoop[d] \in Thread
    BY <1>1 DEF RegistryInv, Conn
  <2>3. /\ Destroyed(d) \notin Range(calls) \cup Range(functors[ioLoop[d]])
        /\ opc = "up" => Established(d) \in Range(calls) \cup Range(functors[ioLoop[d]])
    BY <1>1 DEF MapInv
  <2>4. Range(functors'[i]) = {}
    BY <1>4, EmptySeq DEF Range
  <2>5. CASE ioLoop[d] = i
    BY <1>4, <2>3, <2>4, <2>5
  <2>6. CASE ioLoop[d] # i
    <3>1. Destroyed(d) \notin Range(functors[i])
      BY <1>1, <2>2, <2>6 DEF QueuesInv, QueueInv, About
    <3>. QED
      BY <1>4, <2>2, <2>3, <2>6, <3>1
  <2>. QED
    BY <2>5, <2>6
<1>6. RegistryInv'
  BY <1>1, <1>2, StillKeepsRegistry
<1>7. TurnsInv'
  BY <1>1, <1>2, StillKeepsTurns DEF pool, server
<1>. QED
  BY <1>3, <1>4, <1>5, <1>6, <1>7 DEF ServerInv

(* A loop ends and drops its functors: the pool is being destroyed. *)
LEMMA EndThreadKeepsInv ==
    ASSUME ServerInv, NEW i \in Thread, EndThread(i)
    PROVE  ServerInv'
<1>1. PoolInv /\ ListenInv /\ RegistryInv /\ QueuesInv /\ MapInv /\ TurnsInv
  BY DEF ServerInv
<1>2. /\ Unwind(i) /\ functors' = [functors EXCEPT ![i] = <<>>]
      /\ UNCHANGED <<kernel, server, baseFunctors, calls, closed, ending>>
      /\ UNCHANGED <<pool, owner>> /\ pc[i] = "unwind"
      /\ exists' = [exists EXCEPT ![i] = FALSE]
  BY DEF EndThread, Unwind, Goto
<1>3. PoolInv' /\ ListenInv'
  BY <1>1, <1>2, ThreadMovesKeepsPoolInv DEF ThreadMoves, ListenInv, owner, kernel, server
<1>4. opc # "up"
  BY <1>1, <1>2 DEF PoolInv, ThreadInv, Quitted
<1>5. QueuesInv'
  <2>1. \A j \in Thread \ {i} : exists'[j] = exists[j]
    BY <1>1, <1>2 DEF PoolInv, TypeOK
  <2>. QED
    BY <1>1, <1>2, <2>1, DropKeepsQueuesInv DEF server
<1>6. MapInv'
  <2>1. Range(functors'[i]) = {} /\ \A j \in Thread \ {i} : functors'[j] = functors[j]
    BY <1>1, <1>2, EmptySeq DEF QueuesInv, Range
  <2>2. \A d \in DOMAIN connections_ : ioLoop[d] \in Thread
    BY <1>1 DEF RegistryInv, Conn
  <2>. QED
    BY <1>1, <1>2, <1>4, <2>1, <2>2 DEF MapInv, server, owner
<1>7. RegistryInv'
  BY <1>1, <1>2, StillKeepsRegistry
<1>8. TurnsInv'
  BY <1>1, <1>2, StillKeepsTurns DEF pool, server
<1>. QED
  BY <1>3, <1>5, <1>6, <1>7, <1>8 DEF ServerInv

(* A loop's own steps, and those of the pool's owner. *)
LEMMA PoolMovesKeepInv ==
    ASSUME ServerInv, UNCHANGED <<kernel, server, conns, ending>>,
           \/ \E i \in Thread : ThreadStep(i)
           \/ OwnerStep
           \/ Destroy /\ connections_ = <<>>
    PROVE  ServerInv'
<1>1. PoolInv /\ ListenInv /\ RegistryInv /\ QueuesInv /\ MapInv /\ TurnsInv
  BY DEF ServerInv
<1>2. PoolInv' /\ UNCHANGED next_
  <2>1. CASE \E i \in Thread : ThreadStep(i)
    BY <1>1, <2>1, ThreadMovesKeepsPoolInv
    DEF ThreadMoves, ThreadStep, CreateLoop, Publish, EnterLoop, CheckQuit, ClearLoop, pool
  <2>2. CASE OwnerStep \/ Destroy
    BY <1>1, <2>2, OwnerKeepsPoolInv
    DEF OwnerStep, Destroy, StartThread, LoopPublished, ReadLoop, Quit, Wakeup, Join, pool
  <2>. QED
    BY <2>1, <2>2
<1>3. opc' \in {"start", "wait"} => opc \in {"start", "wait"}
  <2>1. CASE \E i \in Thread : ThreadStep(i)
    BY <2>1
    DEF ThreadStep, CreateLoop, Publish, EnterLoop, CheckQuit, ClearLoop, owner
  <2>2. CASE OwnerStep \/ Destroy
    BY <2>2 DEF OwnerStep, Destroy, StartThread, LoopPublished, ReadLoop, Quit, Wakeup, Join,
                NextToDestroy
  <2>. QED
    BY <2>1, <2>2
<1>4. opc' = "up" => opc = "up" \/ (ioLoop = <<>> /\ opc = "wait")
  <2>1. CASE \E i \in Thread : ThreadStep(i)
    BY <2>1
    DEF ThreadStep, CreateLoop, Publish, EnterLoop, CheckQuit, ClearLoop, owner
  <2>2. CASE OwnerStep \/ Destroy
    BY <1>1, <2>2 DEF OwnerStep, Destroy, StartThread, LoopPublished, ReadLoop, Quit, Wakeup, Join,
                NextToDestroy, ListenInv
  <2>. QED
    BY <2>1, <2>2
<1>5. ListenInv'
  BY <1>1, <1>3 DEF ListenInv, kernel, server
<1>6. RegistryInv'
  BY <1>1, StillKeepsRegistry DEF conns
<1>7. QueuesInv'
  <2>1. \A j \in Thread : exists[j] => exists'[j]
    <3>1. CASE \E i \in Thread : ThreadStep(i)
      BY <1>1, <3>1
      DEF ThreadStep, CreateLoop, Publish, EnterLoop, CheckQuit, ClearLoop, PoolInv, TypeOK
    <3>2. CASE OwnerStep \/ Destroy
      BY <3>2 DEF OwnerStep, Destroy, StartThread, LoopPublished, ReadLoop, Quit, Wakeup, Join
    <3>. QED
      BY <3>1, <3>2
  <2>. QED
    BY <1>1, <2>1, StillKeepsQueuesInv DEF server, conns
<1>8. MapInv'
  <2>1. ioLoop = <<>> => DOMAIN connections_ = {}
    <3>1. ioLoop = <<>> => Conn = {}
      BY EmptySeq DEF Conn
    <3>. QED
      BY <1>1, <3>1 DEF RegistryInv
  <2>. QED
    BY <1>1, <1>4, <2>1 DEF MapInv, server, conns
<1>9. TurnsInv'
  BY <1>1, <1>2, StillKeepsTurns DEF server
<1>. QED
  BY <1>2, <1>5, <1>6, <1>7, <1>8, <1>9 DEF ServerInv

(* Steps of the kernel and of the base loop that queue nothing. *)
LEMMA OthersKeepInv ==
    ASSUME ServerInv, Listen \/ Connect \/ BaseLoopEnds \/ UNCHANGED serverVars
    PROVE  ServerInv'
<1>1. PoolInv /\ ListenInv /\ RegistryInv /\ QueuesInv /\ MapInv /\ TurnsInv
  BY DEF ServerInv
<1>2. /\ UNCHANGED <<vars, server, conns>>
      /\ ending => ending'
      /\ listenning_' => listenning_ \/ opc = "up"
  BY DEF Listen, Connect, BaseLoopEnds, serverVars, kernel, BaseLoops
<1>3. PoolInv'
  <2>1. woken' \in [Thread -> BOOLEAN]
    BY <1>1, <1>2 DEF PoolInv, TypeOK, vars
  <2>. QED
    BY <1>1, <1>2, <2>1, CallsKeepPoolInv DEF vars, pool
<1>4. ListenInv'
  BY <1>1, <1>2 DEF ListenInv, vars, owner, server
<1>5. RegistryInv'
  BY <1>1, <1>2, StillKeepsRegistry DEF conns
<1>6. QueuesInv'
  BY <1>1, <1>2, StillKeepsQueuesInv DEF vars, server, conns
<1>7. MapInv'
  BY <1>1, <1>2 DEF MapInv, vars, owner, server, conns
<1>8. TurnsInv'
  BY <1>1, <1>2, StillKeepsTurns DEF vars, pool, server
<1>. QED
  BY <1>3, <1>4, <1>5, <1>6, <1>7, <1>8 DEF ServerInv

-----------------------------------------------------------------------------
(* The theorems.                                                           *)

(* ServerInv is inductive: every loop is where the owner's calls leave it, every
   connection is queued for removal once and under a name of its own, its calls
   are in one queue and in order, and the loops share the connections. *)
THEOREM ServerInvHolds == ServerSpec => []ServerInv
<1>1. ServerInv /\ [ServerNext]_serverVars => ServerInv'
  <2>1. SUFFICES ASSUME ServerInv, [ServerNext]_serverVars PROVE ServerInv'
    OBVIOUS
  <2>2. CASE PoolOwner
    BY <2>1, <2>2, PoolMovesKeepInv DEF PoolOwner
  <2>3. CASE BaseLoop
    BY <2>1, <2>3, OthersKeepInv, HandleReadKeepsInv, RemovalsKeepInv DEF BaseLoop
  <2>4. CASE BaseLoopEnds \/ Connect \/ UNCHANGED serverVars
    BY <2>1, <2>4, OthersKeepInv
  <2>5. CASE ServerEnds
    BY <2>1, <2>5, RemovalsKeepInv, PoolMovesKeepInv DEF ServerEnds, DestroyPool
  <2>6. CASE \E c \in Conn : HandleClose(c)
    BY <2>1, <2>6, HandleCloseKeepsInv
  <2>7. ASSUME NEW i \in Thread, IoThread(i) \/ EndPass(i)
        PROVE  ServerInv'
    BY <2>1, <2>7, EndPassKeepsInv, EndThreadKeepsInv, PoolMovesKeepInv DEF IoThread
  <2>. QED
    BY <2>1, <2>2, <2>3, <2>4, <2>5, <2>6, <2>7 DEF ServerNext
<1>. QED
  BY InitServerInv, <1>1, PTL DEF ServerSpec

(* Until it is told to quit a loop exists: the pool hands out loops that do,
   functors wait in loops that do, and quit() begins on one that does, for any
   number of threads (EventLoopThread.cpp lines 17-19 and 59). *)
THEOREM LoopsExistUntilQuitHolds == ServerSpec => []LoopsExistUntilQuit
<1>1. ServerInv => LoopsExistUntilQuit
  BY PoolInvShows DEF ServerInv, QueuesInv, QueueInv, LoopsExistUntilQuit
<1>. QED
  BY ServerInvHolds, <1>1, PTL

(* Whatever the clients, the loops and ~TcpServer do, and in whatever order: each
   connection is established once and destroyed at most once after it, is in
   connections_ under its own name until it closes, and no loop is given two
   connections more than another (TcpServer.cpp lines 72-73 and 115). *)
THEOREM EachConnectionOnceHolds == ServerSpec => []EachConnectionOnce
<1>1. ServerInv => EachConnectionOnce
  <2>1. SUFFICES ASSUME ServerInv PROVE EachConnectionOnce
    OBVIOUS
  <2>2. RegistryInv /\ QueuesInv /\ MapInv /\ TurnsInv
    BY <2>1 DEF ServerInv
  <2>3. ASSUME NEW n \in DOMAIN calls
        PROVE  \E c \in Conn :
                  \/ calls[n] = Established(c)
                  \/ calls[n] = Destroyed(c) /\ \E m \in 1 .. n - 1 : calls[m] = Established(c)
    <3>1. calls \in Seq(Call) /\ n \in 1 .. Len(calls) /\ calls[n] \in Call /\ calls[n] \in Range(calls)
      BY <2>2 DEF QueuesInv, Range
    <3>2. PICK c \in Nat : calls[n] = Established(c) \/ calls[n] = Destroyed(c)
      BY <3>1, CallsDiffer
    <3>3. c \in Conn
      BY <2>2, <3>1, <3>2 DEF QueuesInv, About
    <3>4. calls[n] = Destroyed(c) => \E m \in 1 .. n - 1 : calls[m] = Established(c)
      BY <2>2, <3>1, <3>2 DEF QueuesInv, InOrder
    <3>. QED
      BY <3>2, <3>3, <3>4
  <2>4. IsInjective(connections_) /\ Range(connections_) = DOMAIN connections_
    <3>1. \A id \in DOMAIN connections_ : connections_[id] = id
      BY <2>2 DEF RegistryInv
    <3>. QED
      BY <3>1 DEF IsInjective, Range
  <2>5. Range(connections_) \subseteq Open
    BY <2>2, <2>4 DEF RegistryInv, MapInv, Open
  <2>6. Balanced
    <3>1. PICK k \in Nat : \A i \in Thread : Given(i) = IF i <= next_ THEN k + 1 ELSE k
      BY <2>2 DEF TurnsInv
    <3>2. \A i \in Thread : Given(i) = k \/ Given(i) = k + 1
      BY <3>1
    <3>. QED
      BY <3>2 DEF Balanced
  <2>. QED
    BY <2>2, <2>3, <2>4, <2>5, <2>6 DEF EachConnectionOnce, RegistryInv, QueuesInv
<1>. QED
  BY ServerInvHolds, <1>1, PTL

=============================================================================
