------------------------ MODULE EventLoopThreadPool ------------------------
(***************************************************************************)
(* EventLoopThreadPool and its EventLoopThreads: the owner (the base loop's *)
(* thread) starts the threads one after the other, hands out their loops   *)
(* round robin, and destroys them one after the other.  Of an EventLoop    *)
(* only what starting and quitting it needs is here: whether it exists,    *)
(* quit_ and a pending wakeup; EventLoop has the rest.  TcpServer is the   *)
(* owner and puts the pieces together.                                     *)
(***************************************************************************)
EXTENDS Naturals, Sequences

CONSTANTS
    numThreads_,
    DestroysEarly   \* the pool may be destroyed before its threads loop

ASSUME EventLoopThreadPoolAssumption ==
    /\ numThreads_ \in Nat \ {0}
    /\ DestroysEarly \in BOOLEAN

VARIABLES
    loops_,   \* the loops in the pool, by the number of their thread
    next_,    \* index into loops_, from 0 as in the code
    loop_,    \* EventLoopThread::loop_ is set
    exists,   \* the thread's EventLoop exists (it is a local of threadFunc())
    quit_,
    woken,    \* the loop's eventfd is readable
    pc,       \* where each thread is in threadFunc()
    opc,      \* what the owner does: new, start, wait, up, read, quit,
              \* wakeup, join, gone
    turn      \* the thread the owner starts or destroys

pool  == <<loops_, next_>>
owner == <<opc, turn>>
vars  == <<pool, owner, loop_, exists, quit_, woken, pc>>

Thread == 1 .. numThreads_
PC == {"none", "create", "publish", "enter", "check", "poll", "clear",
       "unwind", "done"}

Init ==
    /\ loops_ = <<>> /\ next_ = 0
    /\ loop_ = [i \in Thread |-> FALSE]
    /\ exists = [i \in Thread |-> FALSE]
    /\ quit_ = [i \in Thread |-> FALSE]
    /\ woken = [i \in Thread |-> FALSE]
    /\ pc = [i \in Thread |-> "none"]
    /\ opc = "start" /\ turn = 1

-----------------------------------------------------------------------------
(* The owner: EventLoopThreadPool::start(), EventLoopThread::startLoop().  *)

StartThread ==
    /\ opc = "start"
    /\ opc' = "wait"
    /\ pc' = [pc EXCEPT ![turn] = "create"]
    /\ UNCHANGED <<pool, turn, loop_, exists, quit_, woken>>

(* Faulty variant of LoopPublished: startLoop() does not wait for the loop. *)
LoopNotAwaited ==
    /\ opc = "wait"
    /\ loops_' = Append(loops_, turn)
    /\ IF turn < numThreads_
       THEN turn' = turn + 1 /\ opc' = "start"
       ELSE turn' = 1 /\ opc' = "up"
    /\ UNCHANGED <<next_, loop_, exists, quit_, woken, pc>>

(* The wait for cond_ ends with loop_ set. *)
LoopPublished ==
    /\ opc = "wait"
    /\ loop_[turn]
    /\ loops_' = Append(loops_, turn)
    /\ IF turn < numThreads_
       THEN turn' = turn + 1 /\ opc' = "start"
       ELSE turn' = 1 /\ opc' = "up"
    /\ UNCHANGED <<next_, loop_, exists, quit_, woken, pc>>

NextIndex == IF next_ + 1 >= Len(loops_) THEN 0 ELSE next_ + 1

(* The loop getNextLoop() returns; TcpServer asks for it. *)
NextLoop == loops_[next_ + 1]
GetNextLoop == next_' = NextIndex

-----------------------------------------------------------------------------
(* The owner: ~EventLoopThreadPool, ~EventLoopThread for each of threads_.  *)

Looping(i) == pc[i] \in {"check", "poll"}

Destroy ==
    /\ opc = "up"
    /\ DestroysEarly \/ \A i \in Thread : Looping(i)
    /\ opc' = "read"
    /\ UNCHANGED <<pool, turn, loop_, exists, quit_, woken, pc>>

NextToDestroy ==
    IF turn < numThreads_ THEN turn' = turn + 1 /\ opc' = "read"
                          ELSE turn' = turn /\ opc' = "gone"

(* loop_ is read without mutex_; without a loop the thread is detached. *)
ReadLoop ==
    /\ opc = "read"
    /\ IF loop_[turn] THEN opc' = "quit" /\ UNCHANGED turn ELSE NextToDestroy
    /\ UNCHANGED <<pool, loop_, exists, quit_, woken, pc>>

Quit ==
    /\ opc = "quit"
    /\ quit_' = [quit_ EXCEPT ![turn] = TRUE]
    /\ opc' = "wakeup"
    /\ UNCHANGED <<pool, turn, loop_, exists, woken, pc>>

(* Faulty variant of Wakeup: it is not written. *)
SkipWakeup ==
    /\ opc = "wakeup"
    /\ opc' = "join"
    /\ UNCHANGED <<pool, turn, loop_, exists, quit_, woken, pc>>

Wakeup ==
    /\ opc = "wakeup"
    /\ woken' = [woken EXCEPT ![turn] = TRUE]
    /\ opc' = "join"
    /\ UNCHANGED <<pool, turn, loop_, exists, quit_, pc>>

Join ==
    /\ opc = "join"
    /\ pc[turn] = "done"
    /\ NextToDestroy
    /\ UNCHANGED <<pool, loop_, exists, quit_, woken, pc>>

-----------------------------------------------------------------------------
(* Thread i: EventLoopThread::threadFunc().                                *)

Goto(i, from, to) == pc[i] = from /\ pc' = [pc EXCEPT ![i] = to]

CreateLoop(i) ==
    /\ Goto(i, "create", "publish")
    /\ exists' = [exists EXCEPT ![i] = TRUE]
    /\ quit_' = [quit_ EXCEPT ![i] = FALSE]
    /\ UNCHANGED <<pool, owner, loop_, woken>>

Publish(i) ==
    /\ Goto(i, "publish", "enter")
    /\ loop_' = [loop_ EXCEPT ![i] = TRUE]
    /\ UNCHANGED <<pool, owner, exists, quit_, woken>>

EnterLoop(i) ==
    /\ Goto(i, "enter", "check")
    /\ quit_' = [quit_ EXCEPT ![i] = FALSE]
    /\ UNCHANGED <<pool, owner, loop_, exists, woken>>

CheckQuit(i) ==
    /\ Goto(i, "check", IF quit_[i] THEN "clear" ELSE "poll")
    /\ UNCHANGED <<pool, owner, loop_, exists, quit_, woken>>

(* For a wakeup, or for another event, a timeout, a functor. *)
PollReturns(i) ==
    /\ Goto(i, "poll", "check")
    /\ woken' = [woken EXCEPT ![i] = FALSE]
    /\ UNCHANGED <<pool, owner, loop_, exists, quit_>>

ClearLoop(i) ==
    /\ Goto(i, "clear", "unwind")
    /\ loop_' = [loop_ EXCEPT ![i] = FALSE]
    /\ UNCHANGED <<pool, owner, exists, quit_, woken>>

(* ~EventLoop, and the end of the thread. *)
Unwind(i) ==
    /\ Goto(i, "unwind", "done")
    /\ exists' = [exists EXCEPT ![i] = FALSE]
    /\ UNCHANGED <<pool, owner, loop_, quit_, woken>>

-----------------------------------------------------------------------------
(* What the owner does by itself, and each thread. *)
OwnerStep == StartThread \/ LoopPublished \/ ReadLoop \/ Quit \/ Wakeup \/ Join

ThreadStep(i) ==
    CreateLoop(i) \/ Publish(i) \/ EnterLoop(i) \/ CheckQuit(i) \/ ClearLoop(i)

-----------------------------------------------------------------------------
(* Properties.                                                             *)

(* Every variable has its type, and next_ is an index of loops_. *)
TypeOK ==
    /\ loops_ \in Seq(Thread)
    /\ next_ = 0 \/ next_ \in 0 .. Len(loops_) - 1
    /\ loop_ \in [Thread -> BOOLEAN] /\ exists \in [Thread -> BOOLEAN]
    /\ quit_ \in [Thread -> BOOLEAN] /\ woken \in [Thread -> BOOLEAN]
    /\ pc \in [Thread -> PC]
    /\ opc \in {"start", "wait", "up", "read", "quit", "wakeup", "join", "gone"}
    /\ turn \in Thread

(* The loops the pool hands out exist until it is destroyed (startLoop()
   lines 30-37 wait for loop_). *)
LoopsExist == opc \in {"start", "wait", "up"} =>
                  \A n \in 1 .. Len(loops_) : exists[loops_[n]]

(* Threads whose loop the destructor of the pool has still to quit. *)
NotQuit == CASE opc \in {"read", "quit"}   -> {i \in Thread : i >= turn}
             [] opc \in {"wakeup", "join"} -> {i \in Thread : i > turn}
             [] OTHER                      -> {}

(* While the pool is destroyed a loop exists, and loop_ names it, until quit()
   has set its quit_ (lines 17-19 read loop_ unlocked, threadFunc() line 59
   resets it before the loop is destroyed).  This is where quit() begins: it may
   end, in wakeup(), on a loop that is gone, for the thread may see quit_ and
   return in between (EventLoop.cpp lines 106-109). *)
LoopsExistToQuit == \A i \in NotQuit : exists[i] /\ loop_[i]

(* The destructor of a pool whose threads all loop ends: every join() returns,
   for quit() makes the loop return ("quit", EventLoop.h line 33). *)
PoolDestroyed ==
    opc = "read" /\ turn = 1 /\ (\A i \in Thread : Looping(i)) ~> opc = "gone"
=============================================================================
