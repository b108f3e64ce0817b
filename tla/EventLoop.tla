----------------------------- MODULE EventLoop -----------------------------
(***************************************************************************)
(* One EventLoop (net/EventLoop.cpp): the thread that runs loop(), and the *)
(* other threads that call queueInLoop() and quit() on it.                 *)
(*                                                                         *)
(* A step is one access to shared state.  The blocks under mutex_ touch    *)
(* only pendingFunctors_, so each is one step.  wakeupFd_ is a             *)
(* non-blocking eventfd read by nobody but handleRead(), which drains it:  *)
(* only "readable or not" matters, also when a write finds the counter     *)
(* full.  User callbacks (event handlers and functors) run in the loop     *)
(* thread and may call queueInLoop() and quit() any number of times.       *)
(***************************************************************************)
EXTENDS Naturals, Sequences, SequencesExt

CONSTANTS Thread,         \* threads other than the loop's own
          Functor,        \* the callbacks that can be queued
          EarlyFunctor,   \* those the owner may queue before it calls loop()
          IoChannel,      \* the channels other than wakeupChannel_
          WakeupChannel,  \* wakeupChannel_
          NoFunctor       \* no functor is running

ASSUME EventLoopAssumption ==
    /\ EarlyFunctor \subseteq Functor
    /\ NoFunctor \notin Functor
    /\ WakeupChannel \notin IoChannel

VARIABLES
    quit_,
    callingPendingFunctors_,
    pendingFunctors_,
    wakeupFd_,        \* the eventfd is readable
    activeChannels_,  \* the channels of this pass not handled yet
    functors,         \* the local vector of doPendingFunctors()
    running,          \* the functor being run, or NoFunctor
    early,            \* pending functors queued before loop() by the owner
    pc,               \* where the loop thread is
    tpc               \* where each other thread is

vars == <<quit_, callingPendingFunctors_, pendingFunctors_, wakeupFd_,
          activeChannels_, functors, running, early, pc, tpc>>

LoopPC == {"created", "check", "poll", "handle", "handler", "swap", "run",
           "done"}
Channel == IoChannel \cup {WakeupChannel}

Init ==
    /\ quit_ = FALSE
    /\ callingPendingFunctors_ = FALSE
    /\ pendingFunctors_ = <<>>
    /\ wakeupFd_ = FALSE
    /\ activeChannels_ = {}
    /\ functors = <<>>
    /\ running = NoFunctor
    /\ early = 0
    /\ pc = "created"
    /\ tpc = [t \in Thread |-> "idle"]

-----------------------------------------------------------------------------
(* Calls from other threads.                                               *)

(* Bound: a functor waits at most once in pendingFunctors_. *)
NotPending(f) == f \notin Range(pendingFunctors_)

(* Faulty variant of Quit: no wakeup follows. *)
QuitWithoutWakeup(t) ==
    /\ tpc[t] = "idle"
    /\ quit_' = TRUE
    /\ UNCHANGED <<callingPendingFunctors_, pendingFunctors_, wakeupFd_,
                   activeChannels_, functors, running, early, pc, tpc>>

(* The locked block of queueInLoop(); the caller still has to wake the loop. *)
QueueInLoop(t, f) ==
    /\ tpc[t] = "idle"
    /\ NotPending(f)
    /\ pendingFunctors_' = Append(pendingFunctors_, f)
    /\ tpc' = [tpc EXCEPT ![t] = "wakeup"]
    /\ UNCHANGED <<quit_, callingPendingFunctors_, wakeupFd_, activeChannels_,
                   functors, running, early, pc>>

Quit(t) ==
    /\ tpc[t] = "idle"
    /\ quit_' = TRUE
    /\ tpc' = [tpc EXCEPT ![t] = "wakeup"]
    /\ UNCHANGED <<callingPendingFunctors_, pendingFunctors_, wakeupFd_,
                   activeChannels_, functors, running, early, pc>>

Wakeup(t) ==
    /\ tpc[t] = "wakeup"
    /\ wakeupFd_' = TRUE
    /\ tpc' = [tpc EXCEPT ![t] = "idle"]
    /\ UNCHANGED <<quit_, callingPendingFunctors_, pendingFunctors_,
                   activeChannels_, functors, running, early, pc>>

-----------------------------------------------------------------------------
(* Calls made in the loop thread.                                          *)

(* The owner queues a functor before loop(): in the loop thread and outside
   doPendingFunctors(), hence without a wakeup. *)
OwnerQueues(f) ==
    /\ pc = "created"
    /\ f \in EarlyFunctor
    /\ NotPending(f)
    /\ pendingFunctors_' = Append(pendingFunctors_, f)
    /\ early' = early + 1
    /\ UNCHANGED <<quit_, callingPendingFunctors_, wakeupFd_, activeChannels_,
                   functors, running, pc, tpc>>

InCallback == pc = "handler" \/ running # NoFunctor

(* Faulty variant of CallbackQueues: it wakes the loop for other threads only. *)
CallbackQueuesWithoutWakeup(f) ==
    /\ InCallback
    /\ NotPending(f)
    /\ pendingFunctors_' = Append(pendingFunctors_, f)
    /\ UNCHANGED <<quit_, callingPendingFunctors_, wakeupFd_, activeChannels_,
                   functors, running, early, pc, tpc>>

(* queueInLoop() from a callback.  Only the loop thread reads or clears the
   eventfd, so its push and its write are one step. *)
CallbackQueues(f) ==
    /\ InCallback
    /\ NotPending(f)
    /\ pendingFunctors_' = Append(pendingFunctors_, f)
    /\ wakeupFd_' = (wakeupFd_ \/ callingPendingFunctors_)
    /\ UNCHANGED <<quit_, callingPendingFunctors_, activeChannels_, functors,
                   running, early, pc, tpc>>

CallbackQuits ==
    /\ InCallback
    /\ quit_' = TRUE
    /\ UNCHANGED <<callingPendingFunctors_, pendingFunctors_, wakeupFd_,
                   activeChannels_, functors, running, early, pc, tpc>>

-----------------------------------------------------------------------------
(* loop().                                                                 *)

EnterLoop ==
    /\ pc = "created"
    /\ quit_' = FALSE
    /\ pc' = "check"
    /\ UNCHANGED <<callingPendingFunctors_, pendingFunctors_, wakeupFd_,
                   activeChannels_, functors, running, early, tpc>>

CheckQuit ==
    /\ pc = "check"
    /\ pc' = IF quit_ THEN "done" ELSE "poll"
    /\ UNCHANGED <<quit_, callingPendingFunctors_, pendingFunctors_,
                   wakeupFd_, activeChannels_, functors, running, early, tpc>>

(* epoll_wait() reports ready channels: some or all of them, for it fills at
   most events_.size() entries and leaves the others for the next pass. *)
PollReturns ==
    /\ pc = "poll"
    /\ activeChannels_' \in SUBSET {c \in Channel : c = WakeupChannel => wakeupFd_}
    /\ activeChannels_' # {}
    /\ pc' = "handle"
    /\ UNCHANGED <<quit_, callingPendingFunctors_, pendingFunctors_,
                   wakeupFd_, functors, running, early, tpc>>

(* epoll_wait() reports nothing: kPollTimeMs went by, or a signal came. *)
PollReturnsNothing ==
    /\ pc = "poll"
    /\ activeChannels_' = {}
    /\ pc' = "handle"
    /\ UNCHANGED <<quit_, callingPendingFunctors_, pendingFunctors_,
                   wakeupFd_, functors, running, early, tpc>>

(* EventLoop::handleRead(), the read callback of wakeupChannel_. *)
HandleRead ==
    /\ pc = "handle"
    /\ WakeupChannel \in activeChannels_
    /\ wakeupFd_' = FALSE
    /\ activeChannels_' = activeChannels_ \ {WakeupChannel}
    /\ UNCHANGED <<quit_, callingPendingFunctors_, pendingFunctors_,
                   functors, running, early, pc, tpc>>

HandleEvent(c) ==
    /\ pc = "handle"
    /\ c \in activeChannels_ \ {WakeupChannel}
    /\ activeChannels_' = activeChannels_ \ {c}
    /\ pc' = "handler"
    /\ UNCHANGED <<quit_, callingPendingFunctors_, pendingFunctors_,
                   wakeupFd_, functors, running, early, tpc>>

HandlerReturns ==
    /\ pc = "handler"
    /\ pc' = "handle"
    /\ UNCHANGED <<quit_, callingPendingFunctors_, pendingFunctors_,
                   wakeupFd_, activeChannels_, functors, running, early, tpc>>

DoPendingFunctors ==
    /\ pc = "handle"
    /\ activeChannels_ = {}
    /\ callingPendingFunctors_' = TRUE
    /\ pc' = "swap"
    /\ UNCHANGED <<quit_, pendingFunctors_, wakeupFd_, activeChannels_,
                   functors, running, early, tpc>>

(* Faulty variant of RunFunctor: the batch is popped from its end. *)
RunLastFunctor ==
    /\ pc = "run"
    /\ running = NoFunctor
    /\ functors # <<>>
    /\ running' = Last(functors)
    /\ functors' = Front(functors)
    /\ UNCHANGED <<quit_, callingPendingFunctors_, pendingFunctors_,
                   wakeupFd_, activeChannels_, early, pc, tpc>>

SwapFunctors ==
    /\ pc = "swap"
    /\ functors' = pendingFunctors_
    /\ pendingFunctors_' = <<>>
    /\ early' = 0
    /\ pc' = "run"
    /\ UNCHANGED <<quit_, callingPendingFunctors_, wakeupFd_,
                   activeChannels_, running, tpc>>

RunFunctor ==
    /\ pc = "run"
    /\ running = NoFunctor
    /\ functors # <<>>
    /\ running' = Head(functors)
    /\ functors' = Tail(functors)
    /\ UNCHANGED <<quit_, callingPendingFunctors_, pendingFunctors_,
                   wakeupFd_, activeChannels_, early, pc, tpc>>

(* Faulty variant of EndPendingFunctors: the eventfd is drained after the
   functors are run, not before. *)
EndAndDrain ==
    /\ pc = "run"
    /\ running = NoFunctor
    /\ functors = <<>>
    /\ callingPendingFunctors_' = FALSE
    /\ wakeupFd_' = FALSE
    /\ pc' = "check"
    /\ UNCHANGED <<quit_, pendingFunctors_, activeChannels_, functors, running,
                   early, tpc>>

FunctorReturns ==
    /\ running # NoFunctor
    /\ running' = NoFunctor
    /\ UNCHANGED <<quit_, callingPendingFunctors_, pendingFunctors_,
                   wakeupFd_, activeChannels_, functors, early, pc, tpc>>

EndPendingFunctors ==
    /\ pc = "run"
    /\ running = NoFunctor
    /\ functors = <<>>
    /\ callingPendingFunctors_' = FALSE
    /\ pc' = "check"
    /\ UNCHANGED <<quit_, pendingFunctors_, wakeupFd_, activeChannels_,
                   functors, running, early, tpc>>

-----------------------------------------------------------------------------
(* The steps loop() takes without waiting for anybody. *)
LoopStep ==
    \/ CheckQuit
    \/ HandleRead
    \/ \E c \in IoChannel : HandleEvent(c)
    \/ HandlerReturns
    \/ DoPendingFunctors
    \/ SwapFunctors
    \/ RunFunctor
    \/ FunctorReturns
    \/ EndPendingFunctors

Next ==
    \/ \E t \in Thread : \/ \E f \in Functor : QueueInLoop(t, f)
                         \/ Quit(t)
                         \/ Wakeup(t)
    \/ \E f \in Functor : OwnerQueues(f) \/ CallbackQueues(f)
    \/ CallbackQuits
    \/ EnterLoop
    \/ PollReturns
    \/ PollReturnsNothing
    \/ LoopStep

Spec == Init /\ [][Next]_vars

(* The owner calls loop(), the loop thread is scheduled and callbacks return; a
   thread inside queueInLoop() or quit() finishes the call; epoll_wait()
   returns when the eventfd is readable, and after kPollTimeMs, which only what
   was queued before loop() may rely on.  Nobody has to queue a functor or call
   quit() and no channel has to become ready. *)
Fairness ==
    /\ WF_vars(EnterLoop)
    /\ WF_vars(LoopStep)
    /\ WF_vars(wakeupFd_ /\ PollReturns)
    /\ WF_vars(early > 0 /\ PollReturnsNothing)
    /\ \A t \in Thread : WF_vars(Wakeup(t))

FairSpec == Spec /\ Fairness

-----------------------------------------------------------------------------
(* Properties.                                                             *)

(* Every variable has its type. *)
TypeOK ==
    /\ quit_ \in BOOLEAN
    /\ callingPendingFunctors_ \in BOOLEAN
    /\ pendingFunctors_ \in Seq(Functor)
    /\ wakeupFd_ \in BOOLEAN
    /\ activeChannels_ \subseteq Channel
    /\ functors \in Seq(Functor)
    /\ running \in Functor \cup {NoFunctor}
    /\ early \in Nat
    /\ pc \in LoopPC
    /\ tpc \in [Thread -> {"idle", "wakeup"}]

(* The eventfd is readable or some thread is about to make it so. *)
WakeupDue == wakeupFd_ \/ \E t \in Thread : tpc[t] = "wakeup"

(* The loop never sleeps on work: while it blocks in poll() with functors
   pending, other than those its owner queued before loop(), a wakeup has been
   written or is about to be (queueInLoop() line 132, doPendingFunctors() line
   179 before the swap, handleRead() before doPendingFunctors()). *)
NoLostWakeup ==
    pc = "poll" /\ Len(pendingFunctors_) > early => WakeupDue

(* The loop never sleeps through a quit(): a quit() that comes too late for the
   test of quit_ is followed by a wakeup (quit() lines 106-110). *)
NoLostQuit == pc = "poll" /\ quit_ => WakeupDue

(* NoLostWakeup and NoLostQuit are not inductive.  What makes them so: the flag
   and the local vector follow doPendingFunctors(), and from the end of the swap
   on (and already before loop()) whatever is pending has its wakeup due. *)
LoopInv ==
    /\ TypeOK
    /\ callingPendingFunctors_ <=> pc \in {"swap", "run"}
    /\ running # NoFunctor => pc = "run"
    /\ functors # <<>> => pc = "run"
    /\ early <= Len(pendingFunctors_)
    /\ pc \in {"created", "check", "poll", "run"} /\ Len(pendingFunctors_) > early
          => WakeupDue
    /\ NoLostQuit

(* A quit() on a looping loop makes loop() return, without a poll timeout and
   although functors queue further functors, themselves included: the swap of
   doPendingFunctors() (lines 181-189) keeps them from holding the loop. *)
QuitEndsLoop == (quit_ /\ pc # "created") ~> (pc = "done")

(* EventLoop implements TaskQueue: the batch being run and the functors
   pending behind it are one queue (doPendingFunctors(), queueInLoop()). *)
Tasks == INSTANCE TaskQueue
            WITH queue <- functors \o pendingFunctors_,
                 stopped <- (pc = "done")

RunsInOrder == Tasks!Spec
RunsEventually == Tasks!FairSpec
=============================================================================
