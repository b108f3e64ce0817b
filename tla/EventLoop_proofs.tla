-------------------------- MODULE EventLoop_proofs --------------------------
(***************************************************************************)
(* Proofs about EventLoop for every set of threads, functors and channels: *)
(* LoopInv is inductive, no wakeup or quit is lost, and the loop runs its  *)
(* functors as TaskQueue says; about the TimerQueue it owns, for every set *)
(* of timers; and about its EPollPoller: the three records of a            *)
(* registration agree and the pointers in activeChannels_ are those of     *)
(* live channels, for every set of channels and descriptors.               *)
(***************************************************************************)
EXTENDS EventLoop, TimerQueue, EPollPoller, SequenceTheorems, FiniteSetTheorems,
        WellFoundedInduction, TLAPS

(* The state before any call satisfies LoopInv (constructor, lines 40-68). *)
LEMMA InitLoopInv == Init => LoopInv
<1>. SUFFICES ASSUME Init PROVE LoopInv
  OBVIOUS
<1>1. pendingFunctors_ = <<>> /\ <<>> \in Seq(Functor) /\ Len(<<>>) = 0
  BY DEF Init
<1>2. TypeOK
  BY <1>1 DEF Init, TypeOK, LoopPC
<1>3. early = 0 /\ Len(pendingFunctors_) = 0
  BY <1>1 DEF Init
<1>. QED
  BY <1>2, <1>3 DEF Init, LoopInv, NoLostQuit

(* Appending a functor keeps the type of a queue and adds one to its length. *)
LEMMA AppendFunctor ==
    ASSUME NEW s \in Seq(Functor), NEW f \in Functor
    PROVE  /\ Append(s, f) \in Seq(Functor)
           /\ Len(Append(s, f)) = Len(s) + 1
           /\ Len(s) \in Nat
  OBVIOUS

(* queueInLoop(), quit() and wakeup() called by another thread keep LoopInv. *)
LEMMA ThreadCallKeepsInv ==
    ASSUME LoopInv, NEW t \in Thread,
           (\E f \in Functor : QueueInLoop(t, f)) \/ Quit(t) \/ Wakeup(t)
    PROVE  LoopInv'
<1>1. ASSUME NEW f \in Functor, QueueInLoop(t, f)
      PROVE  LoopInv'
  <2>1. TypeOK' /\ Len(pendingFunctors_') = Len(pendingFunctors_) + 1
    BY <1>1, AppendFunctor DEF QueueInLoop, LoopInv, TypeOK
  <2>2. WakeupDue'
    BY <1>1 DEF QueueInLoop, LoopInv, TypeOK, WakeupDue
  <2>. QED
    BY <1>1, <2>1, <2>2, AppendFunctor
    DEF QueueInLoop, LoopInv, TypeOK, NoLostQuit
<1>2. CASE Quit(t)
  <2>1. TypeOK'
    BY <1>2 DEF Quit, LoopInv, TypeOK
  <2>2. WakeupDue'
    BY <1>2 DEF Quit, LoopInv, TypeOK, WakeupDue
  <2>. QED
    BY <1>2, <2>1, <2>2 DEF Quit, LoopInv, TypeOK, NoLostQuit
<1>3. CASE Wakeup(t)
  <2>1. TypeOK'
    BY <1>3 DEF Wakeup, LoopInv, TypeOK
  <2>2. WakeupDue'
    BY <1>3 DEF Wakeup, WakeupDue
  <2>. QED
    BY <1>3, <2>1, <2>2 DEF Wakeup, LoopInv, NoLostQuit
<1>. QED
  BY <1>1, <1>2, <1>3

(* queueInLoop() and quit() called in the loop's thread keep LoopInv. *)
LEMMA OwnCallKeepsInv ==
    ASSUME LoopInv, NEW f \in Functor,
           OwnerQueues(f) \/ CallbackQueues(f) \/ CallbackQuits
    PROVE  LoopInv'
<1>1. CASE OwnerQueues(f)
  <2>1. TypeOK' /\ Len(pendingFunctors_') = Len(pendingFunctors_) + 1
    BY <1>1, AppendFunctor DEF OwnerQueues, LoopInv, TypeOK
  <2>2. WakeupDue => WakeupDue'
    BY <1>1 DEF OwnerQueues, WakeupDue
  <2>. QED
    BY <1>1, <2>1, <2>2, AppendFunctor
    DEF OwnerQueues, LoopInv, TypeOK, NoLostQuit
<1>2. CASE CallbackQueues(f)
  <2>1. TypeOK' /\ Len(pendingFunctors_') = Len(pendingFunctors_) + 1
    BY <1>2, AppendFunctor DEF CallbackQueues, LoopInv, TypeOK
  <2>2. pc = "run" => WakeupDue'
    BY <1>2 DEF CallbackQueues, LoopInv, WakeupDue
  <2>3. pc \in {"run", "handler"} /\ pc' = pc
    BY <1>2 DEF CallbackQueues, InCallback, LoopInv
  <2>. QED
    BY <1>2, <2>1, <2>2, <2>3, AppendFunctor
    DEF CallbackQueues, LoopInv, TypeOK, NoLostQuit
<1>3. CASE CallbackQuits
  <2>1. TypeOK' /\ (WakeupDue => WakeupDue')
    BY <1>3 DEF CallbackQuits, LoopInv, TypeOK, WakeupDue
  <2>2. pc # "poll"
    BY <1>3 DEF CallbackQuits, InCallback, LoopInv
  <2>. QED
    BY <1>3, <2>1, <2>2 DEF CallbackQuits, LoopInv, NoLostQuit
<1>. QED
  BY <1>1, <1>2, <1>3

(* loop() keeps LoopInv up to and in the handling of the active channels. *)
LEMMA PassKeepsInv ==
    ASSUME LoopInv,
           \/ EnterLoop \/ CheckQuit \/ PollReturns \/ PollReturnsNothing
           \/ HandleRead \/ (\E c \in IoChannel : HandleEvent(c))
           \/ HandlerReturns
    PROVE  LoopInv'
<1>1. CASE EnterLoop
  BY <1>1 DEF EnterLoop, LoopInv, TypeOK, LoopPC, WakeupDue, NoLostQuit
<1>2. CASE CheckQuit
  BY <1>2 DEF CheckQuit, LoopInv, TypeOK, LoopPC, WakeupDue, NoLostQuit
<1>3. CASE PollReturns
  BY <1>3 DEF PollReturns, LoopInv, TypeOK, LoopPC, NoLostQuit
<1>4. CASE PollReturnsNothing
  BY <1>4 DEF PollReturnsNothing, LoopInv, TypeOK, LoopPC, NoLostQuit
<1>5. CASE HandleRead
  BY <1>5 DEF HandleRead, LoopInv, TypeOK, NoLostQuit
<1>6. ASSUME NEW c \in IoChannel, HandleEvent(c)
      PROVE  LoopInv'
  BY <1>6 DEF HandleEvent, LoopInv, TypeOK, LoopPC, NoLostQuit
<1>7. CASE HandlerReturns
  BY <1>7 DEF HandlerReturns, LoopInv, TypeOK, LoopPC, NoLostQuit
<1>. QED
  BY <1>1, <1>2, <1>3, <1>4, <1>5, <1>6, <1>7

(* doPendingFunctors() keeps LoopInv. *)
LEMMA FunctorsKeepInv ==
    ASSUME LoopInv,
           \/ DoPendingFunctors \/ SwapFunctors \/ RunFunctor
           \/ FunctorReturns \/ EndPendingFunctors
    PROVE  LoopInv'
<1>1. CASE DoPendingFunctors
  BY <1>1 DEF DoPendingFunctors, LoopInv, TypeOK, LoopPC, NoLostQuit
<1>2. CASE SwapFunctors
  <2>1. Len(pendingFunctors_') = 0 /\ early' = 0
    BY <1>2 DEF SwapFunctors
  <2>2. TypeOK'
    BY <1>2 DEF SwapFunctors, LoopInv, TypeOK, LoopPC
  <2>. QED
    BY <1>2, <2>1, <2>2 DEF SwapFunctors, LoopInv, NoLostQuit
<1>3. CASE RunFunctor
  <2>1. Head(functors) \in Functor /\ Tail(functors) \in Seq(Functor)
    BY <1>3 DEF RunFunctor, LoopInv, TypeOK
  <2>2. TypeOK' /\ (WakeupDue => WakeupDue')
    BY <1>3, <2>1 DEF RunFunctor, LoopInv, TypeOK, WakeupDue
  <2>. QED
    BY <1>3, <2>2 DEF RunFunctor, LoopInv, NoLostQuit
<1>4. CASE FunctorReturns
  BY <1>4 DEF FunctorReturns, LoopInv, TypeOK, WakeupDue, NoLostQuit
<1>5. CASE EndPendingFunctors
  BY <1>5 DEF EndPendingFunctors, LoopInv, TypeOK, LoopPC, WakeupDue,
              NoLostQuit
<1>. QED
  BY <1>1, <1>2, <1>3, <1>4, <1>5

(* Every step of the loop and of its callers keeps LoopInv. *)
LEMMA NextKeepsInv == LoopInv /\ [Next]_vars => LoopInv'
<1>. SUFFICES ASSUME LoopInv, [Next]_vars
              PROVE  LoopInv'
  OBVIOUS
<1>1. ASSUME NEW t \in Thread,
             (\E f \in Functor : QueueInLoop(t, f)) \/ Quit(t) \/ Wakeup(t)
      PROVE  LoopInv'
  BY <1>1, ThreadCallKeepsInv
<1>2. ASSUME NEW f \in Functor, OwnerQueues(f) \/ CallbackQueues(f)
      PROVE  LoopInv'
  BY <1>2, OwnCallKeepsInv
<1>3. CASE CallbackQuits
  BY <1>3 DEF CallbackQuits, InCallback, LoopInv, TypeOK, WakeupDue, NoLostQuit
<1>4. CASE EnterLoop \/ PollReturns \/ PollReturnsNothing
  BY <1>4, PassKeepsInv
<1>5. CASE LoopStep
  BY <1>5, PassKeepsInv, FunctorsKeepInv DEF LoopStep
<1>6. CASE UNCHANGED vars
  BY <1>6 DEF vars, LoopInv, TypeOK, WakeupDue, NoLostQuit
<1>. QED
  BY <1>1, <1>2, <1>3, <1>4, <1>5, <1>6 DEF Next

(* LoopInv holds throughout: among others, callingPendingFunctors_ is set
   exactly from the swap to the end of the batch. *)
THEOREM LoopInvHolds == Spec => []LoopInv
<1>. QED
  BY InitLoopInv, NextKeepsInv, PTL DEF Spec

(* loop() never blocks in poll() on functors whose wakeup was lost. *)
THEOREM NoWakeupIsLost == Spec => []NoLostWakeup
<1>1. LoopInv => NoLostWakeup
  BY DEF LoopInv, NoLostWakeup
<1>. QED
  BY <1>1, LoopInvHolds, PTL

(* loop() never blocks in poll() through a quit() that came after line 83. *)
THEOREM NoQuitIsLost == Spec => []NoLostQuit
<1>1. LoopInv => NoLostQuit
  BY DEF LoopInv
<1>. QED
  BY <1>1, LoopInvHolds, PTL

-----------------------------------------------------------------------------
(* EventLoop implements TaskQueue.                                         *)

(* Taking the head off the front of a concatenation takes it off the whole. *)
LEMMA HeadOfConcat ==
    ASSUME NEW s \in Seq(Functor), NEW p \in Seq(Functor), s # <<>>
    PROVE  /\ s \o p # <<>>
           /\ Head(s \o p) = Head(s)
           /\ Tail(s \o p) = Tail(s) \o p
<1>1. /\ s \o p \in Seq(Functor) /\ Len(s \o p) = Len(s) + Len(p)
      /\ \A i \in 1 .. Len(s) + Len(p) :
            (s \o p)[i] = IF i <= Len(s) THEN s[i] ELSE p[i - Len(s)]
  BY ConcatProperties
<1>2. Len(s) \in Nat \ {0} /\ Len(p) \in Nat
  BY EmptySeq
<1>3. s \o p # <<>>
  BY <1>1, <1>2
<1>4. Head(s \o p) = Head(s)
  BY <1>1, <1>2, <1>3
<1>5. Tail(s \o p) = Tail(s) \o p
  <2>. DEFINE l == Tail(s \o p)
              r == Tail(s) \o p
  <2>1. /\ Tail(s) \in Seq(Functor) /\ Len(Tail(s)) = Len(s) - 1
        /\ \A i \in 1 .. Len(s) - 1 : Tail(s)[i] = s[i + 1]
    BY <1>2, HeadTailProperties
  <2>2. /\ l \in Seq(Functor) /\ Len(l) = Len(s) + Len(p) - 1
        /\ \A i \in 1 .. Len(s) + Len(p) - 1 : l[i] = (s \o p)[i + 1]
    BY <1>1, <1>3, HeadTailProperties
  <2>3. /\ r \in Seq(Functor) /\ Len(r) = Len(s) - 1 + Len(p)
        /\ \A i \in 1 .. Len(s) - 1 + Len(p) :
              r[i] = IF i <= Len(s) - 1 THEN Tail(s)[i]
                                        ELSE p[i - (Len(s) - 1)]
    BY <2>1, ConcatProperties
  <2>4. ASSUME NEW i \in 1 .. Len(l) PROVE l[i] = r[i]
    BY <1>1, <1>2, <2>1, <2>2, <2>3
  <2>. QED
    BY <1>2, <2>2, <2>3, <2>4, SeqEqual
<1>. QED
  BY <1>3, <1>4, <1>5

(* Appending to the second of two queues appends to both together. *)
LEMMA AppendToConcat ==
    ASSUME NEW s \in Seq(Functor), NEW p \in Seq(Functor), NEW f \in Functor
    PROVE  s \o Append(p, f) = Append(s \o p, f)
  BY AppendIsConcat, ConcatAssociative, ConcatProperties

(* A loop nobody has used is an empty task queue. *)
LEMMA InitIsTaskInit == Init => Tasks!Init
  BY DEF Init, Tasks!Init

(* Every step of the loop or of a caller is a step of TaskQueue or leaves its
   variables alone. *)
LEMMA StepIsTaskStep ==
    LoopInv /\ [Next]_vars => [Tasks!Next]_Tasks!vars
<1>. SUFFICES ASSUME LoopInv, [Next]_vars
              PROVE  [Tasks!Next]_Tasks!vars
  OBVIOUS
<1>. DEFINE queue == functors \o pendingFunctors_
            stopped == pc = "done"
<1>t. /\ functors \in Seq(Functor) /\ pendingFunctors_ \in Seq(Functor)
      /\ running \in Functor \cup {NoFunctor}
  BY DEF LoopInv, TypeOK
<1>u. ASSUME queue' = queue, running' = running, stopped' = stopped
      PROVE  [Tasks!Next]_Tasks!vars
  BY <1>u DEF Tasks!vars
<1>p. ASSUME NEW f \in Functor, functors' = functors,
             pendingFunctors_' = Append(pendingFunctors_, f),
             running' = running, pc' = pc
      PROVE  [Tasks!Next]_Tasks!vars
  <2>1. queue' = Append(queue, f)
    BY <1>p, <1>t, AppendToConcat
  <2>. QED
    BY <1>p, <2>1 DEF Tasks!Next, Tasks!Post
<1>1. ASSUME NEW t \in Thread, NEW f \in Functor, QueueInLoop(t, f)
      PROVE  [Tasks!Next]_Tasks!vars
  BY <1>1, <1>p DEF QueueInLoop
<1>2. ASSUME NEW t \in Thread, Quit(t) \/ Wakeup(t)
      PROVE  [Tasks!Next]_Tasks!vars
  BY <1>2, <1>u DEF Quit, Wakeup
<1>3. ASSUME NEW f \in Functor, OwnerQueues(f) \/ CallbackQueues(f)
      PROVE  [Tasks!Next]_Tasks!vars
  BY <1>3, <1>p DEF OwnerQueues, CallbackQueues
<1>4. CASE CallbackQuits
  BY <1>4, <1>u DEF CallbackQuits
<1>5. CASE EnterLoop \/ PollReturns \/ PollReturnsNothing
  BY <1>5, <1>u DEF EnterLoop, PollReturns, PollReturnsNothing
<1>6. CASE CheckQuit
  <2>1. running = NoFunctor
    BY <1>6 DEF CheckQuit, LoopInv
  <2>2. CASE quit_
    BY <1>6, <2>1, <2>2 DEF CheckQuit, Tasks!Next, Tasks!Stop
  <2>3. CASE ~quit_
    BY <1>6, <2>3, <1>u DEF CheckQuit
  <2>. QED
    BY <2>2, <2>3
<1>7. CASE HandleRead \/ (\E c \in IoChannel : HandleEvent(c))
              \/ HandlerReturns \/ DoPendingFunctors
  BY <1>7, <1>u DEF HandleRead, HandleEvent, HandlerReturns, DoPendingFunctors
<1>8. CASE SwapFunctors
  <2>1. functors = <<>>
    BY <1>8 DEF SwapFunctors, LoopInv
  <2>2. queue' = queue
    BY <1>8, <1>t, <2>1, ConcatEmptySeq DEF SwapFunctors
  <2>. QED
    BY <1>8, <2>2, <1>u DEF SwapFunctors
<1>9. CASE RunFunctor
  <2>1. queue # <<>> /\ Head(queue) = Head(functors) /\ queue' = Tail(queue)
    BY <1>9, <1>t, HeadOfConcat DEF RunFunctor
  <2>. QED
    BY <1>9, <2>1 DEF RunFunctor, Tasks!Next, Tasks!Start
<1>10. CASE FunctorReturns
  BY <1>10 DEF FunctorReturns, Tasks!Next, Tasks!Finish
<1>11. CASE EndPendingFunctors
  BY <1>11, <1>u DEF EndPendingFunctors
<1>12. CASE UNCHANGED vars
  BY <1>12, <1>u DEF vars
<1>. QED
  BY <1>1, <1>2, <1>3, <1>4, <1>5, <1>6, <1>7, <1>8, <1>9, <1>10, <1>11,
     <1>12 DEF Next, LoopStep

(* The functors of a loop are run one at a time, each as often as it was
   queued, in the order of queueInLoop(), until loop() returns. *)
THEOREM ImplementsTaskQueue == Spec => RunsInOrder
<1>. QED
  BY InitIsTaskInit, StepIsTaskStep, LoopInvHolds, PTL
  DEF Spec, RunsInOrder, Tasks!Spec

-----------------------------------------------------------------------------
(* The timers: timerfd_ is armed for the earliest and no callback runs      *)
(* before its time, for any set of timers, any intervals and any            *)
(* interleaving of addTimer() with handleRead().                            *)

(* Timers are armed for and run at their time, until the clock is set. *)
TimerInv == ArmedForEarliest /\ NotEarly

-----------------------------------------------------------------------------

(* There is a least of several times: timers_.begin(). *)
LEMMA Least ==
    ASSUME NEW S \in SUBSET Nat, S # {}
    PROVE  \E n \in S : \A m \in S : n <= m
<1> DEFINE R == OpToRel(<, Nat)
<1>1. IsWellFoundedOn(R, Nat)
  BY NatLessThanWellFounded
<1>2. \A x, y \in Nat : x < y => <<x, y>> \in R
  BY DEF OpToRel
<1> HIDE DEF R
<1>3. PICK n \in S : \A m \in S : ~ (<<m, n>> \in R)
  BY <1>1, WFMin
<1>4. SUFFICES ASSUME NEW m \in S PROVE n <= m
  BY <1>3
<1>5. n \in Nat /\ m \in Nat /\ ~ (m < n)
  BY <1>2, <1>3, <1>4, Zenon
<1>6. QED
  BY <1>5

(* resetTimerfd() never arms for now or before, and an earlier time not later. *)
LEMMA ArmForOrder ==
    /\ \A n \in Nat : ArmFor(n) \in Nat /\ ArmFor(n) >= 1 /\ ArmFor(n) >= n
    /\ \A n, m \in Nat : n <= m => ArmFor(n) <= ArmFor(m)
BY DEF ArmFor

(* reset() arms timerfd_ not later than any of the times ahead. *)
LEMMA RearmForLeast ==
    ASSUME NEW ahead \in SUBSET Nat, timerfd_ \in Nat \cup {Off}
    PROVE  /\ Rearm(ahead) \in Nat \cup {Off}
           /\ \A n \in ahead : Rearm(ahead) \in Nat /\ Rearm(ahead) <= ArmFor(n)
<1>1. CASE ahead = {}
  BY <1>1 DEF Rearm
<1>2. CASE ahead # {}
  <2> DEFINE least == CHOOSE n \in ahead : \A m \in ahead : n <= m
  <2>1. least \in ahead /\ \A m \in ahead : least <= m
    BY <1>2, Least
  <2>2. Rearm(ahead) = ArmFor(least)
    BY <1>2 DEF Rearm
  <2> HIDE DEF least
  <2>3. QED
    BY <2>1, <2>2, ArmForOrder
<1>3. QED
  BY <1>1, <1>2

(* A clock that moves on by n. *)
LEMMA LessIsNat ==
    \A n, by \in Nat : Less(n, by) \in Nat /\ Less(n, by) = IF n > by THEN n - by ELSE 0
BY DEF Less

(* A new TimerQueue has no timers. *)
LEMMA InitTimers == TimerInit => TimerInv
BY TimerQueueAssumption
   DEF TimerInit, TimerInv, ArmedForEarliest, NotEarly, TimerTypeOK, In, Places

-----------------------------------------------------------------------------
(* Adding a timer.                                                         *)

(* addTimer() from another thread. *)
LEMMA AddTimerStep ==
    ASSUME NEW t \in Timer, NEW delay \in Nat
    PROVE  TimerInv /\ AddTimer(t, delay) => TimerInv'
<1>1. SUFFICES ASSUME TimerInv, AddTimer(t, delay) PROVE TimerInv'
  OBVIOUS
<1>2. TimerTypeOK /\ ArmedForEarliest /\ NotEarly
  BY <1>1 DEF TimerInv, ArmedForEarliest
<1>3. /\ where[t] = "new" /\ UNCHANGED <<timerfd_, phase, jumps>>
      /\ \A u \in Timer : /\ where'[u] = IF u = t THEN "queued" ELSE where[u]
                          /\ due'[u] = IF u = t THEN delay ELSE due[u]
      /\ where' \in [Timer -> Places] /\ due' \in [Timer -> Nat]
  BY <1>1, <1>2 DEF AddTimer, TimerTypeOK, Places
<1>4. TimerTypeOK'
  BY <1>2, <1>3 DEF TimerTypeOK, In
<1>5. ArmedForEarliest' /\ NotEarly'
  BY <1>2, <1>3, <1>4 DEF ArmedForEarliest, NotEarly, In
<1>6. QED
  BY <1>5 DEF TimerInv

(* insert() answers whether the new timer is now the earliest: if it says no,
   there is one in timers_ that is not later. *)
LEMMA EarlierOne ==
    ASSUME TimerTypeOK, NEW t \in Timer, NEW left \in Nat,
           FALSE \in EarliestChanged(t, left)
    PROVE  \E u \in In("set") : due[u] <= left
<1>1. CASE \A u \in In("set") : left < due[u]
  BY <1>1 DEF EarliestChanged
<1>2. CASE ~ \A u \in In("set") : left < due[u]
  BY <1>2 DEF TimerTypeOK, In
<1>3. QED
  BY <1>1, <1>2

(* ... and if it says yes, none is earlier. *)
LEMMA NoneEarlier ==
    ASSUME TimerTypeOK, NEW t \in Timer, NEW left \in Nat,
           TRUE \in EarliestChanged(t, left)
    PROVE  \A u \in In("set") : left <= due[u]
<1>1. CASE \A u \in In("set") : left < due[u]
  BY <1>1 DEF TimerTypeOK, In
<1>2. CASE ~ \A u \in In("set") : left < due[u]
  <2>1. left = 0
    BY <1>2 DEF EarliestChanged
  <2>2. \A u \in In("set") : due[u] \in Nat
    BY DEF TimerTypeOK, In
  <2>3. QED
    BY <2>1, <2>2
<1>3. QED
  BY <1>1, <1>2

(* addTimerInLoop(), directly or for a queued timer: t goes to timers_ with
   left to go. *)
LEMMA AddInLoopKeeps ==
    ASSUME TimerInv, NEW t \in Timer, NEW left \in Nat,
           where[t] \in {"new", "queued"},
           AddTimerInLoop(t, left), UNCHANGED <<phase, jumps>>,
           due' = [due EXCEPT ![t] = left]
    PROVE  TimerInv'
<1>1. TimerTypeOK /\ ArmedForEarliest /\ NotEarly
  BY DEF TimerInv, ArmedForEarliest
<1>2. PICK earliest \in EarliestChanged(t, left) :
        timerfd_' = IF earliest THEN ArmFor(left) ELSE timerfd_
  BY DEF AddTimerInLoop
<1>3. /\ \A u \in Timer : /\ where'[u] = IF u = t THEN "set" ELSE where[u]
                          /\ due'[u] = IF u = t THEN left ELSE due[u]
      /\ where' \in [Timer -> Places] /\ due' \in [Timer -> Nat]
      /\ In("set")' = In("set") \cup {t} /\ t \notin In("set")
  BY <1>1 DEF AddTimerInLoop, TimerTypeOK, Places, In
<1>4. ArmFor(left) \in Nat
  BY ArmForOrder
<1>5. TimerTypeOK'
  BY <1>1, <1>2, <1>3, <1>4 DEF TimerTypeOK, In
<1>6. ASSUME phase # "run", jumps = 0, NEW u \in In("set")'
      PROVE  timerfd_' # Off /\ timerfd_' <= ArmFor(due'[u])
  <2>1. \A v \in In("set") : timerfd_ \in Nat /\ timerfd_ # Off /\ timerfd_ <= ArmFor(due[v]) /\ due[v] \in Nat
    BY <1>1, <1>6 DEF ArmedForEarliest, TimerTypeOK, In
  <2>2. CASE earliest = TRUE
    <3>1. \A v \in In("set") : left <= due[v] /\ due[v] \in Nat
      BY <1>1, <1>2, <2>1, <2>2, NoneEarlier
    <3>2. due'[u] \in Nat /\ left <= due'[u]
      BY <1>3, <1>6, <3>1 DEF In
    <3>3. timerfd_' = ArmFor(left)
      BY <1>2, <2>2
    <3>4. QED
      BY <1>4, <3>2, <3>3, ArmForOrder, TimerQueueAssumption
  <2>3. CASE earliest # TRUE
    <3>1. earliest = FALSE /\ timerfd_' = timerfd_
      BY <1>2, <2>3 DEF EarliestChanged
    <3>2. PICK v \in In("set") : due[v] <= left
      BY <1>1, <1>2, <3>1, EarlierOne
    <3>3. ArmFor(due[v]) <= ArmFor(left) /\ timerfd_ <= ArmFor(left) /\ timerfd_ # Off
      BY <1>4, <2>1, <3>2, ArmForOrder
    <3>4. CASE u = t
      BY <1>3, <3>1, <3>3, <3>4
    <3>5. CASE u # t
      BY <1>3, <1>6, <2>1, <3>1, <3>5 DEF In
    <3>6. QED
      BY <3>4, <3>5
  <2>4. QED
    BY <2>2, <2>3
<1>7. ArmedForEarliest'
  BY <1>5, <1>6 DEF ArmedForEarliest
<1>8. NotEarly'
  BY <1>1, <1>3 DEF NotEarly
<1>9. QED
  BY <1>7, <1>8 DEF TimerInv

-----------------------------------------------------------------------------
(* Expiration and the clocks.                                              *)

(* handleRead() takes the timers that are due. *)
LEMMA HandleReadStep == TimerInv /\ HandleTimerfd => TimerInv'
<1>1. SUFFICES ASSUME TimerInv, HandleTimerfd PROVE TimerInv'
  OBVIOUS
<1>2. TimerTypeOK /\ NotEarly
  BY <1>1 DEF TimerInv, ArmedForEarliest
<1>3. /\ phase' = "run" /\ UNCHANGED <<due, jumps>> /\ timerfd_' \in Nat \cup {Off}
      /\ where' \in [Timer -> Places]
      /\ \A t \in Timer : /\ where'[t] \in {where[t], "expired"}
                          /\ where'[t] # where[t] => due[t] = 0
  BY <1>1, <1>2 DEF HandleTimerfd, ReadTimerfd, GetExpired, TimerTypeOK, Places, In
<1>4. TimerTypeOK' /\ ArmedForEarliest'
  BY <1>2, <1>3 DEF TimerTypeOK, ArmedForEarliest
<1>5. NotEarly'
  BY <1>2, <1>3 DEF NotEarly
<1>6. QED
  BY <1>4, <1>5 DEF TimerInv

(* A callback runs. *)
LEMMA RunStep == ASSUME NEW t \in Timer PROVE TimerInv /\ Run(t) => TimerInv'
<1>1. SUFFICES ASSUME TimerInv, Run(t) PROVE TimerInv'
  OBVIOUS
<1>2. TimerTypeOK /\ NotEarly
  BY <1>1 DEF TimerInv, ArmedForEarliest
<1>3. /\ phase = "run" /\ where[t] = "expired" /\ UNCHANGED <<due, timerfd_, phase, jumps>>
      /\ where' \in [Timer -> Places]
      /\ \A u \in Timer : where'[u] = IF u = t THEN "ran" ELSE where[u]
  BY <1>1, <1>2 DEF Run, TimerTypeOK, Places
<1>4. TimerTypeOK' /\ ArmedForEarliest'
  BY <1>2, <1>3 DEF TimerTypeOK, ArmedForEarliest
<1>5. NotEarly'
  BY <1>2, <1>3 DEF NotEarly
<1>6. QED
  BY <1>4, <1>5 DEF TimerInv

(* reset() restarts the timers that repeat and arms timerfd_. *)
LEMMA ResetStep == TimerInv /\ Reset => TimerInv'
<1>1. SUFFICES ASSUME TimerInv, Reset PROVE TimerInv'
  OBVIOUS
<1>2. TimerTypeOK /\ In("expired") = {} /\ phase' = "elsewhere" /\ UNCHANGED jumps
  BY <1>1 DEF TimerInv, ArmedForEarliest, Reset
<1>3. /\ due' \in [Timer -> Nat] /\ where' \in [Timer -> Places]
      /\ \A t \in Timer : where'[t] \notin {"expired", "ran"}
  BY <1>1, <1>2, TimerQueueAssumption DEF Reset, AfterRun, TimerTypeOK, Places, In
<1> DEFINE ahead == {due'[t] : t \in {u \in Timer : where'[u] = "set"}}
<1>4. ahead \in SUBSET Nat /\ timerfd_' = Rearm(ahead)
  BY <1>1, <1>3 DEF Reset
<1>5. /\ timerfd_' \in Nat \cup {Off}
      /\ \A n \in ahead : timerfd_' \in Nat /\ timerfd_' <= ArmFor(n)
  BY <1>2, <1>4, RearmForLeast DEF TimerTypeOK
<1>6. TimerTypeOK'
  BY <1>2, <1>3, <1>5 DEF TimerTypeOK, In
<1>7. ArmedForEarliest'
  BY <1>5, <1>6, TimerQueueAssumption DEF ArmedForEarliest, In
<1>8. NotEarly'
  BY <1>3 DEF NotEarly
<1>9. QED
  BY <1>7, <1>8 DEF TimerInv

(* Time passes. *)
LEMMA TickStep == TimerInv /\ Tick => TimerInv'
<1>1. SUFFICES ASSUME TimerInv, Tick PROVE TimerInv'
  OBVIOUS
<1>2. TimerTypeOK /\ ArmedForEarliest /\ NotEarly
  BY <1>1 DEF TimerInv, ArmedForEarliest
<1>3. /\ UNCHANGED <<where, phase, jumps>>
      /\ \A t \in Timer : due[t] \in Nat /\ due'[t] = (IF due[t] > 1 THEN due[t] - 1 ELSE 0)
      /\ due' \in [Timer -> Nat]
      /\ timerfd_ = Off => timerfd_' = Off
      /\ timerfd_ # Off => timerfd_ \in Nat /\ timerfd_' = (IF timerfd_ > 1 THEN timerfd_ - 1 ELSE 0)
  BY <1>1, <1>2 DEF Tick, Less, TimerTypeOK
<1>4. timerfd_' \in Nat \cup {Off} /\ (timerfd_ # Off => timerfd_' # Off)
  BY <1>3, TimerQueueAssumption
<1>5. TimerTypeOK'
  BY <1>2, <1>3, <1>4 DEF TimerTypeOK, In
<1>6. ASSUME phase # "run", jumps = 0, NEW t \in In("set")
      PROVE  timerfd_' # Off /\ timerfd_' <= ArmFor(due'[t])
  <2>1. timerfd_ # Off /\ timerfd_ <= ArmFor(due[t]) /\ t \in Timer
    BY <1>2, <1>6 DEF ArmedForEarliest, In
  <2>2. QED
    BY <1>3, <1>4, <2>1 DEF ArmFor
<1>7. ArmedForEarliest'
  BY <1>3, <1>5, <1>6 DEF ArmedForEarliest, In
<1>8. NotEarly'
  BY <1>2, <1>3 DEF NotEarly
<1>9. QED
  BY <1>7, <1>8 DEF TimerInv

(* The wall clock is set: the bounds are given up. *)
LEMMA SetClockStep == ASSUME NEW by \in Nat PROVE TimerInv /\ SetClock(by) => TimerInv'
<1>1. SUFFICES ASSUME TimerInv, SetClock(by) PROVE TimerInv'
  OBVIOUS
<1>2. TimerTypeOK
  BY <1>1 DEF TimerInv, ArmedForEarliest
<1>3. jumps' \in 0 .. MaxJumps /\ jumps' # 0 /\ UNCHANGED <<where, timerfd_, phase>>
  BY <1>1, <1>2, TimerQueueAssumption DEF SetClock, TimerTypeOK
<1>4. due' \in [Timer -> Nat]
  <2>1. CASE due' = [t \in Timer |-> Less(due[t], by)]
    BY <1>2, <2>1, LessIsNat DEF TimerTypeOK
  <2>2. CASE \E back \in [Timer -> 0 .. by] :
                due' = [t \in Timer |-> IF due[t] > 0 THEN due[t] + by ELSE back[t]]
    BY <1>2, <2>2 DEF TimerTypeOK
  <2>3. QED
    BY <1>1, <2>1, <2>2 DEF SetClock
<1>5. QED
  BY <1>2, <1>3, <1>4 DEF TimerInv, ArmedForEarliest, NotEarly, TimerTypeOK, In

-----------------------------------------------------------------------------

(* Every step keeps TimerInv. *)
LEMMA TimerInvStep == TimerInv /\ [TimerNext]_timerVars => TimerInv'
<1>1. SUFFICES ASSUME TimerInv, [TimerNext]_timerVars PROVE TimerInv'
  OBVIOUS
<1>2. TimerTypeOK /\ ArmedForEarliest /\ NotEarly
  BY <1>1 DEF TimerInv, ArmedForEarliest
<1>3. ASSUME NEW t \in Timer, NEW delay \in 0 .. MaxDelay, AddInLoop(t, delay)
      PROVE  TimerInv'
  <2>1. delay \in Nat /\ where[t] \in {"new", "queued"}
    BY <1>3 DEF AddInLoop
  <2>2. QED
    BY <1>1, <1>3, <2>1, AddInLoopKeeps DEF AddInLoop
<1>4. ASSUME NEW t \in Timer, AddQueued(t) PROVE TimerInv'
  <2>1. due[t] \in Nat /\ due' = [due EXCEPT ![t] = due[t]]
    BY <1>2, <1>4 DEF AddQueued, TimerTypeOK
  <2>2. QED
    BY <1>1, <1>4, <2>1, AddInLoopKeeps DEF AddQueued
<1>5. ASSUME NEW t \in Timer, NEW delay \in 0 .. MaxDelay, AddTimer(t, delay)
      PROVE  TimerInv'
  BY <1>1, <1>5, AddTimerStep
<1>6. ASSUME NEW by \in 1 .. MaxDelay, SetClock(by) PROVE TimerInv'
  BY <1>1, <1>6, SetClockStep
<1>7. CASE Poll \/ UNCHANGED timerVars
  BY <1>1, <1>2, <1>7 DEF Poll, timerVars, TimerInv, ArmedForEarliest, NotEarly, TimerTypeOK, In
<1>8. QED
  BY <1>1, <1>3, <1>4, <1>5, <1>6, <1>7, HandleReadStep, RunStep, ResetStep, TickStep
     DEF TimerNext

(* The inductive invariant of the timers. *)
THEOREM TimerInvariant == TimerSpec => []TimerInv
<1>1. QED
  BY InitTimers, TimerInvStep, PTL DEF TimerSpec

(* Until the clock is set, timerfd_ is armed for the earliest timer whenever
   the loop is not in handleRead(): no timer is forgotten, whoever adds one. *)
THEOREM TimerfdArmed == TimerSpec => []ArmedForEarliest
<1>1. TimerInv => ArmedForEarliest
  BY DEF TimerInv
<1>2. QED
  BY <1>1, TimerInvariant, PTL

(* Until the clock is set, no callback runs before its time. *)
THEOREM TimersNotEarly == TimerSpec => []NotEarly
<1>1. TimerInv => NotEarly
  BY DEF TimerInv
<1>2. QED
  BY <1>1, TimerInvariant, PTL

-----------------------------------------------------------------------------
(* EPollPoller.                                                            *)

Lives == {"none", "made", "up", "closing", "removed", "gone"}

Report == [channel : Chan, revents : SUBSET {"read", "write", "hup"}]

(* The Channels, their lives and what epoll_wait() reported have their types. *)
PollerTypeOK ==
    /\ ch \in [Chan -> [fd : Fd \cup {None}, events : SUBSET {"read", "write"},
                          index : {"kNew", "kAdded", "kDeleted"}]]
    /\ life \in [Chan -> Lives]
    /\ active \in Seq(Report)
    /\ at \in {"poll", "handle", "functors"}

(* A Channel whose descriptor is open. *)
HasFd(c) == life[c] \notin {"none", "gone"}
Known(c) == life[c] \in {"up", "closing"}

IndexOf(c) ==
    IF life[c] = "up" THEN "kAdded" ELSE IF life[c] = "closing" THEN "kDeleted" ELSE "kNew"

(* The index and the events of a channel follow from where it is in its life. *)
ChannelsFollowLife ==
    \A c \in Chan :
        /\ ch[c].index = IndexOf(c)
        /\ IF life[c] = "up" THEN "read" \in ch[c].events ELSE ch[c].events = {}

(* No two open channels have the same descriptor. *)
FdsDiffer ==
    /\ \A c \in Chan : HasFd(c) => ch[c].fd \in Fd
    /\ \A c, d \in Chan : HasFd(c) /\ HasFd(d) /\ ch[c].fd = ch[d].fd => c = d

(* The Poller and the kernel have the channels that are in the right part of
   their lives, and nothing else. *)
RecordsFollowLife ==
    /\ \A c \in Chan : Known(c) => ch[c].fd \in DOMAIN channels_ /\ channels_[ch[c].fd] = c
    /\ \A fd \in DOMAIN channels_ : \E c \in Chan : Known(c) /\ ch[c].fd = fd
    /\ \A c \in Chan : life[c] = "up" =>
          /\ ch[c].fd \in DOMAIN epoll
          /\ epoll[ch[c].fd] = [ptr |-> c, events |-> ch[c].events]
    /\ \A fd \in DOMAIN epoll : \E c \in Chan : life[c] = "up" /\ ch[c].fd = fd

(* Outside the handling of events there are none; a channel with a hangup or
   something to read has not begun to close. *)
ActiveFollowsLife ==
    /\ at # "handle" => active = <<>>
    /\ \A i \in DOMAIN active :
          /\ Known(active[i].channel)
          /\ active[i].revents \cap {"read", "hup"} # {} => life[active[i].channel] = "up"
    /\ \A i, j \in DOMAIN active : active[i].channel = active[j].channel => i = j

(* RegistrationsAgree and ActiveChannelsLive are not inductive: they do not say
   which channels are registered, nor that only one can close a channel. *)
PollerInv ==
    /\ PollerTypeOK
    /\ ChannelsFollowLife
    /\ FdsDiffer
    /\ RecordsFollowLife
    /\ ActiveFollowsLife
    /\ ~aborted

-----------------------------------------------------------------------------

(* What is in a list. *)
LEMMA ElementOf ==
    ASSUME NEW S, NEW q \in Seq(S), NEW i \in DOMAIN q
    PROVE  q[i] \in S
BY LenProperties, ElementOfSeq

(* A list whose first element was replaced. *)
LEMMA NewHead ==
    ASSUME NEW S, NEW q \in Seq(S), q # <<>>, NEW h \in S, NEW p, p = <<h>> \o Tail(q)
    PROVE  /\ p \in Seq(S) /\ DOMAIN p = DOMAIN q /\ p[1] = h
           /\ \A i \in DOMAIN q : i # 1 => p[i] = q[i]
<1>1. Len(q) \in Nat /\ Len(q) # 0 /\ DOMAIN q = 1 .. Len(q)
  BY EmptySeq, LenProperties
<1>2. /\ Tail(q) \in Seq(S) /\ Len(Tail(q)) = Len(q) - 1
      /\ \A i \in 1 .. Len(q) - 1 : Tail(q)[i] = q[i + 1]
  BY <1>1
<1>3. <<h>> \in Seq(S) /\ Len(<<h>>) = 1 /\ <<h>>[1] = h
  OBVIOUS
<1>4. /\ p \in Seq(S) /\ Len(p) = Len(q)
      /\ \A i \in 1 .. Len(q) : p[i] = IF i <= 1 THEN <<h>>[i] ELSE Tail(q)[i - 1]
  BY <1>1, <1>2, <1>3, ConcatProperties
<1>5. DOMAIN p = DOMAIN q
  BY <1>1, <1>4, LenProperties
<1>6. \A i \in DOMAIN q : i # 1 => i - 1 \in 1 .. Len(q) - 1 /\ (i - 1) + 1 = i
  BY <1>1
<1>7. p[1] = h /\ \A i \in DOMAIN q : i # 1 => p[i] = q[i]
  BY <1>1, <1>2, <1>3, <1>4, <1>6
<1>8. QED
  BY <1>4, <1>5, <1>7

(* A list without its first element. *)
LEMMA TailShifts ==
    ASSUME NEW S, NEW q \in Seq(S), q # <<>>, NEW p, p = Tail(q)
    PROVE  /\ p \in Seq(S)
           /\ \A i \in DOMAIN p : i + 1 \in DOMAIN q /\ i + 1 # 1 /\ p[i] = q[i + 1]
           /\ \A i, j \in DOMAIN p : i + 1 = j + 1 => i = j
<1>1. Len(q) \in Nat /\ Len(q) # 0 /\ DOMAIN q = 1 .. Len(q)
  BY EmptySeq, LenProperties
<1>2. /\ p \in Seq(S) /\ Len(p) = Len(q) - 1
      /\ \A i \in 1 .. Len(q) - 1 : p[i] = q[i + 1]
  BY <1>1
<1>3. DOMAIN p = 1 .. Len(q) - 1
  BY <1>1, <1>2, LenProperties
<1>4. QED
  BY <1>1, <1>2, <1>3

-----------------------------------------------------------------------------
(* Channels and their registrations.                                       *)

(* The part of PollerInv that is about channels. *)
ChannelInv ==
    /\ ch \in [Chan -> [fd : Fd \cup {None}, events : SUBSET {"read", "write"},
                          index : {"kNew", "kAdded", "kDeleted"}]]
    /\ life \in [Chan -> Lives]
    /\ ChannelsFollowLife /\ FdsDiffer /\ RecordsFollowLife

(* Records that stay as they are, with the channels in them. *)
LEMMA RecordsStay ==
    ASSUME RecordsFollowLife, UNCHANGED channels_,
           DOMAIN epoll' = DOMAIN epoll, \A fd \in DOMAIN epoll : epoll'[fd] = epoll[fd],
           \A d \in Chan : life[d] \in {"up", "closing"} \/ life'[d] \in {"up", "closing"} =>
               ch'[d] = ch[d] /\ life'[d] = life[d]
    PROVE  RecordsFollowLife'
<1>1. \A d \in Chan : Known(d)' => Known(d) /\ ch'[d] = ch[d]
  BY DEF Known
<1>2. \A d \in Chan : Known(d) => Known(d)' /\ ch'[d] = ch[d]
  BY DEF Known
<1>3. \A d \in Chan : life[d] = "up" <=> life'[d] = "up"
  OBVIOUS
<1>4. \A d \in Chan : Known(d)' => ch'[d].fd \in DOMAIN channels_' /\ channels_'[ch'[d].fd] = d
  BY <1>1 DEF RecordsFollowLife
<1>5. \A fd \in DOMAIN channels_' : \E d \in Chan : Known(d)' /\ ch'[d].fd = fd
  BY <1>2 DEF RecordsFollowLife
<1>6. \A d \in Chan : life'[d] = "up" =>
          /\ ch'[d].fd \in DOMAIN epoll'
          /\ epoll'[ch'[d].fd] = [ptr |-> d, events |-> ch'[d].events]
  BY <1>3 DEF RecordsFollowLife
<1>7. \A fd \in DOMAIN epoll' : \E d \in Chan : life'[d] = "up" /\ ch'[d].fd = fd
  BY <1>3 DEF RecordsFollowLife
<1>8. QED
  BY <1>4, <1>5, <1>6, <1>7 DEF RecordsFollowLife

(* The descriptors that are taken are those of open channels. *)
LEMMA OpenFdsAre == OpenFds = {ch[c].fd : c \in {d \in Chan : HasFd(d)}}
BY DEF OpenFds, HasFd

(* The constructor of a Channel, on a descriptor that no open one has. *)
LEMMA ConstructKeeps ==
    ASSUME ChannelInv, NEW c \in Chan, NEW fd \in Fd, Construct(c, fd)
    PROVE  ChannelInv' /\ life[c] = "none" /\ \A d \in Chan \ {c} : life'[d] = life[d]
<1>1. /\ life[c] = "none" /\ UNCHANGED <<channels_, epoll>>
      /\ \A d \in Chan : HasFd(d) => ch[d].fd # fd
      /\ \A d \in Chan : life'[d] = IF d = c THEN "made" ELSE life[d]
      /\ life' \in [Chan -> Lives]
  BY OpenFdsAre DEF Construct, ChannelInv, Lives, kernel
<1>2. /\ ch' \in [Chan -> [fd : Fd \cup {None}, events : SUBSET {"read", "write"},
                             index : {"kNew", "kAdded", "kDeleted"}]]
      /\ \A d \in Chan : d # c => ch'[d] = ch[d]
      /\ ch'[c].fd = fd /\ ch'[c].events = ch[c].events /\ ch'[c].index = ch[c].index
  BY DEF Construct, ChannelInv
<1>3. ChannelsFollowLife'
  BY <1>1, <1>2 DEF ChannelInv, ChannelsFollowLife, IndexOf
<1>4. FdsDiffer'
  BY <1>1, <1>2 DEF ChannelInv, FdsDiffer, HasFd
<1>5. RecordsFollowLife'
  <2>1. \A d \in Chan : life[d] \in {"up", "closing"} \/ life'[d] \in {"up", "closing"} =>
           d # c /\ ch'[d] = ch[d] /\ life'[d] = life[d]
    BY <1>1, <1>2
  <2>2. RecordsFollowLife
    BY DEF ChannelInv
  <2>3. QED
    BY <1>1, <2>1, <2>2, RecordsStay
<1>6. QED
  BY <1>1, <1>2, <1>3, <1>4, <1>5 DEF ChannelInv

(* connectEstablished(): the descriptor is in neither record, so that the
   channel is added, and epoll_ctl() does not fail. *)
LEMMA EstablishKeeps ==
    ASSUME ChannelInv, NEW c \in Chan, ConnectEstablished(c)
    PROVE  ChannelInv' /\ ~aborted'
<1>1. /\ life[c] = "made" /\ ch[c].index = "kNew" /\ ch[c].fd \in Fd
      /\ \A d \in Chan : life'[d] = IF d = c THEN "up" ELSE life[d]
      /\ life' \in [Chan -> Lives]
  BY DEF ConnectEstablished, ChannelInv, ChannelsFollowLife, FdsDiffer, HasFd, IndexOf, Lives
<1>2. \A d \in Chan : Known(d) => ch[d].fd # ch[c].fd /\ d # c
  BY <1>1 DEF ChannelInv, FdsDiffer, HasFd, Known
<1>3. ch[c].fd \notin DOMAIN channels_ /\ ch[c].fd \notin DOMAIN epoll
  BY <1>2 DEF ChannelInv, RecordsFollowLife, Known
<1>4. /\ channels_' = With(channels_, ch[c].fd, c)
      /\ epoll' = With(epoll, ch[c].fd, [ptr |-> c, events |-> {"read"}])
      /\ ch' = [ch EXCEPT ![c] = [fd |-> ch[c].fd, events |-> {"read"}, index |-> "kAdded"]]
      /\ aborted' = FALSE
  BY <1>1, <1>3 DEF ConnectEstablished, UpdateChannel, AddChannel, ModifyChannel, DeleteChannel,
     ChannelInv
<1>5. /\ ch' \in [Chan -> [fd : Fd \cup {None}, events : SUBSET {"read", "write"},
                             index : {"kNew", "kAdded", "kDeleted"}]]
      /\ \A d \in Chan : d # c => ch'[d] = ch[d]
      /\ ch'[c].fd = ch[c].fd /\ ch'[c].events = {"read"} /\ ch'[c].index = "kAdded"
  BY <1>1, <1>4 DEF ChannelInv
<1>6. ChannelsFollowLife'
  BY <1>1, <1>5 DEF ChannelInv, ChannelsFollowLife, IndexOf
<1>7. FdsDiffer'
  BY <1>1, <1>5 DEF ChannelInv, FdsDiffer, HasFd
<1>8. RecordsFollowLife'
  <2>1. \A d \in Chan : Known(d)' <=> Known(d) \/ d = c
    BY <1>1 DEF Known
  <2>2. /\ DOMAIN channels_' = DOMAIN channels_ \cup {ch[c].fd} /\ channels_'[ch[c].fd] = c
        /\ \A fd \in DOMAIN channels_ : fd # ch[c].fd => channels_'[fd] = channels_[fd]
        /\ DOMAIN epoll' = DOMAIN epoll \cup {ch[c].fd}
        /\ epoll'[ch[c].fd] = [ptr |-> c, events |-> {"read"}]
        /\ \A fd \in DOMAIN epoll : fd # ch[c].fd => epoll'[fd] = epoll[fd]
    BY <1>4 DEF With
  <2>3. RecordsFollowLife
    BY DEF ChannelInv
  <2>4. \A d \in Chan : Known(d)' =>
           ch'[d].fd \in DOMAIN channels_' /\ channels_'[ch'[d].fd] = d
    <3>1. SUFFICES ASSUME NEW d \in Chan, Known(d)', d # c
                   PROVE  ch'[d].fd \in DOMAIN channels_' /\ channels_'[ch'[d].fd] = d
      BY <1>5, <2>2
    <3>2. Known(d) /\ ch'[d] = ch[d] /\ ch[d].fd # ch[c].fd
      BY <1>2, <1>5, <2>1, <3>1
    <3>3. ch[d].fd \in DOMAIN channels_ /\ channels_[ch[d].fd] = d
      BY <2>3, <3>2 DEF RecordsFollowLife
    <3>4. QED
      BY <2>2, <3>2, <3>3
  <2>5. \A fd \in DOMAIN channels_' : \E d \in Chan : Known(d)' /\ ch'[d].fd = fd
    BY <1>2, <1>5, <2>1, <2>2, <2>3 DEF RecordsFollowLife
  <2>6. \A d \in Chan : life'[d] = "up" =>
           /\ ch'[d].fd \in DOMAIN epoll'
           /\ epoll'[ch'[d].fd] = [ptr |-> d, events |-> ch'[d].events]
    <3>1. SUFFICES ASSUME NEW d \in Chan, life'[d] = "up", d # c
                   PROVE  /\ ch'[d].fd \in DOMAIN epoll'
                          /\ epoll'[ch'[d].fd] = [ptr |-> d, events |-> ch'[d].events]
      BY <1>5, <2>2
    <3>2. life[d] = "up" /\ ch'[d] = ch[d] /\ ch[d].fd # ch[c].fd
      BY <1>1, <1>2, <1>5, <3>1 DEF Known
    <3>3. ch[d].fd \in DOMAIN epoll /\ epoll[ch[d].fd] = [ptr |-> d, events |-> ch[d].events]
      BY <2>3, <3>2 DEF RecordsFollowLife
    <3>4. QED
      BY <2>2, <3>2, <3>3
  <2>7. \A fd \in DOMAIN epoll' : \E d \in Chan : life'[d] = "up" /\ ch'[d].fd = fd
    BY <1>1, <1>2, <1>5, <2>2, <2>3 DEF RecordsFollowLife, Known
  <2>8. QED
    BY <2>4, <2>5, <2>6, <2>7 DEF RecordsFollowLife
<1>9. QED
  BY <1>1, <1>4, <1>5, <1>6, <1>7, <1>8 DEF ChannelInv

(* A channel that is up asks for other events (enableWriting(),
   disableWriting()). *)
LEMMA ModifyKeeps ==
    ASSUME ChannelInv, NEW c \in Chan, life[c] = "up",
           NEW evs \in SUBSET {"read", "write"}, "read" \in evs,
           UpdateChannel(c, evs), UNCHANGED life
    PROVE  ChannelInv' /\ ~aborted'
<1>1. /\ ch[c].index = "kAdded" /\ ch[c].fd \in Fd /\ ch[c].fd \in DOMAIN epoll
      /\ ch[c] \in [fd : Fd \cup {None}, events : SUBSET {"read", "write"},
                    index : {"kNew", "kAdded", "kDeleted"}]
  BY DEF ChannelInv, ChannelsFollowLife, FdsDiffer, HasFd, IndexOf, RecordsFollowLife
<1>2. \A d \in Chan : Known(d) /\ d # c => ch[d].fd # ch[c].fd
  BY DEF ChannelInv, FdsDiffer, HasFd, Known
<1>3. /\ UNCHANGED channels_ /\ aborted' = FALSE
      /\ epoll' = With(epoll, ch[c].fd, [ptr |-> c, events |-> evs])
      /\ ch' = [ch EXCEPT ![c].events = evs]
  BY <1>1 DEF UpdateChannel, AddChannel, ModifyChannel, DeleteChannel
<1>4. /\ ch' \in [Chan -> [fd : Fd \cup {None}, events : SUBSET {"read", "write"},
                             index : {"kNew", "kAdded", "kDeleted"}]]
      /\ \A d \in Chan : d # c => ch'[d] = ch[d]
      /\ ch'[c].fd = ch[c].fd /\ ch'[c].events = evs /\ ch'[c].index = ch[c].index
  BY <1>1, <1>3 DEF ChannelInv
<1>5. ChannelsFollowLife'
  BY <1>1, <1>4 DEF ChannelInv, ChannelsFollowLife, IndexOf
<1>6. FdsDiffer'
  BY <1>4 DEF ChannelInv, FdsDiffer, HasFd
<1>7. RecordsFollowLife'
  <2>1. /\ DOMAIN epoll' = DOMAIN epoll
        /\ epoll'[ch[c].fd] = [ptr |-> c, events |-> evs]
        /\ \A fd \in DOMAIN epoll : fd # ch[c].fd => epoll'[fd] = epoll[fd]
    BY <1>1, <1>3 DEF With
  <2>2. RecordsFollowLife /\ \A d \in Chan : ch'[d].fd = ch[d].fd
    BY <1>4 DEF ChannelInv
  <2>3. \A d \in Chan : Known(d)' <=> Known(d)
    BY DEF Known
  <2>4. \A d \in Chan : Known(d)' =>
           ch'[d].fd \in DOMAIN channels_' /\ channels_'[ch'[d].fd] = d
    <3>1. SUFFICES ASSUME NEW d \in Chan, Known(d)'
                   PROVE  ch'[d].fd \in DOMAIN channels_' /\ channels_'[ch'[d].fd] = d
      OBVIOUS
    <3>2. Known(d) /\ ch'[d].fd = ch[d].fd
      BY <2>2, <2>3, <3>1
    <3>3. ch[d].fd \in DOMAIN channels_ /\ channels_[ch[d].fd] = d
      BY <2>2, <3>2 DEF RecordsFollowLife
    <3>4. QED
      BY <1>3, <3>2, <3>3
  <2>5. \A fd \in DOMAIN channels_' : \E d \in Chan : Known(d)' /\ ch'[d].fd = fd
    BY <1>3, <2>2, <2>3 DEF RecordsFollowLife
  <2>6. \A d \in Chan : life'[d] = "up" =>
           /\ ch'[d].fd \in DOMAIN epoll'
           /\ epoll'[ch'[d].fd] = [ptr |-> d, events |-> ch'[d].events]
    <3>1. SUFFICES ASSUME NEW d \in Chan, life'[d] = "up", d # c
                   PROVE  /\ ch'[d].fd \in DOMAIN epoll'
                          /\ epoll'[ch'[d].fd] = [ptr |-> d, events |-> ch'[d].events]
      BY <1>1, <1>4, <2>1
    <3>2. life[d] = "up" /\ ch'[d] = ch[d] /\ ch[d].fd # ch[c].fd
      BY <1>2, <1>4, <3>1 DEF Known
    <3>3. ch[d].fd \in DOMAIN epoll /\ epoll[ch[d].fd] = [ptr |-> d, events |-> ch[d].events]
      BY <2>2, <3>2 DEF RecordsFollowLife
    <3>4. QED
      BY <2>1, <3>2, <3>3
  <2>7. \A fd \in DOMAIN epoll' : \E d \in Chan : life'[d] = "up" /\ ch'[d].fd = fd
    BY <2>1, <2>2 DEF RecordsFollowLife
  <2>8. QED
    BY <2>4, <2>5, <2>6, <2>7 DEF RecordsFollowLife
<1>8. QED
  BY <1>3, <1>4, <1>5, <1>6, <1>7 DEF ChannelInv

(* handleClose() of a channel that is up: it stays in channels_, and epoll
   forgets it. *)
LEMMA CloseKeeps ==
    ASSUME ChannelInv, NEW c \in Chan, life[c] = "up", HandleClose(c)
    PROVE  /\ ChannelInv' /\ UNCHANGED aborted
           /\ \A d \in Chan : life'[d] = IF d = c THEN "closing" ELSE life[d]
<1>1. /\ ch[c].index = "kAdded" /\ ch[c].fd \in Fd /\ ch[c].fd \in DOMAIN epoll
      /\ \A d \in Chan : life'[d] = IF d = c THEN "closing" ELSE life[d]
      /\ life' \in [Chan -> Lives]
  BY DEF ChannelInv, ChannelsFollowLife, FdsDiffer, HasFd, IndexOf, RecordsFollowLife,
     HandleClose, Lives
<1>2. \A d \in Chan : Known(d) /\ d # c => ch[d].fd # ch[c].fd
  BY DEF ChannelInv, FdsDiffer, HasFd, Known
<1>3. /\ UNCHANGED <<channels_, aborted>> /\ epoll' = Without(epoll, ch[c].fd)
      /\ ch' = [ch EXCEPT ![c] = [fd |-> ch[c].fd, events |-> {}, index |-> "kDeleted"]]
  BY <1>1 DEF HandleClose, UpdateChannel, AddChannel, ModifyChannel, DeleteChannel,
     ChannelInv
<1>4. /\ ch' \in [Chan -> [fd : Fd \cup {None}, events : SUBSET {"read", "write"},
                             index : {"kNew", "kAdded", "kDeleted"}]]
      /\ \A d \in Chan : d # c => ch'[d] = ch[d]
      /\ ch'[c].fd = ch[c].fd /\ ch'[c].events = {} /\ ch'[c].index = "kDeleted"
  BY <1>1, <1>3 DEF ChannelInv
<1>5. ChannelsFollowLife'
  BY <1>1, <1>4 DEF ChannelInv, ChannelsFollowLife, IndexOf
<1>6. FdsDiffer'
  BY <1>1, <1>4 DEF ChannelInv, FdsDiffer, HasFd
<1>7. RecordsFollowLife'
  <2>1. /\ DOMAIN epoll' = DOMAIN epoll \ {ch[c].fd}
        /\ \A fd \in DOMAIN epoll' : epoll'[fd] = epoll[fd]
    BY <1>3 DEF Without
  <2>2. RecordsFollowLife /\ \A d \in Chan : ch'[d].fd = ch[d].fd
    BY <1>4 DEF ChannelInv
  <2>3. \A d \in Chan : Known(d)' <=> Known(d)
    BY <1>1 DEF Known
  <2>4. \A d \in Chan : Known(d)' =>
           ch'[d].fd \in DOMAIN channels_' /\ channels_'[ch'[d].fd] = d
    <3>1. SUFFICES ASSUME NEW d \in Chan, Known(d)'
                   PROVE  ch'[d].fd \in DOMAIN channels_' /\ channels_'[ch'[d].fd] = d
      OBVIOUS
    <3>2. Known(d) /\ ch'[d].fd = ch[d].fd
      BY <2>2, <2>3, <3>1
    <3>3. ch[d].fd \in DOMAIN channels_ /\ channels_[ch[d].fd] = d
      BY <2>2, <3>2 DEF RecordsFollowLife
    <3>4. QED
      BY <1>3, <3>2, <3>3
  <2>5. \A fd \in DOMAIN channels_' : \E d \in Chan : Known(d)' /\ ch'[d].fd = fd
    BY <1>3, <2>2, <2>3 DEF RecordsFollowLife
  <2>6. \A d \in Chan : life'[d] = "up" =>
           /\ ch'[d].fd \in DOMAIN epoll'
           /\ epoll'[ch'[d].fd] = [ptr |-> d, events |-> ch'[d].events]
    <3>1. SUFFICES ASSUME NEW d \in Chan, life'[d] = "up"
                   PROVE  /\ ch'[d].fd \in DOMAIN epoll'
                          /\ epoll'[ch'[d].fd] = [ptr |-> d, events |-> ch'[d].events]
      OBVIOUS
    <3>2. life[d] = "up" /\ ch'[d] = ch[d] /\ ch[d].fd # ch[c].fd
      BY <1>1, <1>2, <1>4, <3>1 DEF Known
    <3>3. ch[d].fd \in DOMAIN epoll /\ epoll[ch[d].fd] = [ptr |-> d, events |-> ch[d].events]
      BY <2>2, <3>2 DEF RecordsFollowLife
    <3>4. QED
      BY <2>1, <3>2, <3>3
  <2>7. \A fd \in DOMAIN epoll' : \E d \in Chan : life'[d] = "up" /\ ch'[d].fd = fd
    BY <1>1, <2>1, <2>2 DEF RecordsFollowLife
  <2>8. QED
    BY <2>4, <2>5, <2>6, <2>7 DEF RecordsFollowLife
<1>8. QED
  BY <1>1, <1>3, <1>4, <1>5, <1>6, <1>7 DEF ChannelInv

(* connectDestroyed(): the channel is disabled already, so that only its entry
   in channels_ is there to be erased, and it is its own. *)
LEMMA ConnectDestroyedKeeps ==
    ASSUME ChannelInv, NEW c \in Chan, ConnectDestroyed(c)
    PROVE  ChannelInv' /\ ~aborted'
<1>1. /\ life[c] = "closing" /\ ch[c].index = "kDeleted" /\ ch[c].events = {}
      /\ \A d \in Chan : life'[d] = IF d = c THEN "removed" ELSE life[d]
      /\ life' \in [Chan -> Lives] /\ ~aborted' /\ UNCHANGED epoll
  BY DEF ChannelInv, ChannelsFollowLife, IndexOf, ConnectDestroyed, RemoveChannel, Lives
<1>2. \A d \in Chan : Known(d) /\ d # c => ch[d].fd # ch[c].fd
  BY <1>1 DEF ChannelInv, FdsDiffer, HasFd, Known
<1>3. /\ channels_' = Without(channels_, ch[c].fd)
      /\ ch' = [ch EXCEPT ![c].index = "kNew"]
  BY DEF ConnectDestroyed, RemoveChannel
<1>4. /\ ch' \in [Chan -> [fd : Fd \cup {None}, events : SUBSET {"read", "write"},
                             index : {"kNew", "kAdded", "kDeleted"}]]
      /\ \A d \in Chan : d # c => ch'[d] = ch[d]
      /\ ch'[c].fd = ch[c].fd /\ ch'[c].events = {} /\ ch'[c].index = "kNew"
  BY <1>1, <1>3 DEF ChannelInv
<1>5. ChannelsFollowLife'
  BY <1>1, <1>4 DEF ChannelInv, ChannelsFollowLife, IndexOf
<1>6. FdsDiffer'
  BY <1>1, <1>4 DEF ChannelInv, FdsDiffer, HasFd
<1>7. RecordsFollowLife'
  <2>1. /\ DOMAIN channels_' = DOMAIN channels_ \ {ch[c].fd}
        /\ \A fd \in DOMAIN channels_' : channels_'[fd] = channels_[fd]
    BY <1>3 DEF Without
  <2>2. RecordsFollowLife /\ \A d \in Chan : ch'[d].fd = ch[d].fd
    BY <1>4 DEF ChannelInv
  <2>3. \A d \in Chan : Known(d)' <=> Known(d) /\ d # c
    BY <1>1 DEF Known
  <2>4. \A d \in Chan : Known(d)' =>
           ch'[d].fd \in DOMAIN channels_' /\ channels_'[ch'[d].fd] = d
    <3>1. SUFFICES ASSUME NEW d \in Chan, Known(d)'
                   PROVE  ch'[d].fd \in DOMAIN channels_' /\ channels_'[ch'[d].fd] = d
      OBVIOUS
    <3>2. Known(d) /\ ch'[d].fd = ch[d].fd /\ ch[d].fd # ch[c].fd
      BY <1>2, <2>2, <2>3, <3>1
    <3>3. ch[d].fd \in DOMAIN channels_ /\ channels_[ch[d].fd] = d
      BY <2>2, <3>2 DEF RecordsFollowLife
    <3>4. QED
      BY <2>1, <3>2, <3>3
  <2>5. \A fd \in DOMAIN channels_' : \E d \in Chan : Known(d)' /\ ch'[d].fd = fd
    BY <2>1, <2>2, <2>3 DEF RecordsFollowLife
  <2>6. \A d \in Chan : life'[d] = "up" =>
           /\ ch'[d].fd \in DOMAIN epoll'
           /\ epoll'[ch'[d].fd] = [ptr |-> d, events |-> ch'[d].events]
    <3>1. SUFFICES ASSUME NEW d \in Chan, life'[d] = "up"
                   PROVE  /\ ch'[d].fd \in DOMAIN epoll'
                          /\ epoll'[ch'[d].fd] = [ptr |-> d, events |-> ch'[d].events]
      OBVIOUS
    <3>2. life[d] = "up" /\ ch'[d] = ch[d]
      BY <1>1, <1>4, <3>1
    <3>3. ch[d].fd \in DOMAIN epoll /\ epoll[ch[d].fd] = [ptr |-> d, events |-> ch[d].events]
      BY <2>2, <3>2 DEF RecordsFollowLife
    <3>4. QED
      BY <1>1, <3>2, <3>3
  <2>7. \A fd \in DOMAIN epoll' : \E d \in Chan : life'[d] = "up" /\ ch'[d].fd = fd
    BY <1>1, <2>2 DEF RecordsFollowLife
  <2>8. QED
    BY <2>4, <2>5, <2>6, <2>7 DEF RecordsFollowLife
<1>8. QED
  BY <1>1, <1>4, <1>5, <1>6, <1>7 DEF ChannelInv

(* The end of a connection: no record has its descriptor any more, so that the
   assertion of ~Channel holds and close() takes nothing out of epoll. *)
LEMMA DestroyKeeps ==
    ASSUME ChannelInv, NEW c \in Chan, Destroy(c)
    PROVE  ChannelInv' /\ ~aborted'
<1>1. /\ life[c] = "removed" /\ ch[c].fd \in Fd
      /\ \A d \in Chan : life'[d] = IF d = c THEN "gone" ELSE life[d]
      /\ life' \in [Chan -> Lives] /\ UNCHANGED <<ch, channels_>>
  BY DEF ChannelInv, FdsDiffer, HasFd, Destroy, Lives
<1>2. \A d \in Chan : Known(d) => ch[d].fd # ch[c].fd /\ d # c
  BY <1>1 DEF ChannelInv, FdsDiffer, HasFd, Known
<1>3. ch[c].fd \notin DOMAIN channels_ /\ ch[c].fd \notin DOMAIN epoll
  BY <1>2 DEF ChannelInv, RecordsFollowLife, Known
<1>4. ~aborted'
  BY <1>3 DEF Destroy, HasChannel
<1>5. DOMAIN epoll' = DOMAIN epoll /\ \A fd \in DOMAIN epoll : epoll'[fd] = epoll[fd]
  BY <1>3 DEF Destroy, Without
<1>6. ChannelsFollowLife'
  BY <1>1 DEF ChannelInv, ChannelsFollowLife, IndexOf
<1>7. FdsDiffer'
  BY <1>1 DEF ChannelInv, FdsDiffer, HasFd
<1>8. RecordsFollowLife'
  <2>1. \A d \in Chan : life[d] \in {"up", "closing"} \/ life'[d] \in {"up", "closing"} =>
           ch'[d] = ch[d] /\ life'[d] = life[d]
    BY <1>1
  <2>2. RecordsFollowLife
    BY DEF ChannelInv
  <2>3. QED
    BY <1>1, <1>5, <2>1, <2>2, RecordsStay
<1>9. QED
  BY <1>1, <1>4, <1>6, <1>7, <1>8 DEF ChannelInv

(* A step that leaves the channels and their registrations alone. *)
LEMMA ChannelsStay ==
    ASSUME ChannelInv, UNCHANGED <<ch, life, channels_, epoll>>
    PROVE  ChannelInv'
<1>1. ChannelsFollowLife' /\ FdsDiffer'
  BY DEF ChannelInv, ChannelsFollowLife, IndexOf, FdsDiffer, HasFd
<1>2. RecordsFollowLife'
  <2>1. RecordsFollowLife
    BY DEF ChannelInv
  <2>2. QED
    BY <2>1, RecordsStay
<1>3. QED
  BY <1>1, <1>2 DEF ChannelInv

-----------------------------------------------------------------------------
(* activeChannels_.                                                        *)

(* The part of PollerInv that is about what epoll_wait() reported. *)
ActiveInv ==
    active \in Seq(Report) /\ at \in {"poll", "handle", "functors"} /\ ActiveFollowsLife

(* The list stays, and so do the channels that may be in it. *)
LEMMA ActiveStays ==
    ASSUME ActiveInv, UNCHANGED <<active, at>>,
           \A d \in Chan : Known(d) => life'[d] = life[d]
    PROVE  ActiveInv'
<1>1. \A i \in DOMAIN active : active[i].channel \in Chan
  <2>1. \A i \in DOMAIN active : active[i] \in Report
    BY ElementOf DEF ActiveInv
  <2>2. QED
    BY <2>1 DEF Report
<1>2. \A i \in DOMAIN active :
         /\ life[active[i].channel] \in {"up", "closing"}
         /\ active[i].revents \cap {"read", "hup"} # {} => life[active[i].channel] = "up"
  BY DEF ActiveInv, ActiveFollowsLife, Known
<1>3. \A i \in DOMAIN active : life'[active[i].channel] = life[active[i].channel]
  BY <1>1, <1>2 DEF Known
<1>4. \A i \in DOMAIN active' :
         /\ life'[active'[i].channel] \in {"up", "closing"}
         /\ active'[i].revents \cap {"read", "hup"} # {} => life'[active'[i].channel] = "up"
  BY <1>2, <1>3
<1>5. \A i, j \in DOMAIN active' : active'[i].channel = active'[j].channel => i = j
  BY DEF ActiveInv, ActiveFollowsLife
<1>6. ActiveFollowsLife'
  BY <1>4, <1>5 DEF ActiveInv, ActiveFollowsLife, Known
<1>7. QED
  BY <1>6 DEF ActiveInv

(* The list is empty. *)
LEMMA NoneActive ==
    ASSUME active = <<>>, at \in {"poll", "handle", "functors"}
    PROVE  ActiveInv
BY DEF ActiveInv, ActiveFollowsLife

(* The first of the list has something to be handled. *)
LEMMA CurrentIs ==
    ASSUME ActiveInv, NEW what, Pending(what)
    PROVE  /\ Current \in Chan /\ active[1] \in Report /\ active # <<>>
           /\ 1 \in DOMAIN active /\ what \in active[1].revents
           /\ what \in {"read", "hup"} => life[Current] = "up"
           /\ Known(Current) /\ at = "handle"
<1>1. active # <<>> /\ active \in Seq(Report) /\ what \in active[1].revents /\ at = "handle"
  BY DEF Pending, ActiveInv
<1>2. 1 \in DOMAIN active
  BY <1>1, EmptySeq, LenProperties
<1>3. active[1] \in Report
  BY <1>1, <1>2
<1>4. QED
  BY <1>1, <1>2, <1>3 DEF Current, Report, ActiveInv, ActiveFollowsLife

(* What is left of the list when callbacks of its first channel have run. *)
LEMMA DoneLeaves ==
    ASSUME active \in Seq(Report), active # <<>>, NEW what, Done(what),
           \A i, j \in DOMAIN active : active[i].channel = active[j].channel => i = j
    PROVE  /\ active' \in Seq(Report)
           /\ \A i \in DOMAIN active' :
                 \/ /\ active'[i].channel = Current
                    /\ active'[i].revents = active[1].revents \ what
                 \/ /\ active'[i] \in {active[k] : k \in DOMAIN active}
                    /\ active'[i].channel # Current
           /\ \A i, j \in DOMAIN active' : active'[i].channel = active'[j].channel => i = j
<1>1. 1 \in DOMAIN active /\ active[1] \in Report
  BY EmptySeq, LenProperties
<1>2. CASE active' = Tail(active)
  <2>1. /\ active' \in Seq(Report)
        /\ \A i \in DOMAIN active' : i + 1 \in DOMAIN active /\ i + 1 # 1 /\ active'[i] = active[i + 1]
        /\ \A i, j \in DOMAIN active' : i + 1 = j + 1 => i = j
    BY <1>2, TailShifts
  <2>2. \A i \in DOMAIN active' :
           active'[i] \in {active[k] : k \in DOMAIN active} /\ active'[i].channel # Current
    BY <1>1, <2>1 DEF Current
  <2>3. \A i, j \in DOMAIN active' : active'[i].channel = active'[j].channel => i = j
    BY <2>1
  <2>4. QED
    BY <2>1, <2>2, <2>3
<1>3. CASE active' = <<[active[1] EXCEPT !.revents = @ \ what]>> \o Tail(active)
  <2> DEFINE h == [active[1] EXCEPT !.revents = @ \ what]
  <2>1. h \in Report /\ h.channel = Current /\ h.revents = active[1].revents \ what
    BY <1>1 DEF Report, Current
  <2>2. active' = <<h>> \o Tail(active)
    BY <1>3
  <2> HIDE DEF h
  <2>3. /\ active' \in Seq(Report) /\ DOMAIN active' = DOMAIN active /\ active'[1] = h
        /\ \A i \in DOMAIN active : i # 1 => active'[i] = active[i]
    BY <2>1, <2>2, NewHead
  <2>4. \A i \in DOMAIN active' : active'[i].channel = active[i].channel
    BY <2>1, <2>3 DEF Current
  <2>5. \A i \in DOMAIN active' : i # 1 =>
           active'[i] \in {active[k] : k \in DOMAIN active} /\ active'[i].channel # Current
    BY <1>1, <2>3 DEF Current
  <2>6. \A i \in DOMAIN active' : i = 1 =>
           active'[i].channel = Current /\ active'[i].revents = active[1].revents \ what
    BY <2>1, <2>3
  <2>7. \A i, j \in DOMAIN active' : active'[i].channel = active'[j].channel => i = j
    BY <2>3, <2>4
  <2>8. QED
    BY <2>3, <2>5, <2>6, <2>7
<1>4. QED
  BY <1>2, <1>3 DEF Done

(* Callbacks of the first channel have run; it may have begun to close if no
   hangup and nothing to read is left for it. *)
LEMMA DoneKeeps ==
    ASSUME ActiveInv, NEW what, NEW done, Pending(what), Done(done),
           \A d \in Chan \ {Current} : life'[d] = life[d],
           \/ life'[Current] = life[Current]
           \/ /\ life'[Current] = "closing"
              /\ (active[1].revents \ done) \cap {"read", "hup"} = {}
    PROVE  ActiveInv'
<1>1. /\ Current \in Chan /\ active[1] \in Report /\ active # <<>> /\ 1 \in DOMAIN active
      /\ at = "handle" /\ active \in Seq(Report) /\ Known(Current) /\ UNCHANGED at
  BY CurrentIs DEF ActiveInv, Done
<1>2. /\ active' \in Seq(Report)
      /\ \A i \in DOMAIN active' :
            \/ /\ active'[i].channel = Current
               /\ active'[i].revents = active[1].revents \ done
            \/ /\ active'[i] \in {active[k] : k \in DOMAIN active}
               /\ active'[i].channel # Current
      /\ \A i, j \in DOMAIN active' : active'[i].channel = active'[j].channel => i = j
  BY <1>1, DoneLeaves DEF ActiveInv, ActiveFollowsLife
<1>3. ASSUME NEW i \in DOMAIN active'
      PROVE  /\ life'[active'[i].channel] \in {"up", "closing"}
             /\ active'[i].revents \cap {"read", "hup"} # {} => life'[active'[i].channel] = "up"
  <2>1. CASE active'[i].channel = Current /\ active'[i].revents = active[1].revents \ done
    <3>1. active[1].revents \cap {"read", "hup"} # {} => life[Current] = "up"
      BY <1>1 DEF ActiveInv, ActiveFollowsLife, Current
    <3>2. QED
      <4>1. CASE life'[Current] = life[Current]
        <5>1. life'[Current] \in {"up", "closing"}
          BY <1>1, <4>1 DEF Known
        <5>2. active'[i].revents \cap {"read", "hup"} # {} =>
                 active[1].revents \cap {"read", "hup"} # {}
          BY <2>1
        <5>3. QED
          BY <2>1, <3>1, <4>1, <5>1, <5>2
      <4>2. CASE /\ life'[Current] = "closing"
                 /\ (active[1].revents \ done) \cap {"read", "hup"} = {}
        BY <2>1, <4>2
      <4>3. QED
        BY <4>1, <4>2
  <2>2. CASE /\ active'[i] \in {active[k] : k \in DOMAIN active}
             /\ active'[i].channel # Current
    <3>1. PICK k \in DOMAIN active : active'[i] = active[k]
      BY <2>2
    <3>2. active[k].channel \in Chan
      <4>1. active[k] \in Report
        BY <1>1, ElementOf
      <4>2. QED
        BY <4>1 DEF Report
    <3>3. /\ life[active[k].channel] \in {"up", "closing"}
          /\ active[k].revents \cap {"read", "hup"} # {} => life[active[k].channel] = "up"
      BY DEF ActiveInv, ActiveFollowsLife, Known
    <3>4. life'[active[k].channel] = life[active[k].channel]
      BY <2>2, <3>1, <3>2
    <3>5. QED
      BY <3>1, <3>3, <3>4
  <2>3. QED
    BY <1>2, <2>1, <2>2
<1>4. QED
  BY <1>1, <1>2, <1>3 DEF ActiveInv, ActiveFollowsLife, Known

-----------------------------------------------------------------------------

(* The parts of the invariant, as the lemmas on them say it. *)
LEMMA InvParts ==
    /\ PollerInv <=> ChannelInv /\ ActiveInv /\ ~aborted
    /\ PollerInv' <=> ChannelInv' /\ ActiveInv' /\ ~aborted'
BY DEF PollerInv, PollerTypeOK, ChannelInv, ActiveInv

(* EPollPoller::poll(): what it puts into the list are channels that are up,
   each once. *)
LEMMA PollKeeps ==
    ASSUME PollerInv, EPoll
    PROVE  ActiveInv'
<1>1. CASE active' = <<>>
  <2>1. at' \in {"poll", "handle", "functors"}
    BY DEF EPoll
  <2>2. ActiveFollowsLife' /\ active' \in Seq(Report)
    BY <1>1 DEF ActiveFollowsLife
  <2>3. QED
    BY <2>1, <2>2 DEF ActiveInv
<1>2. ASSUME NEW fds \in Reported, NEW order \in SetToSeqs(fds),
             active' = [i \in DOMAIN order |-> [channel |-> epoll[order[i]].ptr,
                                                revents |-> REvents(order[i])]]
      PROVE  ActiveInv'
  <2>1. DOMAIN epoll \subseteq Fd
    BY DEF PollerInv, RecordsFollowLife, FdsDiffer, HasFd
  <2>2. fds \subseteq DOMAIN epoll /\ IsFiniteSet(fds)
    BY <2>1, FS_Subset, EPollPollerAssumption DEF Reported, ReadyFds
  <2>3. PICK n \in Nat : n = Cardinality(fds)
    BY <2>2, FS_CardinalityType
  <2>4. order \in [1 .. n -> fds] /\ \A i, j \in 1 .. n : i # j => order[i] # order[j]
    BY <2>3 DEF SetToSeqs
  <2>5. \A fd \in DOMAIN epoll : \E c \in Chan :
            /\ life[c] = "up" /\ ch[c].fd = fd
            /\ epoll[fd] = [ptr |-> c, events |-> ch[c].events]
            /\ ch[c].events \subseteq {"read", "write"}
    <3>1. /\ \A c \in Chan : ch[c].events \subseteq {"read", "write"}
          /\ RecordsFollowLife
      BY DEF PollerInv, PollerTypeOK
    <3>2. \A fd \in DOMAIN epoll : \E c \in Chan : life[c] = "up" /\ ch[c].fd = fd
      BY <3>1 DEF RecordsFollowLife
    <3>3. \A c \in Chan : life[c] = "up" =>
             epoll[ch[c].fd] = [ptr |-> c, events |-> ch[c].events]
      BY <3>1 DEF RecordsFollowLife
    <3>4. ASSUME NEW fd \in DOMAIN epoll
          PROVE  \E c \in Chan :
                    /\ life[c] = "up" /\ ch[c].fd = fd
                    /\ epoll[fd] = [ptr |-> c, events |-> ch[c].events]
                    /\ ch[c].events \subseteq {"read", "write"}
      <4>1. PICK c \in Chan : life[c] = "up" /\ ch[c].fd = fd
        BY <3>2
      <4>2. epoll[fd] = [ptr |-> c, events |-> ch[c].events]
        BY <3>3, <4>1
      <4>3. ch[c].events \subseteq {"read", "write"}
        BY <3>1
      <4>4. QED
        BY <4>1, <4>2, <4>3
    <3>5. QED
      BY <3>4
  <2>6. \A fd \in DOMAIN epoll :
            /\ epoll[fd].ptr \in Chan /\ life[epoll[fd].ptr] = "up"
            /\ ch[epoll[fd].ptr].fd = fd
            /\ REvents(fd) \subseteq {"read", "write", "hup"}
    BY <2>5 DEF REvents
  <2>7. active' \in [1 .. n -> Report]
    <3>1. DOMAIN order = 1 .. n /\ \A i \in 1 .. n : order[i] \in DOMAIN epoll
      BY <2>2, <2>4
    <3>2. \A i \in 1 .. n : [channel |-> epoll[order[i]].ptr, revents |-> REvents(order[i])] \in Report
      BY <2>6, <3>1 DEF Report
    <3>3. QED
      BY <1>2, <3>1, <3>2
  <2>8. active' \in Seq(Report) /\ DOMAIN active' = 1 .. n
    BY <2>3, <2>7, SeqDef
  <2>9. UNCHANGED <<ch, life>> /\ at' = "handle"
    BY DEF EPoll
  <2>10. \A i \in DOMAIN active' :
            /\ active'[i].channel = epoll[order[i]].ptr /\ order[i] \in DOMAIN epoll
            /\ life[active'[i].channel] = "up" /\ ch[active'[i].channel].fd = order[i]
    BY <1>2, <2>2, <2>4, <2>6, <2>8
  <2>11. \A i, j \in DOMAIN active' : active'[i].channel = active'[j].channel => i = j
    BY <2>4, <2>8, <2>10
  <2>12. ActiveFollowsLife'
    BY <2>9, <2>10, <2>11 DEF ActiveFollowsLife, Known
  <2>13. QED
    BY <2>8, <2>9, <2>12 DEF ActiveInv
<1>3. QED
  BY <1>1, <1>2 DEF EPoll

(* Every step of the loop, of the kernel and of the other threads keeps it. *)
LEMMA PollerStep == PollerInv /\ [PollerNext]_pollerVars => PollerInv'
<1> SUFFICES ASSUME PollerInv, [PollerNext]_pollerVars
             PROVE  PollerInv'
  OBVIOUS
<1>1. ChannelInv /\ ActiveInv /\ ~aborted
  BY InvParts
<1>2. CASE UNCHANGED pollerVars
  <2>1. UNCHANGED <<ch, life, channels_, epoll, active, at, aborted>>
    BY <1>2 DEF pollerVars, kernel, loop
  <2>2. ChannelInv' /\ ActiveInv'
    BY <1>1, <2>1, ChannelsStay, ActiveStays
  <2>3. QED
    BY <1>1, <2>1, <2>2, InvParts
<1>3. CASE EPoll
  <2>1. UNCHANGED <<ch, life, channels_, epoll, aborted>>
    BY <1>3 DEF EPoll, kernel
  <2>2. ChannelInv' /\ ActiveInv'
    BY <1>1, <1>3, <2>1, ChannelsStay, PollKeeps
  <2>3. QED
    BY <1>1, <2>1, <2>2, InvParts
<1>4. CASE HandleHup
  <2>1. Pending("hup") /\ Done({"hup"})
    BY <1>4 DEF HandleHup
  <2>2. Current \in Chan /\ life[Current] = "up" /\ active[1] \in Report
    BY <1>1, <2>1, CurrentIs
  <2>3. CASE "read" \in active[1].revents
    <3>1. UNCHANGED <<ch, life, channels_, epoll, aborted>>
      BY <1>4, <2>3 DEF HandleHup
    <3>2. ActiveInv'
      BY <1>1, <2>1, <3>1, DoneKeeps
    <3>3. QED
      BY <1>1, <3>1, <3>2, ChannelsStay, InvParts
  <2>4. CASE "read" \notin active[1].revents
    <3>1. HandleClose(Current)
      BY <1>4, <2>4 DEF HandleHup
    <3>2. /\ ChannelInv' /\ UNCHANGED aborted
          /\ \A d \in Chan : life'[d] = IF d = Current THEN "closing" ELSE life[d]
      BY <1>1, <2>2, <3>1, CloseKeeps
    <3>3. (active[1].revents \ {"hup"}) \cap {"read", "hup"} = {}
      BY <2>4
    <3>4. ActiveInv'
      BY <1>1, <2>1, <2>2, <3>2, <3>3, DoneKeeps
    <3>5. QED
      BY <1>1, <3>2, <3>4, InvParts
  <2>5. QED
    BY <2>3, <2>4
<1>5. CASE HandleIn
  <2>1. Pending("read") /\ ~Pending("hup") /\ Done({"read"})
    BY <1>5 DEF HandleIn
  <2>2. Current \in Chan /\ life[Current] = "up" /\ active[1] \in Report
    BY <1>1, <2>1, CurrentIs
  <2>3. CASE UNCHANGED <<ch, life, channels_, epoll, aborted>>
    <3>1. ActiveInv'
      BY <1>1, <2>1, <2>3, DoneKeeps
    <3>2. QED
      BY <1>1, <2>3, <3>1, ChannelsStay, InvParts
  <2>4. CASE HandleClose(Current)
    <3>1. /\ ChannelInv' /\ UNCHANGED aborted
          /\ \A d \in Chan : life'[d] = IF d = Current THEN "closing" ELSE life[d]
      BY <1>1, <2>2, <2>4, CloseKeeps
    <3>2. "hup" \notin active[1].revents
      BY <2>1 DEF Pending
    <3>3. (active[1].revents \ {"read"}) \cap {"read", "hup"} = {}
      BY <3>2
    <3>4. ActiveInv'
      BY <1>1, <2>1, <2>2, <3>1, <3>3, DoneKeeps
    <3>5. QED
      BY <1>1, <3>1, <3>4, InvParts
  <2>5. QED
    BY <1>5, <2>3, <2>4 DEF HandleIn
<1>6. CASE HandleWrite
  <2>1. Pending("write") /\ Done({"write"}) /\ UNCHANGED life
    BY <1>6 DEF HandleWrite
  <2>2. Current \in Chan
    BY <1>1, <2>1, CurrentIs
  <2>3. ActiveInv'
    BY <1>1, <2>1, DoneKeeps
  <2>4. CASE UNCHANGED <<ch, channels_, epoll, aborted>>
    BY <1>1, <2>1, <2>3, <2>4, ChannelsStay, InvParts
  <2>5. CASE /\ "write" \in ch[Current].events
             /\ UpdateChannel(Current, ch[Current].events \ {"write"})
    <3>1. /\ life[Current] = "up" /\ "read" \in ch[Current].events
          /\ ch[Current].events \ {"write"} \in SUBSET {"read", "write"}
      BY <1>1, <2>2, <2>5 DEF ChannelInv, ChannelsFollowLife
    <3>2. ChannelInv' /\ ~aborted'
      BY <1>1, <2>1, <2>2, <2>5, <3>1, ModifyKeeps
    <3>3. QED
      BY <2>3, <3>2, InvParts
  <2>6. QED
    BY <1>6, <2>4, <2>5 DEF HandleWrite
<1>7. CASE ActiveDone \/ FunctorsDone
  <2>1. UNCHANGED <<ch, life, channels_, epoll, active, aborted>>
    BY <1>7 DEF ActiveDone, FunctorsDone, kernel
  <2>2. active' = <<>> /\ at' \in {"poll", "functors"}
    BY <1>1, <1>7 DEF ActiveDone, FunctorsDone, ActiveInv, ActiveFollowsLife
  <2>3. ActiveInv'
    BY <2>2 DEF ActiveInv, ActiveFollowsLife
  <2>4. QED
    BY <1>1, <2>1, <2>3, ChannelsStay, InvParts
<1>8. ASSUME NEW c \in Chan, EnableWriting(c)
      PROVE  PollerInv'
  <2>1. /\ life[c] = "up" /\ UpdateChannel(c, ch[c].events \cup {"write"})
        /\ UNCHANGED <<life, active, at>>
    BY <1>8 DEF EnableWriting, loop
  <2>2. /\ "read" \in ch[c].events \cup {"write"}
        /\ ch[c].events \cup {"write"} \in SUBSET {"read", "write"}
    BY <1>1, <2>1 DEF ChannelInv, ChannelsFollowLife
  <2>3. ChannelInv' /\ ~aborted'
    BY <1>1, <2>1, <2>2, ModifyKeeps
  <2>4. ActiveInv'
    BY <1>1, <2>1, ActiveStays
  <2>5. QED
    BY <2>3, <2>4, InvParts
<1>9. ASSUME NEW c \in Chan, ConnectEstablished(c)
      PROVE  PollerInv'
  <2>1. ChannelInv' /\ ~aborted'
    BY <1>1, <1>9, EstablishKeeps
  <2>2. UNCHANGED <<active, at>> /\ \A d \in Chan : Known(d) => life'[d] = life[d]
    BY <1>1, <1>9 DEF ConnectEstablished, loop, ChannelInv, Known
  <2>3. QED
    BY <1>1, <2>1, <2>2, ActiveStays, InvParts
<1>10. ASSUME NEW c \in Chan, ConnectDestroyed(c)
       PROVE  PollerInv'
  <2>1. ChannelInv' /\ ~aborted'
    BY <1>1, <1>10, ConnectDestroyedKeeps
  <2>2. active' = <<>> /\ at' = "functors"
    BY <1>1, <1>10 DEF ConnectDestroyed, loop, ActiveInv, ActiveFollowsLife
  <2>3. ActiveInv'
    BY <2>2 DEF ActiveInv, ActiveFollowsLife
  <2>4. QED
    BY <2>1, <2>3, InvParts
<1>11. ASSUME NEW c \in Chan, Destroy(c)
       PROVE  PollerInv'
  <2>1. ChannelInv' /\ ~aborted'
    BY <1>1, <1>11, DestroyKeeps
  <2>2. UNCHANGED <<active, at>> /\ \A d \in Chan : Known(d) => life'[d] = life[d]
    BY <1>1, <1>11 DEF Destroy, loop, ChannelInv, Known
  <2>3. QED
    BY <1>1, <2>1, <2>2, ActiveStays, InvParts
<1>12. ASSUME NEW c \in Chan, NEW fd \in Fd, Construct(c, fd)
       PROVE  PollerInv'
  <2>1. ChannelInv' /\ life[c] = "none" /\ \A d \in Chan \ {c} : life'[d] = life[d]
    BY <1>1, <1>12, ConstructKeeps
  <2>2. /\ UNCHANGED <<active, at, aborted>>
        /\ \A d \in Chan : Known(d) => life'[d] = life[d]
    BY <1>12, <2>1 DEF Construct, loop, Known
  <2>3. QED
    BY <1>1, <2>1, <2>2, ActiveStays, InvParts
<1>13. ASSUME NEW fd \in Fd, NEW what \in {"read", "hup"}, Arrive(fd, what)
       PROVE  PollerInv'
  <2>1. UNCHANGED <<ch, life, channels_, epoll, active, at, aborted>>
    BY <1>13 DEF Arrive, loop
  <2>2. ChannelInv' /\ ActiveInv'
    BY <1>1, <2>1, ChannelsStay, ActiveStays
  <2>3. QED
    BY <1>1, <2>1, <2>2, InvParts
<1>14. QED
  BY <1>2, <1>3, <1>4, <1>5, <1>6, <1>7, <1>8, <1>9, <1>10, <1>11, <1>12, <1>13
     DEF PollerNext, Loop

(* PollerInv says what RegistrationsAgree does. *)
LEMMA AgreeFromInv == PollerInv => RegistrationsAgree
<1> SUFFICES ASSUME PollerInv
             PROVE  RegistrationsAgree
  OBVIOUS
<1>1. \A c \in Chan :
         /\ (ch[c].index = "kNew") <=> ~Known(c)
         /\ (ch[c].index = "kAdded") <=> (life[c] = "up")
         /\ (ch[c].index = "kDeleted") <=> (life[c] = "closing")
  BY DEF PollerInv, ChannelsFollowLife, IndexOf, Known
<1>2. \A c \in Chan : HasChannel(c) <=> Known(c)
  BY DEF PollerInv, RecordsFollowLife, HasChannel
<1>3. \A c \in Chan : life[c] = "up" =>
         ch[c].fd \in DOMAIN epoll /\ epoll[ch[c].fd] = [ptr |-> c, events |-> ch[c].events]
  BY DEF PollerInv, RecordsFollowLife
<1>4. \A fd \in DOMAIN epoll : \E d \in Chan : life[d] = "up" /\ epoll[fd].ptr = d
  <2>1. \A fd \in DOMAIN epoll : \E d \in Chan : life[d] = "up" /\ ch[d].fd = fd
    BY DEF PollerInv, RecordsFollowLife
  <2>2. ASSUME NEW d \in Chan, life[d] = "up"
        PROVE  epoll[ch[d].fd].ptr = d
    <3>1. epoll[ch[d].fd] = [ptr |-> d, events |-> ch[d].events]
      BY <1>3, <2>2
    <3>2. QED
      BY <3>1
  <2>3. QED
    BY <2>1, <2>2
<1>5. ASSUME NEW c \in Chan, ch[c].fd \in DOMAIN epoll,
             epoll[ch[c].fd] = [ptr |-> c, events |-> ch[c].events]
      PROVE  life[c] = "up"
  BY <1>4, <1>5
<1>6. \A c \in Chan : life[c] = "closing" => ch[c].events = {}
  BY DEF PollerInv, ChannelsFollowLife
<1>7. DOMAIN epoll \subseteq DOMAIN channels_
  BY DEF PollerInv, RecordsFollowLife, Known
<1>8. DOMAIN channels_ \subseteq OpenFds
  BY DEF PollerInv, RecordsFollowLife, Known, OpenFds
<1>9. QED
  BY <1>1, <1>2, <1>3, <1>5, <1>6, <1>7, <1>8 DEF RegistrationsAgree, Known

(* The inductive invariant of the loop's channels. *)
THEOREM PollerInvariant == PollerSpec => []PollerInv
<1>1. PollerInit => PollerInv
  <2> SUFFICES ASSUME PollerInit
               PROVE  PollerInv
    OBVIOUS
  <2>1. ChannelInv
    BY DEF PollerInit, ChannelInv, Lives, ChannelsFollowLife, IndexOf, FdsDiffer, HasFd,
       RecordsFollowLife, Known
  <2>2. ActiveInv /\ ~aborted
    BY DEF PollerInit, ActiveInv, ActiveFollowsLife
  <2>3. QED
    BY <2>1, <2>2, InvParts
<1>2. QED
  BY <1>1, PollerStep, PTL DEF PollerSpec

(* channels_, epoll and the index of a channel agree whatever descriptors are
   closed and used again: HasChannel and updateChannel() tell the same. *)
THEOREM RegistrationsAlwaysAgree == PollerSpec => []RegistrationsAgree
BY PollerInvariant, AgreeFromInv, PTL

(* handleEvent() is called on channels no callback of the same round has
   destroyed, and neither epoll_ctl() nor an assertion of the Poller fails. *)
THEOREM ActiveChannelsStayLive == PollerSpec => []ActiveChannelsLive
<1>1. PollerInv => ActiveChannelsLive
  BY DEF PollerInv, ActiveFollowsLife, ActiveChannelsLive, Known
<1>2. QED
  BY <1>1, PollerInvariant, PTL
=============================================================================
