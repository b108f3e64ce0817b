------------------------- MODULE ThreadPool_proofs -------------------------
(***************************************************************************)
(* Proofs that the threads of a ThreadPool take its tasks once and in the  *)
(* order in which they were added, and that no notification is lost, for   *)
(* every number of threads and of tasks.                                   *)
(***************************************************************************)
EXTENDS ThreadPool, SequenceTheorems, TLAPS

(* Tasks stand in queue_ in the order of their numbers. *)
QueueInOrder == \A i, j \in DOMAIN queue : i < j => queue[i] < queue[j]

(* Before start() there is no thread; without threads nothing is in queue_;
   while running_ is set, no thread has returned; when the destructor has, all
   have. *)
OverWhenStopped ==
    /\ owner = "gone" => Joined
    /\ owner = "new" => \A w \in Thread : at[w] = "unborn"
    /\ queue # <<>> => \E w \in Thread : at[w] # "unborn"
    /\ running => \A w \in Thread : at[w] # "over"

(* No task that was added is forgotten while the pool exists: it is in queue_,
   with a thread, or it has run. *)
NoTaskForgotten == owner # "gone" => Range(queue) \cup Held \cup ran = 1 .. added

(* TakenInOrder and NoLostNotify are not inductive: the first needs the order
   within queue_, the second that a thread leaves only after stop(). *)
PoolInv ==
    /\ TakenInOrder
    /\ QueueInOrder
    /\ OverWhenStopped
    /\ NoLostNotify
    /\ NoTaskForgotten

-----------------------------------------------------------------------------

(* The first task of queue_ is older than what is left in it, and what is left
   stays in order (queue_.pop_front()). *)
LEMMA TailInOrder ==
    ASSUME NEW n \in Nat, NEW q \in Seq(1 .. n), q # <<>>,
           \A i, j \in DOMAIN q : i < j => q[i] < q[j]
    PROVE  /\ Head(q) \in 1 .. n /\ Head(q) = q[1] /\ 1 \in DOMAIN q
           /\ Tail(q) \in Seq(1 .. n)
           /\ \A i \in DOMAIN Tail(q) : i + 1 \in DOMAIN q /\ Tail(q)[i] = q[i + 1]
           /\ \A i \in DOMAIN Tail(q) : Head(q) < Tail(q)[i]
           /\ \A i, j \in DOMAIN Tail(q) : i < j => Tail(q)[i] < Tail(q)[j]
<1>1. Len(q) \in Nat /\ Len(q) # 0 /\ DOMAIN q = 1 .. Len(q)
  BY EmptySeq, LenProperties
<1>2. /\ Tail(q) \in Seq(1 .. n) /\ Len(Tail(q)) = Len(q) - 1
      /\ \A i \in 1 .. Len(q) - 1 : Tail(q)[i] = q[i + 1]
      /\ Head(q) = q[1]
  BY <1>1
<1>3. DOMAIN Tail(q) = 1 .. Len(q) - 1
  BY <1>2, LenProperties
<1>4. \A i \in DOMAIN Tail(q) : i + 1 \in DOMAIN q /\ Tail(q)[i] = q[i + 1]
  BY <1>1, <1>2, <1>3
<1>5. 1 \in DOMAIN q /\ Head(q) \in 1 .. n
  BY <1>1, <1>2, ElementOfSeq
<1>6. \A i \in DOMAIN Tail(q) : Head(q) < Tail(q)[i]
  <2>1. TAKE i \in DOMAIN Tail(q)
  <2>2. i + 1 \in DOMAIN q /\ 1 < i + 1
    BY <2>1, <1>1, <1>3
  <2>3. q[1] < q[i + 1]
    BY <2>2, <1>5
  <2>4. QED
    BY <2>1, <2>3, <1>2, <1>4
<1>7. \A i, j \in DOMAIN Tail(q) : i < j => Tail(q)[i] < Tail(q)[j]
  <2>1. TAKE i \in DOMAIN Tail(q), j \in DOMAIN Tail(q)
  <2>2. HAVE i < j
  <2>3. i + 1 \in DOMAIN q /\ j + 1 \in DOMAIN q /\ i + 1 < j + 1
    BY <2>1, <2>2, <1>1, <1>3
  <2>4. q[i + 1] < q[j + 1]
    BY <2>3
  <2>5. QED
    BY <2>1, <2>4, <1>4
<1>8. QED
  BY <1>2, <1>4, <1>5, <1>6, <1>7

(* A new task is the last of queue_, and the newest (addTask()). *)
LEMMA AppendInOrder ==
    ASSUME NEW n \in Nat, NEW q \in Seq(1 .. n),
           \A i, j \in DOMAIN q : i < j => q[i] < q[j]
    PROVE  LET p == Append(q, n + 1) IN
           /\ p \in Seq(1 .. n + 1) /\ p # <<>>
           /\ \A i \in DOMAIN p : (i \in DOMAIN q /\ p[i] = q[i]) \/ p[i] = n + 1
           /\ \A i, j \in DOMAIN p : i < j => p[i] < p[j]
<1> DEFINE p == Append(q, n + 1)
<1>1. Len(q) \in Nat /\ DOMAIN q = 1 .. Len(q)
  BY LenProperties
<1>2. q \in Seq(1 .. n + 1)
  BY SeqMonotonic, 1 .. n \subseteq 1 .. n + 1
<1>3. p \in Seq(1 .. n + 1) /\ Len(p) = Len(q) + 1 /\ p # <<>>
      /\ (\A i \in 1 .. Len(q) : p[i] = q[i]) /\ p[Len(q) + 1] = n + 1
  BY <1>1, <1>2, AppendProperties
<1>4. DOMAIN p = 1 .. Len(q) + 1
  BY <1>3, LenProperties
<1>5. \A i \in 1 .. Len(q) : q[i] \in 1 .. n
  BY ElementOfSeq
<1> HIDE DEF p
<1>6. \A i \in DOMAIN p : (i \in DOMAIN q /\ p[i] = q[i]) \/ p[i] = n + 1
  BY <1>1, <1>3, <1>4
<1>7. \A i, j \in DOMAIN p : i < j => p[i] < p[j]
  <2>1. TAKE i \in DOMAIN p, j \in DOMAIN p
  <2>2. HAVE i < j
  <2>3. i \in 1 .. Len(q) /\ p[i] = q[i] /\ p[i] \in 1 .. n
    BY <2>1, <2>2, <1>1, <1>3, <1>4, <1>5
  <2>4. CASE j = Len(q) + 1
    BY <2>3, <2>4, <1>3
  <2>5. CASE j # Len(q) + 1
    <3>1. j \in 1 .. Len(q) /\ p[j] = q[j]
      BY <2>1, <2>5, <1>1, <1>3, <1>4
    <3>2. QED
      BY <3>1, <2>2, <2>3, <1>1
  <2>6. QED
    BY <2>4, <2>5
<1>8. QED
  BY <1>3, <1>6, <1>7 DEF p

-----------------------------------------------------------------------------

(* The tasks that the threads hold, after one has taken a task. *)
LEMMA HeldAfterTake ==
    ASSUME TypeOK, NEW w \in Thread, at[w] = "lock", NEW t \in Nat,
           task' = [task EXCEPT ![w] = t]
    PROVE  Held' = Held \cup {t}
<1>1. task[w] = NoTask /\ t # NoTask
  BY ThreadPoolAssumption DEF TypeOK
<1>2. \A v \in Thread : task'[v] = IF v = w THEN t ELSE task[v]
  BY DEF TypeOK
<1>3. QED
  BY <1>1, <1>2 DEF Held

(* The tasks that the threads hold, after one has finished its own. *)
LEMMA HeldAfterFinish ==
    ASSUME TakenInOrder, NEW w \in Thread, at[w] = "task",
           task' = [task EXCEPT ![w] = NoTask]
    PROVE  task[w] \in Held /\ Held' = Held \ {task[w]}
<1>1. TypeOK /\ task[w] # NoTask
  BY DEF TakenInOrder, TypeOK
<1>2. \A v \in Thread : task'[v] = IF v = w THEN NoTask ELSE task[v]
  BY <1>1 DEF TypeOK
<1>3. \A v \in Thread : task[v] = task[w] => v = w
  BY <1>1 DEF TakenInOrder
<1>4. QED
  BY <1>1, <1>2, <1>3 DEF Held

(* Threads that stop waiting are awake; the others stay where they are. *)
LEMMA AwakeFrom ==
    ASSUME TypeOK, NEW threads \in SUBSET Waiting
    PROVE  /\ Awake(threads) \in [Thread -> {"unborn", "top", "lock", "wait", "task", "over"}]
           /\ \A w \in Thread :
                /\ Awake(threads)[w] = "over" <=> at[w] = "over"
                /\ Awake(threads)[w] = "unborn" <=> at[w] = "unborn"
                /\ Awake(threads)[w] = "task" <=> at[w] = "task"
                /\ Awake(threads)[w] = "wait" => at[w] = "wait"
                /\ w \in threads => Awake(threads)[w] = "lock"
BY DEF TypeOK, Awake, Waiting

(* A new pool has neither threads nor tasks. *)
LEMMA InitPool == Init => PoolInv
<1>1. SUFFICES ASSUME Init PROVE PoolInv
  OBVIOUS
<1>2. Held = {} /\ Range(queue) = {} /\ 1 .. added = {}
  BY <1>1 DEF Init, Held, Range
<1>3. TypeOK
  <2>1. <<>> \in Seq(1 .. added)
    BY EmptySeq
  <2>2. /\ at \in [Thread -> {"unborn", "top", "lock", "wait", "task", "over"}]
        /\ task \in [Thread -> (1 .. added) \cup {NoTask}]
        /\ \A w \in Thread : at[w] # "task" /\ task[w] = NoTask
    BY <1>1 DEF Init
  <2>3. /\ owner = "new" /\ running = FALSE /\ queue \in Seq(1 .. added)
        /\ added \in 0 .. MaxTasks /\ ran = {}
    BY <1>1, <2>1, ThreadPoolAssumption DEF Init
  <2>4. QED
    BY <2>2, <2>3 DEF TypeOK
<1>4. QED
  BY <1>1, <1>2, <1>3
     DEF Init, PoolInv, TakenInOrder, QueueInOrder, OverWhenStopped, Joined,
         NoLostNotify, NoTaskForgotten

(* What a step keeps that changes neither the tasks nor queue_ nor who holds
   a task: every part of PoolInv that is about tasks. *)
LEMMA TasksUntouched ==
    ASSUME PoolInv, UNCHANGED <<queue, task, added, ran>>, TypeOK',
           owner = "gone" => owner' = "gone"
    PROVE  TakenInOrder' /\ QueueInOrder' /\ NoTaskForgotten'
<1>1. Held' = Held
  BY DEF Held
<1>2. QED
  BY <1>1 DEF PoolInv, TakenInOrder, QueueInOrder, NoTaskForgotten, Range

-----------------------------------------------------------------------------
(* The steps of the owner.                                                 *)

(* start(), thread after thread. *)
LEMMA StartStep == PoolInv /\ (Start \/ StartThread) => PoolInv'
<1>1. SUFFICES ASSUME PoolInv, Start \/ StartThread PROVE PoolInv'
  OBVIOUS
<1>2. TypeOK /\ OverWhenStopped /\ NoLostNotify
  BY <1>1 DEF PoolInv, TakenInOrder
<1>3. CASE Start
  <2>1. TypeOK' /\ OverWhenStopped'
    BY <1>2, <1>3 DEF Start, TypeOK, OverWhenStopped
  <2>2. NoLostNotify'
    BY <1>2, <1>3 DEF Start, OverWhenStopped, NoLostNotify
  <2>3. UNCHANGED <<queue, task, added, ran>> /\ owner' # "gone" /\ owner # "gone"
    BY <1>3 DEF Start
  <2>4. QED
    BY <1>1, <2>1, <2>2, <2>3, TasksUntouched DEF PoolInv
<1>4. CASE StartThread
  <2>1. /\ UNCHANGED <<running, queue, task, added, ran>>
        /\ owner = "starting" /\ owner' \in {"starting", "started"}
    BY <1>4 DEF StartThread
  <2>2. TypeOK' /\ OverWhenStopped' /\ NoLostNotify'
    <3>1. CASE ToStart = {}
      <4>1. owner' = "started" /\ UNCHANGED at
        BY <1>4, <3>1 DEF StartThread
      <4>2. QED
        BY <1>2, <2>1, <3>1, <4>1 DEF ToStart, TypeOK, OverWhenStopped, Joined, NoLostNotify
    <3>2. CASE ToStart # {}
      <4>1. PICK v \in ToStart : at' = [at EXCEPT ![v] = "top"]
        BY <1>4, <3>2 DEF StartThread
      <4>2. v \in Thread /\ at[v] = "unborn" /\ owner' = "starting"
        BY <1>4, <3>2, <4>1 DEF StartThread, ToStart
      <4>3. \A w \in Thread : at'[w] = IF w = v THEN "top" ELSE at[w]
        BY <1>2, <4>1, <4>2 DEF TypeOK
      <4>4. TypeOK'
        BY <1>2, <2>1, <4>1, <4>2, <4>3 DEF TypeOK
      <4>5. OverWhenStopped' /\ NoLostNotify'
        BY <1>2, <2>1, <4>2, <4>3 DEF OverWhenStopped, Joined, NoLostNotify
      <4>6. QED
        BY <4>4, <4>5
    <3>3. QED
      BY <3>1, <3>2
  <2>3. QED
    BY <1>1, <2>1, <2>2, TasksUntouched DEF PoolInv
<1>5. QED
  BY <1>1, <1>3, <1>4

(* stop(), and the stop() of ~ThreadPool(). *)
LEMMA StopStep == PoolInv /\ (Stop \/ Destroy) => PoolInv'
<1>1. SUFFICES ASSUME PoolInv, Stop \/ Destroy PROVE PoolInv'
  OBVIOUS
<1>2. TypeOK /\ OverWhenStopped /\ NoLostNotify
  BY <1>1 DEF PoolInv, TakenInOrder
<1>3. /\ UNCHANGED <<queue, task, added, ran>> /\ running' = FALSE
      /\ owner # "gone" /\ owner' \in {"stopped", "destroying"}
      /\ owner' = "stopped" => owner = "started"
      /\ Stopped \/ UNCHANGED at
  BY <1>1 DEF Stop, Destroy
<1>4. /\ at' \in [Thread -> {"unborn", "top", "lock", "wait", "task", "over"}]
      /\ \A w \in Thread : /\ at'[w] = "unborn" <=> at[w] = "unborn"
                           /\ at'[w] = "task" <=> at[w] = "task"
  BY <1>2, <1>3, AwakeFrom DEF Stopped, TypeOK
<1>5. TypeOK' /\ OverWhenStopped' /\ NoLostNotify'
  BY <1>2, <1>3, <1>4 DEF TypeOK, OverWhenStopped, Joined, NoLostNotify
<1>6. QED
  BY <1>1, <1>3, <1>5, TasksUntouched DEF PoolInv

(* The end of ~ThreadPool(): the tasks left in queue_ go with it. *)
LEMMA DestroyedStep == PoolInv /\ Destroyed => PoolInv'
<1>1. SUFFICES ASSUME PoolInv, Destroyed PROVE PoolInv'
  OBVIOUS
<1>2. /\ UNCHANGED <<running, at, task, added, ran>>
      /\ owner' = "gone" /\ queue' = <<>>
  BY <1>1 DEF Destroyed
<1>3. Held' = Held
  BY <1>2 DEF Held
<1>4. <<>> \in Seq(1 .. added) /\ DOMAIN <<>> = {}
  BY EmptySeq
<1>5. QED
  BY <1>1, <1>2, <1>3, <1>4
     DEF PoolInv, TakenInOrder, TypeOK, QueueInOrder, OverWhenStopped, Joined,
         Destroyed, NoLostNotify, NoTaskForgotten

-----------------------------------------------------------------------------
(* Adding a task.                                                          *)

(* notify_one() leaves every thread where it is but for one that waits, and
   then at least one does not wait any more. *)
LEMMA NotifyOneWakes ==
    ASSUME TypeOK, NotifyOne, NEW v \in Thread, at[v] # "unborn", running,
           \A w \in Thread : at[w] # "over"
    PROVE  \E w \in Thread : at'[w] \notin {"wait", "over"}
<1>1. CASE Waiting = {}
  BY <1>1 DEF NotifyOne, Waiting
<1>2. CASE Waiting # {}
  <2>1. PICK w \in Waiting : at' = Awake({w})
    BY <1>2 DEF NotifyOne
  <2>2. w \in Thread /\ at'[w] = "lock"
    BY <2>1, AwakeFrom DEF Waiting
  <2>3. QED
    BY <2>2
<1>3. QED
  BY <1>1, <1>2

(* addTask(), of the owner or of a task. *)
LEMMA AddStep == PoolInv /\ AddTask /\ owner # "gone" => PoolInv'
<1>1. SUFFICES ASSUME PoolInv, AddTask, owner # "gone" PROVE PoolInv'
  OBVIOUS
<1>2. /\ TypeOK /\ TakenInOrder /\ QueueInOrder /\ OverWhenStopped
      /\ NoLostNotify /\ NoTaskForgotten
  BY <1>1 DEF PoolInv, TakenInOrder
<1>3. /\ added < MaxTasks /\ added' = added + 1 /\ UNCHANGED <<owner, running, task>>
      /\ added \in Nat /\ added' \in 0 .. MaxTasks /\ 1 .. added' = 1 .. added \cup {added'}
      /\ queue \in Seq(1 .. added)
  BY <1>1, <1>2, ThreadPoolAssumption DEF AddTask, TypeOK
<1>4. Held' = Held /\ Held \subseteq 1 .. added
  BY <1>2, <1>3 DEF Held, TypeOK
<1>5. \A i \in DOMAIN queue : queue[i] \in 1 .. added
  BY <1>3, ElementOfSeq, LenProperties
<1>6. CASE \A w \in Thread : at[w] = "unborn"
  <2>1. ran' = ran \cup {added'} /\ UNCHANGED <<queue, at>>
    BY <1>1, <1>6 DEF AddTask
  <2>2. queue = <<>> /\ DOMAIN queue = {} /\ Range(queue) = {}
    BY <1>2, <1>6 DEF OverWhenStopped, Joined, Range
  <2>3. TypeOK'
    BY <1>2, <1>3, <2>1, <2>2, EmptySeq DEF TypeOK
  <2>4. TakenInOrder'
    BY <1>2, <1>3, <1>4, <2>1, <2>2, <2>3 DEF TakenInOrder
  <2>5. NoTaskForgotten'
    BY <1>2, <1>3, <1>4, <1>1, <2>1, <2>2 DEF NoTaskForgotten, Range
  <2>6. QED
    BY <1>2, <1>3, <2>1, <2>2, <2>4, <2>5
       DEF PoolInv, QueueInOrder, OverWhenStopped, Joined, NoLostNotify
<1>7. CASE ~ \A w \in Thread : at[w] = "unborn"
  <2>1. queue' = Append(queue, added') /\ NotifyOne /\ UNCHANGED ran
    BY <1>1, <1>7 DEF AddTask
  <2>2. /\ queue' \in Seq(1 .. added') /\ queue' # <<>>
        /\ \A i \in DOMAIN queue' :
              (i \in DOMAIN queue /\ queue'[i] = queue[i]) \/ queue'[i] = added'
        /\ QueueInOrder'
    BY <1>2, <1>3, <2>1, AppendInOrder DEF QueueInOrder
  <2>3. Range(queue') = Range(queue) \cup {added'}
    <3>1. /\ \A i \in DOMAIN queue : i \in DOMAIN queue' /\ queue'[i] = queue[i]
          /\ Len(queue) + 1 \in DOMAIN queue' /\ queue'[Len(queue) + 1] = added'
      BY <1>3, <2>1
    <3>2. QED
      BY <2>2, <3>1 DEF Range
  <2>4. /\ at' \in [Thread -> {"unborn", "top", "lock", "wait", "task", "over"}]
        /\ \A w \in Thread : /\ at'[w] = "unborn" <=> at[w] = "unborn"
                             /\ at'[w] = "over" <=> at[w] = "over"
                             /\ at'[w] = "task" <=> at[w] = "task"
    <3>1. CASE Waiting = {}
      BY <1>2, <2>1, <3>1 DEF NotifyOne, TypeOK
    <3>2. CASE Waiting # {}
      <4>1. PICK v \in Waiting : at' = Awake({v})
        BY <2>1, <3>2 DEF NotifyOne
      <4>2. {v} \in SUBSET Waiting
        BY <4>1
      <4>3. QED
        BY <1>2, <4>1, <4>2, AwakeFrom
    <3>3. QED
      BY <3>1, <3>2
  <2>5. TypeOK'
    BY <1>2, <1>3, <2>1, <2>2, <2>4 DEF TypeOK
  <2>6. TakenInOrder'
    BY <1>2, <1>3, <1>4, <2>1, <2>2, <2>5 DEF TakenInOrder, TypeOK
  <2>7. OverWhenStopped'
    BY <1>2, <1>3, <1>7, <2>4 DEF OverWhenStopped, Joined
  <2>8. NoLostNotify'
    BY <1>2, <1>3, <1>7, <2>1, NotifyOneWakes DEF NoLostNotify, OverWhenStopped
  <2>9. NoTaskForgotten'
    BY <1>1, <1>2, <1>3, <1>4, <2>1, <2>3 DEF NoTaskForgotten
  <2>10. QED
    BY <2>2, <2>6, <2>7, <2>8, <2>9 DEF PoolInv
<1>8. QED
  BY <1>6, <1>7

-----------------------------------------------------------------------------
(* The steps of a thread.                                                  *)

(* A thread that moves without a task (lines 82 and 85, and a return from
   cond_.wait()). *)
LEMMA MoveStep ==
    ASSUME NEW w \in Thread
    PROVE  PoolInv /\ (ReadRunning(w) \/ FindEmpty(w) \/ SpuriousWakeup(w)) => PoolInv'
<1>1. SUFFICES ASSUME PoolInv, ReadRunning(w) \/ FindEmpty(w) \/ SpuriousWakeup(w)
               PROVE  PoolInv'
  OBVIOUS
<1>2. TypeOK /\ OverWhenStopped /\ NoLostNotify
  BY <1>1 DEF PoolInv, TakenInOrder
<1>3. UNCHANGED <<owner, running, queue, task, added, ran>>
  BY <1>1 DEF ReadRunning, FindEmpty, SpuriousWakeup
<1>4. PICK to \in {"lock", "wait", "over"} :
        /\ \A v \in Thread : at'[v] = IF v = w THEN to ELSE at[v]
        /\ at' \in [Thread -> {"unborn", "top", "lock", "wait", "task", "over"}]
        /\ at[w] \in {"top", "lock", "wait"}
        /\ to = "over" => ~running
        /\ to = "wait" => queue = <<>>
  <2>1. CASE ReadRunning(w)
    BY <1>2, <2>1 DEF ReadRunning, TypeOK
  <2>2. CASE FindEmpty(w)
    BY <1>2, <2>2 DEF FindEmpty, EmptyQueue, TypeOK
  <2>3. CASE SpuriousWakeup(w)
    BY <1>2, <2>3 DEF SpuriousWakeup, Awake, TypeOK
  <2>4. QED
    BY <1>1, <2>1, <2>2, <2>3
<1>5. TypeOK'
  BY <1>2, <1>3, <1>4 DEF TypeOK
<1>6. OverWhenStopped' /\ NoLostNotify'
  BY <1>2, <1>3, <1>4 DEF OverWhenStopped, Joined, NoLostNotify
<1>7. QED
  BY <1>1, <1>3, <1>5, <1>6, TasksUntouched DEF PoolInv

(* A thread takes the first task (lines 88-93). *)
LEMMA TakeStep ==
    ASSUME NEW w \in Thread
    PROVE  PoolInv /\ Take(w) => PoolInv'
<1>1. SUFFICES ASSUME PoolInv, Take(w) PROVE PoolInv'
  OBVIOUS
<1>2. /\ TypeOK /\ TakenInOrder /\ QueueInOrder /\ OverWhenStopped
      /\ NoLostNotify /\ NoTaskForgotten
  BY <1>1 DEF PoolInv, TakenInOrder
<1> DEFINE t == Head(queue)
<1>3. /\ at[w] = "lock" /\ queue # <<>>
      /\ task' = [task EXCEPT ![w] = t] /\ queue' = Tail(queue)
      /\ at' = [at EXCEPT ![w] = "task"]
      /\ UNCHANGED <<owner, running, added, ran>>
      /\ queue \in Seq(1 .. added) /\ added \in Nat
  BY <1>1, <1>2 DEF Take, TakeOne, TypeOK
<1>4. /\ t \in 1 .. added /\ t = queue[1] /\ 1 \in DOMAIN queue
      /\ queue' \in Seq(1 .. added)
      /\ \A i \in DOMAIN queue' : i + 1 \in DOMAIN queue /\ queue'[i] = queue[i + 1]
      /\ \A i \in DOMAIN queue' : t < queue'[i]
      /\ QueueInOrder'
  BY <1>2, <1>3, TailInOrder DEF QueueInOrder
<1>5. Range(queue) = Range(queue') \cup {t}
  <2>1. ASSUME NEW i \in DOMAIN queue PROVE queue[i] \in Range(queue') \cup {t}
    <3>1. CASE i = 1
      BY <1>4, <3>1
    <3>2. CASE i # 1
      <4>1. i - 1 \in DOMAIN queue' /\ queue'[i - 1] = queue[i]
        BY <1>3, <2>1, <3>2
      <4>2. QED
        BY <4>1 DEF Range
    <3>3. QED
      BY <3>1, <3>2
  <2>2. Range(queue') \cup {t} \subseteq Range(queue)
    BY <1>4 DEF Range
  <2>3. Range(queue) \subseteq Range(queue') \cup {t}
    BY <2>1 DEF Range
  <2>4. QED
    BY <2>2, <2>3
<1> HIDE DEF t
<1>6. Held' = Held \cup {t}
  <2>1. t \in Nat
    BY <1>4
  <2>2. QED
    BY <1>2, <1>3, <2>1, HeldAfterTake
<1>7. \A u \in Held \cup ran : u < t
  BY <1>2, <1>4 DEF TakenInOrder
<1>8. t \notin Held \cup ran
  BY <1>4, <1>7
<1>9. \A v \in Thread : /\ task'[v] = IF v = w THEN t ELSE task[v]
                       /\ at'[v] = IF v = w THEN "task" ELSE at[v]
  BY <1>2, <1>3 DEF TypeOK
<1>10. TypeOK'
  <2>1. t # NoTask
    BY <1>3, <1>4, ThreadPoolAssumption
  <2>2. task' \in [Thread -> (1 .. added) \cup {NoTask}]
    BY <1>2, <1>3, <1>4 DEF TypeOK
  <2>3. at' \in [Thread -> {"unborn", "top", "lock", "wait", "task", "over"}]
    BY <1>2, <1>3 DEF TypeOK
  <2>4. QED
    BY <1>2, <1>3, <1>4, <1>9, <2>1, <2>2, <2>3 DEF TypeOK
<1>11. TakenInOrder'
  <2>1. Held' \cap ran' = {}
    BY <1>2, <1>3, <1>6, <1>8 DEF TakenInOrder
  <2>2. \A u, v \in Thread : task'[u] # NoTask /\ task'[u] = task'[v] => u = v
    BY <1>2, <1>8, <1>9 DEF TakenInOrder, Held
  <2>3. \A i \in DOMAIN queue' : \A u \in Held' \cup ran' : u < queue'[i]
    BY <1>2, <1>3, <1>4, <1>6 DEF TakenInOrder
  <2>4. QED
    BY <1>10, <2>1, <2>2, <2>3 DEF TakenInOrder
<1>12. OverWhenStopped' /\ NoLostNotify'
  BY <1>2, <1>3, <1>9 DEF OverWhenStopped, Joined, NoLostNotify
<1>13. NoTaskForgotten'
  BY <1>2, <1>3, <1>5, <1>6 DEF NoTaskForgotten
<1>14. QED
  BY <1>4, <1>11, <1>12, <1>13 DEF PoolInv

(* A task returns (line 95). *)
LEMMA FinishStep ==
    ASSUME NEW w \in Thread
    PROVE  PoolInv /\ FinishTask(w) => PoolInv'
<1>1. SUFFICES ASSUME PoolInv, FinishTask(w) PROVE PoolInv'
  OBVIOUS
<1>2. /\ TypeOK /\ TakenInOrder /\ OverWhenStopped
      /\ NoLostNotify /\ NoTaskForgotten
  BY <1>1 DEF PoolInv, TakenInOrder
<1>3. /\ at[w] = "task" /\ ran' = ran \cup {task[w]}
      /\ task' = [task EXCEPT ![w] = NoTask]
      /\ at' = [at EXCEPT ![w] = "top"]
      /\ UNCHANGED <<owner, running, queue, added>>
  BY <1>1 DEF FinishTask
<1>4. task[w] \in Held /\ Held' = Held \ {task[w]}
  BY <1>2, <1>3, HeldAfterFinish
<1>5. \A v \in Thread : /\ task'[v] = IF v = w THEN NoTask ELSE task[v]
                       /\ at'[v] = IF v = w THEN "top" ELSE at[v]
  BY <1>2, <1>3 DEF TypeOK
<1>6. TypeOK'
  BY <1>2, <1>3, <1>5 DEF TypeOK
<1>7. TakenInOrder'
  BY <1>2, <1>3, <1>4, <1>5, <1>6 DEF TakenInOrder
<1>8. OverWhenStopped' /\ NoLostNotify'
  BY <1>2, <1>3, <1>5 DEF OverWhenStopped, Joined, NoLostNotify
<1>9. NoTaskForgotten' /\ QueueInOrder'
  BY <1>1, <1>2, <1>3, <1>4 DEF NoTaskForgotten, PoolInv, QueueInOrder
<1>10. QED
  BY <1>7, <1>8, <1>9 DEF PoolInv

-----------------------------------------------------------------------------

(* Every step of the pool keeps PoolInv. *)
LEMMA PoolInvStep == PoolInv /\ [Next]_vars => PoolInv'
<1>1. SUFFICES ASSUME PoolInv, [Next]_vars PROVE PoolInv'
  OBVIOUS
<1>2. CASE AddTaskByOwner
  BY <1>1, <1>2, AddStep DEF AddTaskByOwner
<1>3. ASSUME NEW w \in Thread, AddTaskByTask(w) PROVE PoolInv'
  BY <1>1, <1>3, AddStep DEF AddTaskByTask, PoolInv, OverWhenStopped, Joined
<1>4. CASE UNCHANGED vars
  BY <1>1, <1>4 DEF vars, PoolInv, TakenInOrder, TypeOK, QueueInOrder,
     OverWhenStopped, Joined, NoLostNotify, NoTaskForgotten, Held, Range
<1>5. QED
  BY <1>1, <1>2, <1>3, <1>4, StartStep, StopStep, DestroyedStep, MoveStep,
     TakeStep, FinishStep DEF Next, ThreadStep

(* The inductive invariant of the pool. *)
THEOREM PoolInvariant == Spec => []PoolInv
<1>1. QED
  BY InitPool, PoolInvStep, PTL DEF Spec

(* Tasks are taken from queue_ once, by one thread, in the order in which
   addTask() queued them. *)
THEOREM TasksTakenInOrder == Spec => []TakenInOrder
<1>1. PoolInv => TakenInOrder
  BY DEF PoolInv
<1>2. QED
  BY <1>1, PoolInvariant, PTL

(* While the pool runs, a task in queue_ has a thread that is neither waiting
   nor gone: no notify_one() is lost. *)
THEOREM NoNotifyLost == Spec => []NoLostNotify
<1>1. PoolInv => NoLostNotify
  BY DEF PoolInv
<1>2. QED
  BY <1>1, PoolInvariant, PTL

(* Until the pool is destroyed every task that was added is in queue_, with a
   thread, or has run: neither addTask() nor stop() drops one. *)
THEOREM TasksNotForgotten == Spec => []NoTaskForgotten
<1>1. PoolInv => NoTaskForgotten
  BY DEF PoolInv
<1>2. QED
  BY <1>1, PoolInvariant, PTL
=============================================================================
