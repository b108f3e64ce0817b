----------------------------- MODULE ThreadPool -----------------------------
(***************************************************************************)
(* ThreadPool: threads that take tasks from one queue under mutex_ and wait *)
(* on cond_ while it is empty.  A critical section is one step, a wait ends *)
(* one and begins another; running_ is also read without the lock.  The     *)
(* owner starts, stops and destroys the pool once and adds tasks meanwhile, *)
(* and so does a task while it runs.  Tasks are numbered as they are added. *)
(***************************************************************************)
EXTENDS Naturals, Sequences, SequencesExt

CONSTANTS
    Threads,      \* threadSize_
    MaxTasks,     \* bound: tasks that are added
    NoTask

ASSUME ThreadPoolAssumption ==
    /\ Threads \in Nat /\ MaxTasks \in Nat
    /\ NoTask \notin Nat

Thread == 1 .. Threads

VARIABLES
    owner,        \* new, starting (in start()), started, stopped, destroying
                  \* (in ~ThreadPool()), gone
    running,      \* running_
    at,           \* of each thread: unborn; top (line 82, to read running_);
                  \* lock (line 84, to lock mutex_); wait (in cond_.wait());
                  \* task (running one); over (runInThread() returned)
    queue,        \* queue_
    task,         \* of each thread: what it runs, or NoTask
    added,        \* how many tasks were added
    ran           \* the tasks that were run to their end

vars == <<owner, running, at, queue, task, added, ran>>

Init ==
    /\ owner = "new"
    /\ running = FALSE
    /\ at = [w \in Thread |-> "unborn"]
    /\ queue = <<>>
    /\ task = [w \in Thread |-> NoTask]
    /\ added = 0
    /\ ran = {}

Waiting == {w \in Thread : at[w] = "wait"}
Awake(threads) == [w \in Thread |-> IF w \in threads THEN "lock" ELSE at[w]]

-----------------------------------------------------------------------------
(* The owner.                                                              *)

(* start() begins: no thread can tell when it sets running_. *)
Start ==
    /\ owner = "new"
    /\ owner' = "starting"
    /\ running' = TRUE
    /\ UNCHANGED <<at, queue, task, added, ran>>

ToStart == {w \in Thread : at[w] = "unborn"}

(* The loop of start(): one Thread::start() after the other. *)
StartThread ==
    /\ owner = "starting"
    /\ IF ToStart = {} THEN owner' = "started" /\ UNCHANGED at
       ELSE /\ \E w \in ToStart : /\ \A v \in ToStart : w <= v
                                 /\ at' = [at EXCEPT ![w] = "top"]
            /\ UNCHANGED owner
    /\ UNCHANGED <<running, queue, task, added, ran>>

(* Faulty variant of Stopped: one thread is told. *)
OneStopped == \E w \in Waiting : at' = Awake({w})
Stopped == at' = Awake(Waiting)

Stop ==
    /\ owner = "started"
    /\ owner' = "stopped"
    /\ running' = FALSE
    /\ Stopped
    /\ UNCHANGED <<queue, task, added, ran>>

(* ~ThreadPool() stops a pool that runs. *)
Destroy ==
    /\ owner \in {"new", "started", "stopped"}
    /\ owner' = "destroying"
    /\ running' = FALSE
    /\ IF running THEN Stopped ELSE UNCHANGED at
    /\ UNCHANGED <<queue, task, added, ran>>

Joined == \A w \in Thread : at[w] \in {"unborn", "over"}

(* Every thread was joined; queue_ is destroyed, with what is left in it. *)
Destroyed ==
    /\ owner = "destroying"
    /\ Joined
    /\ owner' = "gone"
    /\ queue' = <<>>
    /\ UNCHANGED <<running, at, task, added, ran>>

-----------------------------------------------------------------------------
(* Tasks.                                                                  *)

(* Faulty variant of NotifyOne: nobody is told. *)
NotifyNone == UNCHANGED at

NotifyOne ==
    IF Waiting = {} THEN UNCHANGED at ELSE \E w \in Waiting : at' = Awake({w})

(* addTask(): without threads, that is also before start(), it runs the task
   itself. *)
AddTask ==
    /\ added < MaxTasks
    /\ added' = added + 1
    /\ IF \A w \in Thread : at[w] = "unborn"
       THEN ran' = ran \cup {added'} /\ UNCHANGED <<queue, at>>
       ELSE queue' = Append(queue, added') /\ NotifyOne /\ UNCHANGED ran
    /\ UNCHANGED <<owner, running, task>>

AddTaskByOwner == owner \in {"new", "started", "stopped"} /\ AddTask
AddTaskByTask(w) == at[w] = "task" /\ AddTask

-----------------------------------------------------------------------------
(* runInThread().                                                          *)

(* Line 82. *)
ReadRunning(w) ==
    /\ at[w] = "top"
    /\ at' = [at EXCEPT ![w] = IF running THEN "lock" ELSE "over"]
    /\ UNCHANGED <<owner, running, queue, task, added, ran>>

(* Faulty variant of TakeOne: the newest task. *)
TakeNewest(w) ==
    /\ task' = [task EXCEPT ![w] = Last(queue)]
    /\ queue' = Front(queue)

TakeOne(w) ==
    /\ task' = [task EXCEPT ![w] = Head(queue)]
    /\ queue' = Tail(queue)

(* Lines 84-93: with mutex_ locked, on the way in or back from a wait. *)
Take(w) ==
    /\ at[w] = "lock" /\ queue # <<>>
    /\ TakeOne(w)
    /\ at' = [at EXCEPT ![w] = "task"]
    /\ UNCHANGED <<owner, running, added, ran>>

EmptyQueue(w) == IF running THEN "wait" ELSE "over"

FindEmpty(w) ==
    /\ at[w] = "lock" /\ queue = <<>>
    /\ at' = [at EXCEPT ![w] = EmptyQueue(w)]
    /\ UNCHANGED <<owner, running, queue, task, added, ran>>

(* cond_.wait() may return without a notification. *)
SpuriousWakeup(w) ==
    /\ at[w] = "wait"
    /\ at' = Awake({w})
    /\ UNCHANGED <<owner, running, queue, task, added, ran>>

(* Line 95 returns. *)
FinishTask(w) ==
    /\ at[w] = "task"
    /\ at' = [at EXCEPT ![w] = "top"]
    /\ ran' = ran \cup {task[w]}
    /\ task' = [task EXCEPT ![w] = NoTask]
    /\ UNCHANGED <<owner, running, queue, added>>

-----------------------------------------------------------------------------
ThreadStep(w) == ReadRunning(w) \/ Take(w) \/ FindEmpty(w) \/ FinishTask(w)

Next ==
    \/ Start \/ StartThread \/ Stop \/ Destroy \/ Destroyed
    \/ AddTaskByOwner
    \/ \E w \in Thread : ThreadStep(w) \/ SpuriousWakeup(w) \/ AddTaskByTask(w)

Spec == Init /\ [][Next]_vars

(* Threads are scheduled, a thread that wants mutex_ gets it, tasks return,
   and the owner finishes a start() and a destructor once it is in it.  No
   wakeup without a notification is relied on. *)
FairSpec ==
    /\ Spec
    /\ WF_vars(StartThread) /\ WF_vars(Destroyed)
    /\ \A w \in Thread : WF_vars(ThreadStep(w))

-----------------------------------------------------------------------------
(* Properties.                                                             *)

(* Every variable has its type, a thread has a task while it runs one, and a
   pool that was started has all its threads. *)
TypeOK ==
    /\ owner \in {"new", "starting", "started", "stopped", "destroying", "gone"}
    /\ running \in BOOLEAN
    /\ at \in [Thread -> {"unborn", "top", "lock", "wait", "task", "over"}]
    /\ queue \in Seq(1 .. added)
    /\ task \in [Thread -> (1 .. added) \cup {NoTask}]
    /\ added \in 0 .. MaxTasks
    /\ ran \subseteq 1 .. added
    /\ \A w \in Thread : at[w] = "task" <=> task[w] # NoTask
    /\ owner \in {"started", "stopped"} => \A w \in Thread : at[w] # "unborn"

Held == {task[w] : w \in Thread} \ {NoTask}

(* Tasks are taken once, by one thread, in the order in which they were added
   (lines 91-92 take and remove the first under one lock). *)
TakenInOrder ==
    /\ TypeOK
    /\ Held \cap ran = {}
    /\ \A w, v \in Thread : task[w] # NoTask /\ task[w] = task[v] => w = v
    /\ \A i \in DOMAIN queue : \A t \in Held \cup ran : t < queue[i]

(* A task in queue_ has a thread that is on its way to it, unless the pool
   was stopped: notify_one() (line 70) is not lost to a thread that was
   between its test of queue_ and its wait. *)
NoLostNotify ==
    queue # <<>> /\ running => \E w \in Thread : at[w] \notin {"wait", "over"}

(* A task that was added runs, unless the pool is stopped before. *)
TaskRuns == \A t \in 1 .. MaxTasks : t \in Range(queue) ~> t \in ran \/ ~running

(* The destructor returns, whatever was in queue_ and whoever was waiting. *)
DestructorReturns == owner = "destroying" ~> owner = "gone"

=============================================================================
