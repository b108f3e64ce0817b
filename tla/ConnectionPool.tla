--------------------------- MODULE ConnectionPool ---------------------------
(***************************************************************************)
(* ConnectionPool: MySQL connections that users take and give back, a       *)
(* producer thread that opens more when none is left and a recycler thread  *)
(* that closes idle ones.  All of it happens under mtx_, one critical       *)
(* section to a step.  Only the producer depends on notifications: a user   *)
(* in getConnection() also looks when its wait_for() times out, which may   *)
(* be at any moment.                                                        *)
(***************************************************************************)
EXTENDS Integers, Sequences, FiniteSets, SequencesExt, FiniteSetsExt

CONSTANTS
    User,
    Conn,         \* bound: the connections that are open at a time
    minSize,
    maxSize

ASSUME ConnectionPoolAssumption ==
    /\ minSize \in Nat /\ maxSize \in Nat
    /\ IsFiniteSet(Conn) /\ minSize < Cardinality(Conn) /\ maxSize < Cardinality(Conn)
    /\ {"out", "waiting"} \cap Conn = {}

VARIABLES
    connQueue,
    currentSize,
    idle,         \* those of connQueue unused for maxIdleTime_ or longer
    producer,     \* running, or waiting in cond_.wait()
    user          \* of each user: out, waiting (line 88) or what it holds

vars == <<connQueue, currentSize, idle, producer, user>>

Held == {user[u] : u \in User} \cap Conn
Open == Range(connQueue) \cup Held

-----------------------------------------------------------------------------
(* addConnection() and the currentSize_++ of its callers, each counting it:
   twice in all. *)
CountTwice(size) == size + 2

Init ==
    /\ connQueue \in [1 .. minSize -> Conn] /\ IsInjective(connQueue)
    /\ currentSize = 2 * minSize
    /\ idle = {}
    /\ producer = "running"
    /\ user = [u \in User |-> "out"]

(* Faulty variant of MayProduce: always. *)
MayAlways == TRUE
MayProduce == currentSize < maxSize

(* produceConnection() finds none left; it spins when it may not add one. *)
Produce ==
    /\ producer = "running"
    /\ connQueue = <<>>
    /\ MayProduce
    /\ \E c \in Conn \ Open : connQueue' = <<c>>
    /\ currentSize' = CountTwice(currentSize)
    /\ UNCHANGED <<idle, producer, user>>

ProducerWaits ==
    /\ producer = "running"
    /\ connQueue # <<>>
    /\ producer' = "waiting"
    /\ UNCHANGED <<connQueue, currentSize, idle, user>>

SpuriousWakeup ==
    /\ producer = "waiting"
    /\ producer' = "running"
    /\ UNCHANGED <<connQueue, currentSize, idle, user>>

-----------------------------------------------------------------------------
(* The recycler.                                                           *)

Age(c) ==
    /\ c \in Range(connQueue) \ idle
    /\ idle' = idle \cup {c}
    /\ UNCHANGED <<connQueue, currentSize, producer, user>>

(* The loop of recycleConnection() may get past the first n. *)
MayClose(n) ==
    Len(connQueue) - n >= minSize /\ \A i \in 1 .. n : connQueue[i] \in idle

(* After its sleep: as many as it may; nobody is notified. *)
Recycle == \E n \in 1 .. Len(connQueue) :
    /\ MayClose(n) /\ \A m \in n + 1 .. Len(connQueue) : ~MayClose(m)
    /\ connQueue' = SubSeq(connQueue, n + 1, Len(connQueue))
    /\ currentSize' = currentSize - n
    /\ idle' = idle \ {connQueue[i] : i \in 1 .. n}
    /\ UNCHANGED <<producer, user>>

-----------------------------------------------------------------------------
(* The users.                                                              *)

Wait(u) ==
    /\ user[u] = "out"
    /\ connQueue = <<>>
    /\ user' = [user EXCEPT ![u] = "waiting"]
    /\ UNCHANGED <<connQueue, currentSize, idle, producer>>

(* Faulty variant of NotifyAll: line 103 is forgotten. *)
NotifyNobody == producer
NotifyAll == "running"

(* Faulty variant of Rest: line 102 is forgotten. *)
RestWithHead == connQueue
Rest == Tail(connQueue)

Get(u) ==
    /\ user[u] \in {"out", "waiting"}
    /\ connQueue # <<>>
    /\ user' = [user EXCEPT ![u] = Head(connQueue)]
    /\ connQueue' = Rest
    /\ producer' = NotifyAll
    /\ idle' = idle \ {Head(connQueue)}
    /\ UNCHANGED currentSize

(* The deleter of the shared_ptr (lines 97-101): it counts as used just now,
   and nobody is notified. *)
Release(u) ==
    /\ user[u] \in Conn
    /\ connQueue' = Append(connQueue, user[u])
    /\ user' = [user EXCEPT ![u] = "out"]
    /\ UNCHANGED <<currentSize, idle, producer>>

-----------------------------------------------------------------------------
Next ==
    \/ Produce \/ ProducerWaits \/ SpuriousWakeup \/ Recycle
    \/ \E c \in Conn : Age(c)
    \/ \E u \in User : Wait(u) \/ Get(u) \/ Release(u)

Spec == Init /\ [][Next]_vars

-----------------------------------------------------------------------------
(* Properties.                                                             *)

(* Every variable has its type, and currentSize_ stays in its bounds. *)
TypeOK ==
    /\ connQueue \in Seq(Conn)
    /\ currentSize \in 0 .. Max({2 * minSize, maxSize + 1})
    /\ idle \subseteq Range(connQueue)
    /\ producer \in {"running", "waiting"}
    /\ user \in [User -> Conn \cup {"out", "waiting"}]

(* No connection is with two users, twice in connQueue_, or in connQueue_
   while somebody uses it (lines 96-102). *)
InOnePlace ==
    /\ TypeOK
    /\ IsInjective(connQueue)
    /\ Range(connQueue) \cap Held = {}
    /\ \A u, v \in User : user[u] \in Conn /\ user[u] = user[v] => u = v

(* No more connections are open than the configuration allows. *)
AtMostMaxSize == Cardinality(Open) <= Max({minSize, maxSize})

(* Whoever waits while currentSize_ leaves room does not wait for those who hold a
   connection: the producer is told of every connection taken (line 103), finds the
   queue empty and opens another one (lines 46-52), and the number handed out
   changes.  With minSize_ = 0 nobody promises that: the recycler may close the last
   connection while the producer sleeps (lines 61-67 notify nobody). *)
HandedOut(k) == Cardinality(Held) = k
WaitsInVain(k) ==
    /\ minSize > 0 /\ MayProduce
    /\ \E u \in User : user[u] = "waiting"
    /\ HandedOut(k)
RoomIsUsed == \A k \in 0 .. maxSize : WaitsInVain(k) ~> ~HandedOut(k)

=============================================================================
