-------------------------- MODULE MysqlConn_proofs --------------------------
(***************************************************************************)
(* Proofs about the ConnectionPool and the connections in its users' hands: *)
(* a connection is in one place, no more are open than configured, and what *)
(* a connection keeps from user to user is never taken for another's.       *)
(***************************************************************************)
EXTENDS MysqlConn, SequenceTheorems, FunctionTheorems, FiniteSetTheorems, TLAPS

(* currentSize_ counts at least the connections that are open.  It counts each
   twice when it is opened and once when it is closed, so AtMostMaxSize needs
   only this bound. *)
OpenCounted == Cardinality(Open) <= currentSize

(* What the pool keeps at every step. *)
ConnInv == InOnePlace /\ OpenCounted /\ AtMostMaxSize

(* A result that nobody has fetched is of the user who holds the connection and
   is about to call query(). *)
Unfetched ==
    \A c \in Conn : session[c].unfetched # None =>
        \E u \in User : user[u] = c /\ doing[u] = "selected"

(* No call that needs the server is refused because a result is unfetched
   ("commands out of sync"), whoever had the connection before. *)
CallsInSync ==
    \A u \in User : user[u] \in Conn /\ doing[u] # "selected" => InSync(u)

(* Of the sessions: their type, and what a connection keeps in terms of who
   holds it. *)
SessionOfHolder ==
    /\ session \in [Conn -> [res : User \cup {None}, unfetched : User \cup {None},
                            autocommit : BOOLEAN, uncommitted : SUBSET User]]
    /\ doing \in [User -> {"idle", "selected", "reading", "transaction"}]
    /\ \A u \in User : doing[u] # "idle" => user[u] \in Conn
    /\ \A u \in User : doing[u] = "selected" => session[user[u]].unfetched = u
    /\ Unfetched
    /\ SessionIsOwn

(* SessionIsOwn alone is not inductive: that a row is the reader's own comes
   from what was unfetched before, and that from who held the connection. *)
SessionInv == ConnInv /\ SessionOfHolder

-----------------------------------------------------------------------------

(* The greater of two numbers. *)
LEMMA MaxOfTwo ==
    ASSUME NEW a \in Int, NEW b \in Int
    PROVE  Max({a, b}) = IF a >= b THEN a ELSE b
<1>1. \A x \in {a, b} : (\A y \in {a, b} : x >= y) <=> x = IF a >= b THEN a ELSE b
  OBVIOUS
<1>2. (IF a >= b THEN a ELSE b) \in {a, b}
  OBVIOUS
<1>3. QED
  BY <1>1, <1>2 DEF Max

(* The first n of a queue without repetitions are n connections. *)
LEMMA CountFirst ==
    ASSUME NEW q \in Seq(Conn), IsInjective(q), NEW n \in 0 .. Len(q),
           NEW first, first = {q[i] : i \in 1 .. n}
    PROVE  /\ first \subseteq Conn /\ first \subseteq Range(q)
           /\ IsFiniteSet(first) /\ Cardinality(first) = n
<1>1. Len(q) \in Nat /\ n \in Nat /\ 1 .. n \subseteq DOMAIN q
      /\ \A i \in DOMAIN q : q[i] \in Conn
  BY LenProperties, ElementOfSeq
<1> DEFINE f == [i \in 1 .. n |-> q[i]]
<1>2. f \in Bijection(1 .. n, first)
  <2>1. f \in [1 .. n -> first]
    OBVIOUS
  <2>2. \A i, j \in 1 .. n : f[i] = f[j] => i = j
    BY <1>1 DEF IsInjective
  <2>3. \A c \in first : \E i \in 1 .. n : f[i] = c
    OBVIOUS
  <2>4. QED
    BY <2>1, <2>2, <2>3, Fun_IsBij
<1>3. IsFiniteSet(1 .. n) /\ Cardinality(1 .. n) = n
  BY <1>1, FS_Interval
<1>4. ExistsBijection(1 .. n, first)
  BY <1>2 DEF ExistsBijection
<1>5. IsFiniteSet(first) /\ Cardinality(first) = n
  BY <1>3, <1>4, FS_Bijection
<1>6. QED
  BY <1>1, <1>5 DEF Range

(* A queue without repetitions, without its first n: no connection of the first
   n is left. *)
LEMMA Suffix ==
    ASSUME NEW q \in Seq(Conn), IsInjective(q), NEW n \in Nat, n <= Len(q),
           NEW p \in Seq(Conn), Len(p) = Len(q) - n,
           \A i \in 1 .. Len(q) - n : p[i] = q[n + i]
    PROVE  /\ IsInjective(p)
           /\ Range(p) = Range(q) \ {q[i] : i \in 1 .. n}
<1>1. Len(q) \in Nat /\ DOMAIN q = 1 .. Len(q) /\ DOMAIN p = 1 .. Len(q) - n
  BY LenProperties
<1>2. \A i \in DOMAIN p : n + i \in DOMAIN q /\ p[i] = q[n + i]
  BY <1>1
<1>3. \A i, j \in DOMAIN q : q[i] = q[j] => i = j
  BY DEF IsInjective
<1>4. IsInjective(p)
  <2>1. SUFFICES ASSUME NEW i \in DOMAIN p, NEW j \in DOMAIN p, p[i] = p[j]
                 PROVE  i = j
    BY DEF IsInjective
  <2>2. n + i = n + j
    BY <1>2, <1>3, <2>1
  <2>3. QED
    BY <1>1, <2>1, <2>2
<1>5. Range(p) \subseteq Range(q) \ {q[i] : i \in 1 .. n}
  <2>1. SUFFICES ASSUME NEW i \in DOMAIN p
                 PROVE  p[i] \in Range(q) /\ \A j \in 1 .. n : p[i] # q[j]
    BY DEF Range
  <2>2. \A j \in 1 .. n : j \in DOMAIN q /\ j # n + i
    BY <1>1, <2>1
  <2>3. QED
    BY <1>2, <1>3, <2>1, <2>2 DEF Range
<1>6. Range(q) \ {q[i] : i \in 1 .. n} \subseteq Range(p)
  <2>1. SUFFICES ASSUME NEW k \in DOMAIN q, k \notin 1 .. n
                 PROVE  q[k] \in Range(p)
    BY DEF Range
  <2>2. k - n \in DOMAIN p /\ n + (k - n) = k
    BY <1>1, <2>1
  <2>3. p[k - n] = q[k]
    BY <1>2, <2>2
  <2>4. QED
    BY <2>2, <2>3 DEF Range
<1>7. QED
  BY <1>4, <1>5, <1>6

(* The same of SubSeq, which is what recycleConnection() leaves. *)
LEMMA DropFirst ==
    ASSUME NEW q \in Seq(Conn), IsInjective(q), NEW n \in Nat, n <= Len(q)
    PROVE  /\ SubSeq(q, n + 1, Len(q)) \in Seq(Conn)
           /\ IsInjective(SubSeq(q, n + 1, Len(q)))
           /\ Range(SubSeq(q, n + 1, Len(q))) = Range(q) \ {q[i] : i \in 1 .. n}
<1> DEFINE p == SubSeq(q, n + 1, Len(q))
<1>1. Len(q) \in Nat /\ n + 1 \in Int /\ \A i \in n + 1 .. Len(q) : q[i] \in Conn
  BY LenProperties, ElementOfSeq
<1>2. /\ p \in Seq(Conn)
      /\ Len(p) = IF n + 1 <= Len(q) THEN Len(q) - (n + 1) + 1 ELSE 0
      /\ \A i \in 1 .. Len(q) - (n + 1) + 1 : p[i] = q[(n + 1) + i - 1]
  BY <1>1, SubSeqProperties
<1> HIDE DEF p
<1>3. Len(p) = Len(q) - n /\ \A i \in 1 .. Len(q) - n : p[i] = q[n + i]
  <2>1. Len(p) = Len(q) - n
    BY <1>1, <1>2
  <2>2. Len(q) - (n + 1) + 1 = Len(q) - n /\ \A i \in Int : (n + 1) + i - 1 = n + i
    BY <1>1
  <2>3. QED
    BY <1>2, <2>1, <2>2
<1>4. QED
  BY <1>2, <1>3, Suffix DEF p

(* A connection that was in no queue is appended (the deleter, line 101). *)
LEMMA AppendNew ==
    ASSUME NEW q \in Seq(Conn), IsInjective(q), NEW c \in Conn, c \notin Range(q),
           NEW p, p = Append(q, c)
    PROVE  /\ p \in Seq(Conn) /\ IsInjective(p)
           /\ Range(p) = Range(q) \cup {c}
<1>1. Len(q) \in Nat /\ DOMAIN q = 1 .. Len(q)
  BY LenProperties
<1>2. /\ p \in Seq(Conn) /\ DOMAIN p = 1 .. Len(q) + 1
      /\ (\A i \in 1 .. Len(q) : p[i] = q[i]) /\ p[Len(q) + 1] = c
  BY <1>1, AppendProperties
<1>3. \A i \in DOMAIN p : i = Len(q) + 1 \/ i \in DOMAIN q
  BY <1>1, <1>2
<1>4. \A i \in DOMAIN q : p[i] = q[i] /\ i \in DOMAIN p /\ q[i] # c
  BY <1>1, <1>2 DEF Range
<1>5. IsInjective(p)
  BY <1>2, <1>3, <1>4 DEF IsInjective
<1>6. Range(p) = Range(q) \cup {c}
  BY <1>1, <1>2, <1>3, <1>4 DEF Range
<1>7. QED
  BY <1>2, <1>5, <1>6

-----------------------------------------------------------------------------
(* The pool.                                                               *)

(* The two bounds of the configuration, as numbers. *)
LEMMA Bounds ==
    /\ minSize \in Nat /\ maxSize \in Nat
    /\ Max({minSize, maxSize}) \in Nat
    /\ Max({minSize, maxSize}) >= minSize /\ Max({minSize, maxSize}) >= maxSize
    /\ Max({2 * minSize, maxSize + 1}) \in Nat
    /\ Max({2 * minSize, maxSize + 1}) >= 2 * minSize
    /\ Max({2 * minSize, maxSize + 1}) >= maxSize + 1
<1>1. minSize \in Nat /\ maxSize \in Nat
  BY ConnectionPoolAssumption DEF ConnectionPoolAssumption
<1>2. 2 * minSize \in Nat /\ maxSize + 1 \in Nat
  BY <1>1
<1> DEFINE a == 2 * minSize
           b == maxSize + 1
<1>3. a \in Nat /\ b \in Nat
  BY <1>2
<1> HIDE DEF a, b
<1>4. Max({a, b}) \in Nat /\ Max({a, b}) >= a /\ Max({a, b}) >= b
  BY <1>3, MaxOfTwo
<1>5. QED
  BY <1>1, <1>4, MaxOfTwo DEF a, b

(* Finitely many connections are open. *)
LEMMA OpenFinite ==
    ASSUME TypeOK
    PROVE  /\ Range(connQueue) \subseteq Conn /\ Held \subseteq Conn
           /\ IsFiniteSet(Open) /\ Cardinality(Open) \in Nat
<1>1. Range(connQueue) \subseteq Conn
  BY ElementOfSeq, LenProperties DEF TypeOK, Range
<1>2. Open \in SUBSET Conn
  BY <1>1 DEF Open, Held
<1>3. IsFiniteSet(Open)
  BY <1>2, ConnectionPoolAssumption, FS_Subset DEF ConnectionPoolAssumption
<1>4. QED
  BY <1>1, <1>3, FS_CardinalityType DEF Held

(* ConnectionPool() opens minSize_ connections. *)
LEMMA InitConn == Init => ConnInv
<1>1. SUFFICES ASSUME Init PROVE ConnInv
  OBVIOUS
<1>2. /\ connQueue \in [1 .. minSize -> Conn] /\ IsInjective(connQueue)
      /\ currentSize = 2 * minSize /\ idle = {} /\ producer = "running"
      /\ user = [u \in User |-> "out"] /\ minSize \in Nat
  BY <1>1, Bounds DEF Init
<1>3. connQueue \in Seq(Conn) /\ Len(connQueue) = minSize
  BY <1>2, SeqDef, LenProperties
<1>4. Held = {} /\ \A u \in User : user[u] \notin Conn
  BY <1>2, ConnectionPoolAssumption DEF Held, ConnectionPoolAssumption
<1>5. Cardinality(Open) = minSize
  <2>1. Range(connQueue) = {connQueue[i] : i \in 1 .. minSize}
    BY <1>2 DEF Range
  <2>2. Cardinality(Range(connQueue)) = minSize
    BY <1>2, <1>3, <2>1, CountFirst
  <2>3. QED
    BY <1>4, <2>2 DEF Open
<1>6. currentSize \in 0 .. Max({2 * minSize, maxSize + 1}) /\ minSize <= currentSize
  BY <1>2, Bounds
<1>7. TypeOK
  BY <1>2, <1>3, <1>6 DEF TypeOK
<1>8. InOnePlace
  BY <1>2, <1>4, <1>7 DEF InOnePlace
<1>9. QED
  BY <1>5, <1>6, <1>8, Bounds DEF ConnInv, OpenCounted, AtMostMaxSize

(* Whatever changes neither connQueue_, nor who holds what, nor currentSize_. *)
LEMMA PlacesUntouched ==
    ASSUME ConnInv, UNCHANGED <<connQueue, currentSize>>, TypeOK',
           \A u \in User : user'[u] = user[u] \/ {user[u], user'[u]} \cap Conn = {}
    PROVE  ConnInv'
<1>1. Held' = Held
  BY DEF Held
<1>2. Range(connQueue') = Range(connQueue) /\ Open' = Open
  BY <1>1 DEF Open
<1>3. \A u \in User : user'[u] \in Conn => user[u] = user'[u]
  OBVIOUS
<1>4. InOnePlace'
  BY <1>1, <1>2, <1>3 DEF ConnInv, InOnePlace
<1>5. QED
  BY <1>2, <1>4 DEF ConnInv, OpenCounted, AtMostMaxSize

(* produceConnection() opens one. *)
LEMMA ProduceStep == ConnInv /\ Produce => ConnInv'
<1>1. SUFFICES ASSUME ConnInv, Produce PROVE ConnInv'
  OBVIOUS
<1>2. InOnePlace /\ TypeOK /\ OpenCounted /\ AtMostMaxSize
  BY <1>1 DEF ConnInv, InOnePlace
<1>3. PICK c \in Conn \ Open : connQueue' = <<c>>
  BY <1>1 DEF Produce
<1>4. /\ connQueue = <<>> /\ currentSize < maxSize /\ currentSize' = currentSize + 2
      /\ UNCHANGED <<idle, producer, user>>
  BY <1>1 DEF Produce, MayProduce, CountTwice
<1>5. connQueue' \in Seq(Conn) /\ IsInjective(connQueue') /\ Range(connQueue') = {c}
  BY <1>3 DEF IsInjective, Range
<1>6. Held' = Held /\ Range(connQueue) = {} /\ c \notin Held
  BY <1>3, <1>4 DEF Held, Open, Range
<1>7. Open = Held /\ Open' = Open \cup {c} /\ c \notin Open
  BY <1>3, <1>5, <1>6 DEF Open
<1>8. /\ Cardinality(Open') = Cardinality(Open) + 1
      /\ Cardinality(Open) \in Nat /\ Cardinality(Open) <= currentSize
  BY <1>2, <1>7, OpenFinite, FS_AddElement DEF OpenCounted
<1>9. currentSize \in Nat /\ currentSize' \in 0 .. Max({2 * minSize, maxSize + 1})
  BY <1>2, <1>4, Bounds DEF TypeOK
<1>10. TypeOK'
  BY <1>2, <1>4, <1>5, <1>6, <1>9 DEF TypeOK
<1>11. InOnePlace'
  BY <1>2, <1>4, <1>5, <1>6, <1>10 DEF InOnePlace
<1>12. Cardinality(Open') <= currentSize' /\ Cardinality(Open') <= Max({minSize, maxSize})
  BY <1>4, <1>8, <1>9, Bounds
<1>13. QED
  BY <1>11, <1>12 DEF ConnInv, OpenCounted, AtMostMaxSize

(* recycleConnection() closes the first n. *)
LEMMA RecycleStep == ConnInv /\ Recycle => ConnInv'
<1>1. SUFFICES ASSUME ConnInv, Recycle PROVE ConnInv'
  OBVIOUS
<1>2. InOnePlace /\ TypeOK /\ OpenCounted /\ AtMostMaxSize
  BY <1>1 DEF ConnInv, InOnePlace
<1>3. PICK n \in 1 .. Len(connQueue) :
        /\ connQueue' = SubSeq(connQueue, n + 1, Len(connQueue))
        /\ currentSize' = currentSize - n
        /\ idle' = idle \ {connQueue[i] : i \in 1 .. n}
        /\ UNCHANGED <<producer, user>>
  BY <1>1 DEF Recycle
<1> DEFINE first == {connQueue[i] : i \in 1 .. n}
<1>4. /\ connQueue \in Seq(Conn) /\ IsInjective(connQueue)
      /\ n \in Nat /\ n <= Len(connQueue) /\ n \in 0 .. Len(connQueue)
  BY <1>2, <1>3, LenProperties DEF TypeOK, InOnePlace
<1>5. /\ connQueue' \in Seq(Conn) /\ IsInjective(connQueue')
      /\ Range(connQueue') = Range(connQueue) \ first
  BY <1>3, <1>4, DropFirst
<1>6. first \subseteq Range(connQueue) /\ IsFiniteSet(first) /\ Cardinality(first) = n
  BY <1>4, CountFirst
<1> HIDE DEF first
<1>7. Held' = Held /\ Held \cap Range(connQueue) = {}
  BY <1>2, <1>3 DEF Held, InOnePlace
<1>8. Open' = Open \ first /\ Open \cap first = first
  BY <1>5, <1>6, <1>7 DEF Open
<1>9. IsFiniteSet(Open) /\ Cardinality(Open) \in Nat
  BY <1>2, OpenFinite
<1>10. Cardinality(Open') = Cardinality(Open) - n /\ IsFiniteSet(Open')
  BY <1>6, <1>8, <1>9, FS_Difference
<1>11. Cardinality(Open') \in Nat
  BY <1>10, FS_CardinalityType
<1>12. /\ currentSize \in 0 .. Max({2 * minSize, maxSize + 1})
       /\ Cardinality(Open) <= currentSize /\ Cardinality(Open) <= Max({minSize, maxSize})
  BY <1>2 DEF TypeOK, OpenCounted, AtMostMaxSize
<1>13. /\ currentSize' \in 0 .. Max({2 * minSize, maxSize + 1})
       /\ Cardinality(Open') <= currentSize' /\ Cardinality(Open') <= Max({minSize, maxSize})
  BY <1>3, <1>4, <1>9, <1>10, <1>11, <1>12, Bounds
<1>14. idle' \subseteq Range(connQueue')
  BY <1>2, <1>3, <1>5 DEF TypeOK, first
<1>15. TypeOK'
  BY <1>2, <1>3, <1>5, <1>13, <1>14 DEF TypeOK
<1>16. InOnePlace'
  BY <1>2, <1>3, <1>5, <1>7, <1>15 DEF InOnePlace
<1>17. QED
  BY <1>13, <1>16 DEF ConnInv, OpenCounted, AtMostMaxSize

(* getConnection() moves the first connection to a user. *)
LEMMA GetStep == ASSUME NEW u \in User PROVE ConnInv /\ Get(u) => ConnInv'
<1>1. SUFFICES ASSUME ConnInv, Get(u) PROVE ConnInv'
  OBVIOUS
<1>2. InOnePlace /\ TypeOK /\ OpenCounted /\ AtMostMaxSize
  BY <1>1 DEF ConnInv, InOnePlace
<1> DEFINE c == Head(connQueue)
<1>3. /\ user[u] \in {"out", "waiting"} /\ connQueue # <<>>
      /\ user' = [user EXCEPT ![u] = c] /\ connQueue' = Tail(connQueue)
      /\ producer' = "running" /\ idle' = idle \ {c} /\ UNCHANGED currentSize
  BY <1>1 DEF Get, Rest, NotifyAll
<1>4. connQueue \in Seq(Conn) /\ IsInjective(connQueue) /\ Len(connQueue) \in Nat
      /\ 1 <= Len(connQueue) /\ c = connQueue[1] /\ c \in Conn /\ c \in Range(connQueue)
  <2>1. connQueue \in Seq(Conn) /\ IsInjective(connQueue)
    BY <1>2 DEF TypeOK, InOnePlace
  <2>2. Len(connQueue) \in Nat /\ Len(connQueue) # 0 /\ 1 \in DOMAIN connQueue
    BY <1>3, <2>1, EmptySeq, LenProperties
  <2>3. c = connQueue[1] /\ c \in Conn
    BY <1>3, <2>1, <2>2, ElementOfSeq
  <2>4. QED
    BY <2>1, <2>2, <2>3 DEF Range
<1>5. /\ connQueue' \in Seq(Conn) /\ IsInjective(connQueue')
      /\ Range(connQueue') = Range(connQueue) \ {c}
  <2>1. Tail(connQueue) = SubSeq(connQueue, 1 + 1, Len(connQueue))
    BY <1>3, <1>4, TailIsSubSeq
  <2>2. {connQueue[i] : i \in 1 .. 1} = {c}
    BY <1>4
  <2>3. QED
    BY <1>3, <1>4, <2>1, <2>2, DropFirst
<1> HIDE DEF c
<1>6. user[u] \notin Conn /\ \A v \in User : user'[v] = IF v = u THEN c ELSE user[v]
  BY <1>2, <1>3, ConnectionPoolAssumption DEF TypeOK, ConnectionPoolAssumption
<1>7. Held' = Held \cup {c} /\ c \notin Held
  BY <1>2, <1>4, <1>6 DEF Held, InOnePlace
<1>8. Open' = Open
  BY <1>4, <1>5, <1>7 DEF Open
<1>9. idle' \subseteq Range(connQueue')
  BY <1>2, <1>3, <1>5 DEF TypeOK
<1>10. TypeOK'
  BY <1>2, <1>3, <1>4, <1>5, <1>9 DEF TypeOK
<1>11. \A v, w \in User : user'[v] \in Conn /\ user'[v] = user'[w] => v = w
  BY <1>2, <1>6, <1>7 DEF InOnePlace, Held
<1>12. InOnePlace'
  BY <1>2, <1>5, <1>7, <1>10, <1>11 DEF InOnePlace
<1>13. QED
  BY <1>2, <1>3, <1>8, <1>12 DEF ConnInv, OpenCounted, AtMostMaxSize

(* The deleter puts a connection back. *)
LEMMA ReleaseStep == ASSUME NEW u \in User PROVE ConnInv /\ Release(u) => ConnInv'
<1>1. SUFFICES ASSUME ConnInv, Release(u) PROVE ConnInv'
  OBVIOUS
<1>2. InOnePlace /\ TypeOK /\ OpenCounted /\ AtMostMaxSize
  BY <1>1 DEF ConnInv, InOnePlace
<1> DEFINE c == user[u]
<1>3. /\ c \in Conn /\ connQueue' = Append(connQueue, c)
      /\ user' = [user EXCEPT ![u] = "out"] /\ UNCHANGED <<currentSize, idle, producer>>
  BY <1>1 DEF Release
<1>4. c \in Held /\ c \notin Range(connQueue)
  BY <1>2, <1>3 DEF Held, InOnePlace
<1>5. /\ connQueue' \in Seq(Conn) /\ IsInjective(connQueue')
      /\ Range(connQueue') = Range(connQueue) \cup {c}
  BY <1>2, <1>3, <1>4, AppendNew DEF TypeOK, InOnePlace
<1>6. "out" \notin Conn /\ \A v \in User : user'[v] = IF v = u THEN "out" ELSE user[v]
  BY <1>2, <1>3, ConnectionPoolAssumption DEF TypeOK, ConnectionPoolAssumption
<1>7. \A v \in User : user[v] = c => v = u
  BY <1>2, <1>3 DEF InOnePlace
<1>8. Held' = Held \ {c}
  BY <1>6, <1>7 DEF Held
<1>9. Open' = Open
  BY <1>4, <1>5, <1>8 DEF Open
<1>10. TypeOK'
  BY <1>2, <1>3, <1>5 DEF TypeOK
<1>11. InOnePlace'
  BY <1>2, <1>5, <1>6, <1>8, <1>10 DEF InOnePlace
<1>12. QED
  BY <1>2, <1>3, <1>9, <1>11 DEF ConnInv, OpenCounted, AtMostMaxSize

(* Every step of the pool keeps ConnInv. *)
LEMMA ConnInvStep == ConnInv /\ [Next]_vars => ConnInv'
<1>1. SUFFICES ASSUME ConnInv, [Next]_vars PROVE ConnInv'
  OBVIOUS
<1>2. TypeOK
  BY <1>1 DEF ConnInv, InOnePlace
<1>3. CASE ProducerWaits \/ SpuriousWakeup
  BY <1>1, <1>2, <1>3, PlacesUntouched DEF ProducerWaits, SpuriousWakeup, TypeOK
<1>4. ASSUME NEW c \in Conn, Age(c) PROVE ConnInv'
  BY <1>1, <1>2, <1>4, PlacesUntouched DEF Age, TypeOK
<1>5. ASSUME NEW u \in User, Wait(u) PROVE ConnInv'
  <2>1. /\ user[u] = "out" /\ user' = [user EXCEPT ![u] = "waiting"]
        /\ UNCHANGED <<connQueue, currentSize, idle, producer>>
    BY <1>5 DEF Wait
  <2>2. TypeOK'
    BY <1>2, <2>1 DEF TypeOK
  <2>3. \A v \in User : user'[v] = user[v] \/ {user[v], user'[v]} \cap Conn = {}
    BY <1>2, <2>1, ConnectionPoolAssumption DEF TypeOK, ConnectionPoolAssumption
  <2>4. QED
    BY <1>1, <2>1, <2>2, <2>3, PlacesUntouched
<1>6. CASE UNCHANGED vars
  BY <1>1, <1>2, <1>6, PlacesUntouched DEF vars, TypeOK
<1>7. QED
  BY <1>1, <1>3, <1>4, <1>5, <1>6, ProduceStep, RecycleStep, GetStep, ReleaseStep
     DEF Next

-----------------------------------------------------------------------------
(* The users' calls.                                                       *)

(* A step of the session is a step of the pool or leaves it alone. *)
LEMMA SessionStepIsPoolStep == [SessionNext]_sessionVars => [Next]_vars
BY DEF SessionNext, SessionPool, SessionProduce, SessionRecycle, Select, Query,
       NextReturnsFalse, Transaction, Update, CommitOrRollback, Call, Next,
       sessionVars, vars

(* Connections are new, users hold none. *)
LEMMA InitSession == SessionInit => SessionInv
<1>1. SUFFICES ASSUME SessionInit PROVE SessionInv
  OBVIOUS
<1>2. ConnInv
  BY <1>1, InitConn DEF SessionInit
<1>3. \A c \in Conn : session[c] = Connected
  BY <1>1 DEF SessionInit
<1>4. \A u \in User : doing[u] = "idle"
  BY <1>1 DEF SessionInit
<1>5. session \in [Conn -> [res : User \cup {None}, unfetched : User \cup {None},
                          autocommit : BOOLEAN, uncommitted : SUBSET User]]
      /\ doing \in [User -> {"idle", "selected", "reading", "transaction"}]
  BY <1>1 DEF SessionInit, Connected
<1>6. Unfetched /\ SessionIsOwn
  BY <1>3, <1>4 DEF Unfetched, SessionIsOwn, Connected
<1>7. QED
  BY <1>2, <1>4, <1>5, <1>6 DEF SessionInv, SessionOfHolder

(* A call of the user u on its connection keeps SessionInv if it leaves the
   connection as s, in a state that goes with what u does next. *)
LEMMA CallKeeps ==
    ASSUME SessionInv, NEW u \in User, user[u] \in Conn, UNCHANGED vars,
           NEW to \in {"idle", "selected", "reading", "transaction"},
           doing' = [doing EXCEPT ![u] = to],
           NEW s \in [res : User \cup {None}, unfetched : User \cup {None},
                      autocommit : BOOLEAN, uncommitted : SUBSET User],
           session' = [session EXCEPT ![user[u]] = s],
           to = "selected" => s.unfetched = u,
           to # "selected" => s.unfetched = None,
           to = "reading" => s.res = u,
           to = "transaction" => s.uncommitted \subseteq {u},
           to # "transaction" => s.uncommitted = {}
    PROVE  SessionInv'
<1>1. ConnInv /\ InOnePlace /\ TypeOK /\ SessionOfHolder
  BY DEF SessionInv, ConnInv, InOnePlace
<1>2. ConnInv'
  BY <1>1, PlacesUntouched DEF vars, TypeOK
<1>3. UNCHANGED user
  BY DEF vars
<1>4. \A v \in User : doing'[v] = IF v = u THEN to ELSE doing[v]
  BY <1>1 DEF SessionOfHolder
<1>5. \A c \in Conn : session'[c] = IF c = user[u] THEN s ELSE session[c]
  BY <1>1 DEF SessionOfHolder
<1>6. \A v \in User : user[v] = user[u] => v = u
  BY <1>1 DEF InOnePlace
<1>7. /\ session' \in [Conn -> [res : User \cup {None}, unfetched : User \cup {None},
                               autocommit : BOOLEAN, uncommitted : SUBSET User]]
      /\ doing' \in [User -> {"idle", "selected", "reading", "transaction"}]
  BY <1>1 DEF SessionOfHolder
<1>8. \A v \in User : doing'[v] # "idle" => user'[v] \in Conn
  BY <1>1, <1>3, <1>4 DEF SessionOfHolder
<1>9. \A v \in User : doing'[v] = "selected" => session'[user'[v]].unfetched = v
  BY <1>1, <1>3, <1>4, <1>5, <1>6, <1>8 DEF SessionOfHolder
<1>10. Unfetched'
  BY <1>1, <1>3, <1>4, <1>5, <1>6 DEF SessionOfHolder, Unfetched
<1>11. SessionIsOwn'
  <2>1. \A v \in User : doing'[v] = "reading" => session'[user'[v]].res = v
    BY <1>1, <1>3, <1>4, <1>5, <1>6, <1>8 DEF SessionOfHolder, SessionIsOwn
  <2>2. ASSUME NEW c \in Conn, NEW v \in session'[c].uncommitted
        PROVE  user'[v] = c /\ doing'[v] = "transaction"
    <3>1. CASE c = user[u]
      BY <1>3, <1>4, <1>5, <2>2, <3>1
    <3>2. CASE c # user[u]
      <4>1. v \in session[c].uncommitted /\ v \in User
        BY <1>1, <1>5, <2>2, <3>2 DEF SessionOfHolder
      <4>2. user[v] = c /\ doing[v] = "transaction"
        BY <1>1, <4>1 DEF SessionOfHolder, SessionIsOwn
      <4>3. QED
        BY <1>3, <1>4, <3>2, <4>1, <4>2
    <3>3. QED
      BY <3>1, <3>2
  <2>3. QED
    BY <2>1, <2>2 DEF SessionIsOwn
<1>12. QED
  BY <1>2, <1>7, <1>8, <1>9, <1>10, <1>11 DEF SessionInv, SessionOfHolder

(* What a user finds on its connection before a call. *)
LEMMA BeforeCall ==
    ASSUME SessionInv, NEW u \in User, user[u] \in Conn
    PROVE  /\ session[user[u]] \in [res : User \cup {None}, unfetched : User \cup {None},
                                    autocommit : BOOLEAN, uncommitted : SUBSET User]
           /\ doing[u] = "selected" => session[user[u]].unfetched = u
           /\ doing[u] # "selected" => session[user[u]].unfetched = None
           /\ session[user[u]].uncommitted \subseteq {u}
           /\ doing[u] # "transaction" => session[user[u]].uncommitted = {}
<1>1. InOnePlace /\ SessionOfHolder
  BY DEF SessionInv, ConnInv
<1>2. \A v \in User : user[v] = user[u] => v = u
  BY <1>1 DEF InOnePlace
<1>3. session[user[u]] \in [res : User \cup {None}, unfetched : User \cup {None},
                           autocommit : BOOLEAN, uncommitted : SUBSET User]
  BY <1>1 DEF SessionOfHolder
<1>4. doing[u] # "selected" => session[user[u]].unfetched = None
  BY <1>1, <1>2 DEF SessionOfHolder, Unfetched
<1>5. \A v \in session[user[u]].uncommitted : v = u /\ doing[v] = "transaction"
  BY <1>1, <1>2, <1>3 DEF SessionOfHolder, SessionIsOwn
<1>6. QED
  BY <1>1, <1>3, <1>4, <1>5 DEF SessionOfHolder

(* Each call of a user. *)
LEMMA CallStep ==
    ASSUME NEW u \in User, SessionInv,
           \/ Select(u) \/ Query(u) \/ NextReturnsFalse(u)
           \/ Transaction(u) \/ Update(u) \/ CommitOrRollback(u)
    PROVE  SessionInv'
<1> DEFINE s == session[user[u]]
           Session == [res : User \cup {None}, unfetched : User \cup {None},
                       autocommit : BOOLEAN, uncommitted : SUBSET User]
<1>1. user[u] \in Conn /\ UNCHANGED vars /\ session \in [Conn -> Session]
  BY DEF Select, Query, NextReturnsFalse, Transaction, Update, CommitOrRollback,
     Call, SessionInv, SessionOfHolder
<1>2. /\ s \in Session
      /\ doing[u] = "selected" => s.unfetched = u
      /\ doing[u] # "selected" => s.unfetched = None
      /\ s.uncommitted \subseteq {u}
      /\ doing[u] # "transaction" => s.uncommitted = {}
  BY <1>1, BeforeCall
<1>3. CASE Select(u)
  <2> DEFINE r == [s EXCEPT !.unfetched = u]
  <2>1. /\ doing[u] = "idle" /\ doing' = [doing EXCEPT ![u] = "selected"]
        /\ session' = [session EXCEPT ![user[u]] = r]
    BY <1>3 DEF Select, Call
  <2>2. r \in Session /\ r.unfetched = u /\ r.uncommitted = {}
    BY <1>2, <2>1
  <2> HIDE DEF r
  <2>3. QED
    BY <1>1, <2>1, <2>2, CallKeeps
<1>4. CASE Query(u)
  <2> DEFINE r == StoreResult(s)
  <2>1. /\ doing[u] = "selected" /\ doing' = [doing EXCEPT ![u] = "reading"]
        /\ session' = [session EXCEPT ![user[u]] = r]
    BY <1>4 DEF Query, Call
  <2>2. r \in Session /\ r.res = u /\ r.unfetched = None /\ r.uncommitted = {}
    BY <1>2, <2>1 DEF StoreResult
  <2> HIDE DEF r
  <2>3. QED
    BY <1>1, <2>1, <2>2, CallKeeps
<1>5. CASE NextReturnsFalse(u)
  <2>1. /\ doing[u] = "reading" /\ doing' = [doing EXCEPT ![u] = "idle"]
        /\ session' = [session EXCEPT ![user[u]] = s]
    BY <1>1, <1>5 DEF NextReturnsFalse, Call
  <2>2. s.unfetched = None /\ s.uncommitted = {}
    BY <1>2, <2>1
  <2> HIDE DEF s
  <2>3. QED
    BY <1>1, <1>2, <2>1, <2>2, CallKeeps
<1>6. CASE Transaction(u)
  <2> DEFINE r == [s EXCEPT !.autocommit = FALSE]
  <2>1. /\ doing[u] = "idle" /\ doing' = [doing EXCEPT ![u] = "transaction"]
        /\ session' = [session EXCEPT ![user[u]] = r]
    BY <1>6 DEF Transaction, Call
  <2>2. r \in Session /\ r.unfetched = None /\ r.uncommitted \subseteq {u}
    BY <1>2, <2>1
  <2> HIDE DEF r
  <2>3. QED
    BY <1>1, <2>1, <2>2, CallKeeps
<1>7. CASE Update(u)
  <2> DEFINE r == [s EXCEPT !.uncommitted = @ \cup {u}]
  <2>1. /\ doing[u] = "transaction" /\ doing' = [doing EXCEPT ![u] = "transaction"]
        /\ session' = [session EXCEPT ![user[u]] = r]
    BY <1>7 DEF Update, Call
  <2>2. r \in Session /\ r.unfetched = None /\ r.uncommitted \subseteq {u}
    BY <1>2, <2>1
  <2> HIDE DEF r
  <2>3. QED
    BY <1>1, <2>1, <2>2, CallKeeps
<1>8. CASE CommitOrRollback(u)
  <2> DEFINE r == [s EXCEPT !.uncommitted = {}]
  <2>1. /\ doing[u] = "transaction" /\ doing' = [doing EXCEPT ![u] = "idle"]
        /\ session' = [session EXCEPT ![user[u]] = r]
    BY <1>8 DEF CommitOrRollback, Call
  <2>2. r \in Session /\ r.unfetched = None /\ r.uncommitted = {}
    BY <1>2, <2>1
  <2> HIDE DEF r
  <2>3. QED
    BY <1>1, <2>1, <2>2, CallKeeps
<1>9. QED
  BY <1>3, <1>4, <1>5, <1>6, <1>7, <1>8

-----------------------------------------------------------------------------
(* The pool's steps, as the sessions see them.                             *)

(* A step that moves no connection away from a user who is at work with it, and
   changes no session in use. *)
LEMMA PoolKeepsSessions ==
    ASSUME SessionInv, ConnInv', UNCHANGED doing,
           \A u \in User : user[u] \in Conn => user'[u] = user[u] \/ doing[u] = "idle",
           \A c \in Conn : session'[c] = session[c]
                           \/ (session'[c] = Connected /\ c \notin Held),
           session' = [c \in Conn |-> session'[c]]
    PROVE  SessionInv'
<1>1. SessionOfHolder
  BY DEF SessionInv
<1>2. session' \in [Conn -> [res : User \cup {None}, unfetched : User \cup {None},
                            autocommit : BOOLEAN, uncommitted : SUBSET User]]
  <2> DEFINE Session == [res : User \cup {None}, unfetched : User \cup {None},
                         autocommit : BOOLEAN, uncommitted : SUBSET User]
  <2>1. Connected \in Session
    BY DEF Connected
  <2>2. session \in [Conn -> Session]
    BY <1>1 DEF SessionOfHolder
  <2> HIDE DEF Session
  <2>3. \A c \in Conn : session'[c] \in Session
    BY <2>1, <2>2
  <2>4. session' \in [Conn -> Session]
    BY <2>3
  <2>5. QED
    BY <2>4 DEF Session
<1>3. \A u \in User : doing[u] # "idle" =>
        /\ user'[u] = user[u] /\ user[u] \in Conn
        /\ session'[user'[u]] = session[user[u]]
  BY <1>1 DEF SessionOfHolder, Held
<1>4. /\ \A u \in User : doing'[u] # "idle" => user'[u] \in Conn
      /\ \A u \in User : doing'[u] = "selected" => session'[user'[u]].unfetched = u
  BY <1>1, <1>3 DEF SessionOfHolder
<1>5. Unfetched'
  <2>1. SUFFICES ASSUME NEW c \in Conn, session'[c].unfetched # None
                 PROVE  \E u \in User : user'[u] = c /\ doing'[u] = "selected"
    BY DEF Unfetched
  <2>2. session'[c] = session[c]
    BY <2>1 DEF Connected
  <2>3. PICK u \in User : user[u] = c /\ doing[u] = "selected"
    BY <1>1, <2>1, <2>2 DEF SessionOfHolder, Unfetched
  <2>4. QED
    BY <1>3, <2>3
<1>6. SessionIsOwn'
  <2>1. \A u \in User : doing'[u] = "reading" => session'[user'[u]].res = u
    BY <1>1, <1>3 DEF SessionOfHolder, SessionIsOwn
  <2>2. ASSUME NEW c \in Conn, NEW u \in session'[c].uncommitted
        PROVE  user'[u] = c /\ doing'[u] = "transaction"
    <3>1. session'[c] = session[c]
      BY <2>2 DEF Connected
    <3>2. u \in User /\ user[u] = c /\ doing[u] = "transaction"
      BY <1>1, <2>2, <3>1 DEF SessionOfHolder, SessionIsOwn
    <3>3. QED
      BY <1>3, <3>2
  <2>3. QED
    BY <2>1, <2>2 DEF SessionIsOwn
<1>7. QED
  BY <1>1, <1>2, <1>4, <1>5, <1>6 DEF SessionInv, SessionOfHolder

(* Every step of the users and of the pool keeps SessionInv. *)
LEMMA SessionInvStep == SessionInv /\ [SessionNext]_sessionVars => SessionInv'
<1>1. SUFFICES ASSUME SessionInv, [SessionNext]_sessionVars PROVE SessionInv'
  OBVIOUS
<1>2. ConnInv'
  BY <1>1, SessionStepIsPoolStep, ConnInvStep DEF SessionInv
<1>3. session = [c \in Conn |-> session[c]] /\ TypeOK /\ ConnInv
  BY <1>1 DEF SessionInv, SessionOfHolder, ConnInv, InOnePlace
<1>4. CASE SessionPool \/ SessionProduce \/ UNCHANGED sessionVars
  <2>1. UNCHANGED <<session, doing>>
    BY <1>4 DEF SessionPool, SessionProduce, sessionVars
  <2>2. ASSUME NEW u \in User, user[u] \in Conn PROVE user'[u] = user[u] \/ doing[u] = "idle"
    <3>1. CASE UNCHANGED user
      BY <3>1
    <3>2. ASSUME NEW v \in User, Wait(v) \/ Get(v) PROVE user'[u] = user[u]
      <4>1. user[v] \in {"out", "waiting"} /\ user[u] \notin {"out", "waiting"}
        BY <2>2, <3>2, ConnectionPoolAssumption DEF Wait, Get, ConnectionPoolAssumption
      <4>2. u # v
        BY <4>1
      <4>3. QED
        BY <1>3, <3>2, <4>2 DEF Wait, Get, TypeOK
    <3>3. ASSUME NEW v \in User, doing[v] = "idle", Release(v)
          PROVE  user'[u] = user[u] \/ doing[u] = "idle"
      BY <1>3, <3>3 DEF Release, TypeOK
    <3>4. QED
      BY <1>4, <3>1, <3>2, <3>3
         DEF SessionPool, SessionProduce, sessionVars, vars, Produce, ProducerWaits,
             SpuriousWakeup, Age
  <2>3. QED
    BY <1>1, <1>2, <1>3, <2>1, <2>2, PoolKeepsSessions
<1>5. CASE SessionRecycle
  <2>1. /\ UNCHANGED <<user, doing>>
        /\ session' = [c \in Conn |-> IF c \in Open' THEN session[c] ELSE Connected]
    BY <1>5 DEF SessionRecycle, Recycle
  <2>2. Held' = Held /\ Held \subseteq Open'
    BY <2>1 DEF Held, Open
  <2>3. QED
    BY <1>1, <1>2, <2>1, <2>2, PoolKeepsSessions
<1>6. QED
  BY <1>1, <1>4, <1>5, CallStep DEF SessionNext

-----------------------------------------------------------------------------

(* The connections in their users' hands implement the pool: whatever holds of
   the pool alone holds of it with its users. *)
THEOREM SessionImplementsPool == SessionSpec => Spec
<1>1. SessionInit => Init
  BY DEF SessionInit
<1>2. QED
  BY <1>1, SessionStepIsPoolStep, PTL DEF SessionSpec, Spec

(* The inductive invariant of the pool. *)
THEOREM PoolInvariant == Spec => []ConnInv
<1>1. QED
  BY InitConn, ConnInvStep, PTL DEF Spec

(* A connection is with one user, or once in connQueue_, never both. *)
THEOREM ConnectionInOnePlace == SessionSpec => []InOnePlace
<1>1. ConnInv => InOnePlace
  BY DEF ConnInv
<1>2. QED
  BY <1>1, SessionImplementsPool, PoolInvariant, PTL

(* addConnection(), called when currentSize_ < maxSize_, never opens more than
   maxSize_ connections, or the minSize_ of the constructor. *)
THEOREM OpenAtMostMaxSize == SessionSpec => []AtMostMaxSize
<1>1. ConnInv => AtMostMaxSize
  BY DEF ConnInv
<1>2. QED
  BY <1>1, SessionImplementsPool, PoolInvariant, PTL

(* The inductive invariant of the sessions. *)
THEOREM SessionInvariant == SessionSpec => []SessionInv
<1>1. QED
  BY InitSession, SessionInvStep, PTL DEF SessionSpec

(* Rows that a user reads are those of its own SELECT, and updates that are not
   committed are of the user who holds the connection. *)
THEOREM SessionsAreOwn == SessionSpec => []SessionIsOwn
<1>1. SessionInv => SessionIsOwn
  BY DEF SessionInv, SessionOfHolder
<1>2. QED
  BY <1>1, SessionInvariant, PTL

(* A user never finds a result on its connection that another left unfetched:
   no call of a tidy user fails as out of sync. *)
THEOREM CallsStayInSync == SessionSpec => []CallsInSync
<1>1. SessionInv => CallsInSync
  BY BeforeCall DEF CallsInSync, InSync
<1>2. QED
  BY <1>1, SessionInvariant, PTL
=============================================================================
