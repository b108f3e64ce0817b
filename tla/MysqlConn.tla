----------------------------- MODULE MysqlConn -----------------------------
(***************************************************************************)
(* MysqlConn (in mysql/) in the hands of the users of a ConnectionPool:    *)
(* what a connection keeps from one call, and one user, to the next.       *)
(* Users are tidy: rows are read to the end, updates are made in a         *)
(* transaction that is committed or rolled back, then the connection is    *)
(* given back.  A failed call (no connection, say) changes nothing.        *)
(***************************************************************************)
EXTENDS ConnectionPool

CONSTANT None

VARIABLES
    session,  \* of each connection: see Connected
    doing     \* of each user: idle, selected, reading or transaction

sessionVars == <<vars, session, doing>>

(* res_ and, of the client library and the server: the statement whose result
   nobody has fetched, autocommit, and the updates not committed.  Statements,
   results and updates go by the user they are of. *)
Connected == [res |-> None, unfetched |-> None, autocommit |-> TRUE, uncommitted |-> {}]

SessionInit ==
    /\ Init
    /\ session = [c \in Conn |-> Connected]
    /\ doing = [u \in User |-> "idle"]

-----------------------------------------------------------------------------

Call(u, from, to) ==
    /\ user[u] \in Conn
    /\ doing[u] = from
    /\ doing' = [doing EXCEPT ![u] = to]
    /\ UNCHANGED vars

InSync(u) == session[user[u]].unfetched = None

(* update() with a SELECT; the library refuses while a result is unfetched. *)
Select(u) ==
    /\ Call(u, "idle", "selected") /\ InSync(u)
    /\ session' = [session EXCEPT ![user[u]].unfetched = u]

(* Faulty variant of StoreResult: a result that is there is kept. *)
KeepResult(s) == [s EXCEPT !.res = IF @ = None THEN s.unfetched ELSE @, !.unfetched = None]

(* freeResult() and mysql_store_result(): the result of the last statement. *)
StoreResult(s) == [[s EXCEPT !.res = s.unfetched] EXCEPT !.unfetched = None]

(* query() does not send its statement. *)
Query(u) ==
    /\ Call(u, "selected", "reading")
    /\ session' = [session EXCEPT ![user[u]] = StoreResult(@)]

(* next() at the last row; res_ stays. *)
NextReturnsFalse(u) ==
    /\ Call(u, "reading", "idle")
    /\ UNCHANGED session

(* Nothing turns autocommit on again. *)
Transaction(u) ==
    /\ Call(u, "idle", "transaction") /\ InSync(u)
    /\ session' = [session EXCEPT ![user[u]].autocommit = FALSE]

(* update() that changes a table. *)
Update(u) ==
    /\ Call(u, "transaction", "transaction") /\ InSync(u)
    /\ ~session[user[u]].autocommit
    /\ session' = [session EXCEPT ![user[u]].uncommitted = @ \cup {u}]

CommitOrRollback(u) ==
    /\ Call(u, "transaction", "idle") /\ InSync(u)
    /\ session' = [session EXCEPT ![user[u]].uncommitted = {}]

-----------------------------------------------------------------------------
(* The pool.  ~MysqlConn closes the connection and frees res_.             *)

SessionPool ==
    /\ \/ ProducerWaits \/ SpuriousWakeup
       \/ \E c \in Conn : Age(c)
       \/ \E u \in User : Wait(u) \/ Get(u) \/ (doing[u] = "idle" /\ Release(u))
    /\ UNCHANGED <<session, doing>>

SessionProduce == Produce /\ UNCHANGED <<session, doing>>

SessionRecycle ==
    /\ Recycle
    /\ session' = [c \in Conn |-> IF c \in Open' THEN session[c] ELSE Connected]
    /\ UNCHANGED doing

SessionNext ==
    \/ SessionPool \/ SessionProduce \/ SessionRecycle
    \/ \E u \in User : \/ Select(u) \/ Query(u) \/ NextReturnsFalse(u)
                       \/ Transaction(u) \/ Update(u) \/ CommitOrRollback(u)

(* Threads are scheduled; when connections are there, some user that waits
   finds one.  Which one is left to chance: nothing orders them.  Users need
   not give theirs back. *)
SessionSpec ==
    /\ SessionInit /\ [][SessionNext]_sessionVars
    /\ WF_sessionVars(SessionProduce)
    /\ WF_sessionVars(\E u \in User : /\ user[u] = "waiting" /\ Get(u)
                                      /\ UNCHANGED <<session, doing>>)

-----------------------------------------------------------------------------

(* A connection that goes from user to user with its res_ and its autocommit
   mode gives each only what is its own: the rows a user reads are those of its
   own SELECT (query() lines 62-63), and what is not committed on a connection is
   of the user that holds it and is in a transaction.                        *)
SessionIsOwn ==
    /\ \A u \in User : doing[u] = "reading" => session[user[u]].res = u
    /\ \A c \in Conn : \A u \in session[c].uncommitted :
          user[u] = c /\ doing[u] = "transaction"
=============================================================================
