----------------------------- MODULE TaskQueue -----------------------------
(***************************************************************************)
(* What an EventLoop promises the code that hands it functors: they are    *)
(* run one at a time, in the order in which they were queued, none twice,  *)
(* none skipped, until the loop stops; and a queued functor does run       *)
(* unless the loop stops first.  No thread, lock, eventfd or batch shows.  *)
(***************************************************************************)
EXTENDS Sequences

CONSTANTS Functor,    \* the callbacks that can be queued
          NoFunctor   \* "no functor is running"

VARIABLES queue,      \* functors accepted and not yet started
          running,    \* the functor being run, or NoFunctor
          stopped     \* the loop has left loop()

vars == <<queue, running, stopped>>

Init ==
    /\ queue = <<>>
    /\ running = NoFunctor
    /\ stopped = FALSE

Post(f) ==
    /\ queue' = Append(queue, f)
    /\ UNCHANGED <<running, stopped>>

Start ==
    /\ ~stopped
    /\ running = NoFunctor
    /\ queue # <<>>
    /\ running' = Head(queue)
    /\ queue' = Tail(queue)
    /\ UNCHANGED stopped

Finish ==
    /\ running # NoFunctor
    /\ running' = NoFunctor
    /\ UNCHANGED <<queue, stopped>>

Stop ==
    /\ running = NoFunctor
    /\ stopped' = TRUE
    /\ UNCHANGED <<queue, running>>

Next ==
    \/ \E f \in Functor : Post(f)
    \/ Start
    \/ Finish
    \/ Stop

Spec == Init /\ [][Next]_vars

FairSpec == Spec /\ WF_vars(Start) /\ WF_vars(Finish)
=============================================================================
