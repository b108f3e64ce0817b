---------------------------- MODULE MCEventLoop ----------------------------
(* EventLoop on small instances.  Threads are interchangeable; functors are  *)
(* too, but only f1 may be queued before loop(), so they are not permuted.   *)
EXTENDS EventLoop, TLC

Symmetry == Permutations(Thread)
=============================================================================
