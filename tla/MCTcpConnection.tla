-------------------------- MODULE MCTcpConnection --------------------------
(* TcpConnection on small instances; messages are interchangeable, and so are
   the threads of User.                                                     *)
EXTENDS TcpConnection, TLC

Symmetry == Permutations(Message) \cup Permutations(User)
=============================================================================
