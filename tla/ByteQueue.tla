----------------------------- MODULE ByteQueue -----------------------------
(***************************************************************************)
(* What a Buffer promises its user: bytes come out in the order in which   *)
(* they went in, each once.  No index, capacity or copying shows.          *)
(***************************************************************************)
EXTENDS Naturals, Sequences

CONSTANT Data   \* what may be put in at a time

VARIABLE queue

Init == queue = <<>>

Put(data) == queue' = queue \o data

Take(n) == queue' = SubSeq(queue, n + 1, Len(queue))

Next == \/ \E data \in Data : Put(data)
        \/ \E n \in 0 .. Len(queue) : Take(n)

Spec == Init /\ [][Next]_queue
=============================================================================
