----------------------------- MODULE MCLogging -----------------------------
(* Logging with buffers that hold one long line: a short line; one that fills  *)
(* its stream, so that its number and its newline are dropped; one with a      *)
(* piece that fits in no stream, whose number is dropped but not its newline;  *)
(* and a raw line that fits in no buffer; files of the size of a buffer, a day *)
(* of two seconds, the clock looked at with every second append.               *)
EXTENDS Logging

CONSTANTS short, long1, long2, oversized

Characters(n) == [i \in 1 .. n |-> "x"]

MCStatement ==
    [line \in {short, long1, long2} |->
       CASE line = short ->
              [level |-> "INFO", tid |-> 70, line |-> 8, message |-> <<Number(-120)>>]
         [] line = long1 ->
              [level |-> "ERROR", tid |-> 9, line |-> 31,
               message |-> <<[kind |-> "null"], Number(20483), Text(Characters(19))>>]
         [] line = long2 ->
              [level |-> "DEBUG", tid |-> 70, line |-> 1200,
               message |-> <<Text(Characters(kSmallBuffer)), Number(-9),
                             [kind |-> "double", text |-> <<"0", ".", "5">>],
                             Text(Characters(14))>>]]

MCSize == short :> 15 @@ long1 :> 33 @@ long2 :> 31 @@ oversized :> Large
=============================================================================
