---------------------------- MODULE MCTimerQueue ----------------------------
(* TimerQueue with two timers that run once and one that repeats.          *)
EXTENDS TimerQueue

CONSTANTS t1, t2, t3

MCTimer == {t1, t2, t3}
MCInterval == [t \in MCTimer |-> IF t = t3 THEN 2 ELSE 0]
=============================================================================
