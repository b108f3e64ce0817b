----------------------------- MODULE TimerQueue -----------------------------
(***************************************************************************)
(* TimerQueue and its Timers: a set of timers ordered by expiration and    *)
(* one timerfd armed for the earliest.  Times are kept relative to now, in *)
(* ticks of 100 microseconds or more: due is what the wall clock           *)
(* (TimeStamp::now()) still has to go, timerfd_ what CLOCK_MONOTONIC has.  *)
(* A time that has come stays 0, so the order among expired timers is left *)
(* open.                                                                   *)
(***************************************************************************)
EXTENDS Naturals, FiniteSets

CONSTANTS
    Timer,
    Interval,     \* of each timer, 0 for one that runs once
    MaxDelay,     \* bound: how far ahead a timer is added, and how far the
                  \* wall clock is set
    MaxJumps,     \* bound: how often the wall clock is set
    Off

ASSUME TimerQueueAssumption ==
    /\ Interval \in [Timer -> Nat]
    /\ MaxDelay \in Nat /\ MaxJumps \in Nat
    /\ Off \notin Nat

VARIABLES
    where,    \* of each timer: new, queued for addTimerInLoop(), set (in
              \* timers_), expired (in the vector of handleRead(), to run),
              \* ran, deleted
    due,
    timerfd_, \* ticks until it is readable, 0 when it is, or Off
    phase,    \* of the loop: elsewhere, polled (timerfdChannel_ is active),
              \* run (in handleRead())
    jumps

timerVars == <<where, due, timerfd_, phase, jumps>>

TimerInit ==
    /\ where = [t \in Timer |-> "new"]
    /\ due = [t \in Timer |-> 0]
    /\ timerfd_ = Off
    /\ phase = "elsewhere"
    /\ jumps = 0

In(place) == {t \in Timer : where[t] = place}

-----------------------------------------------------------------------------
(* Adding a timer.                                                         *)

(* resetTimerfd(): not less than 100 microseconds from now. *)
ArmFor(left) == IF left < 1 THEN 1 ELSE left

(* Faulty variant of EarliestChanged: it never looks at timers_. *)
AlwaysEarliest(t, left) == {TRUE}

(* What insert() may return: open when this time and the earliest have come. *)
EarliestChanged(t, left) ==
    IF \A u \in In("set") : left < due[u] THEN {TRUE}
    ELSE IF left = 0 /\ \E u \in In("set") : due[u] = 0 THEN {TRUE, FALSE}
    ELSE {FALSE}

AddTimerInLoop(t, left) ==
    /\ where' = [where EXCEPT ![t] = "set"]
    /\ \E earliest \in EarliestChanged(t, left) :
           timerfd_' = IF earliest THEN ArmFor(left) ELSE timerfd_

(* addTimer() from another thread: the loop will call addTimerInLoop(). *)
AddTimer(t, delay) ==
    /\ where[t] = "new"
    /\ where' = [where EXCEPT ![t] = "queued"]
    /\ due' = [due EXCEPT ![t] = delay]
    /\ UNCHANGED <<timerfd_, phase, jumps>>

(* Functors run after the handlers of an iteration. *)
AddQueued(t) ==
    /\ phase = "elsewhere"
    /\ where[t] = "queued"
    /\ AddTimerInLoop(t, due[t])
    /\ UNCHANGED <<due, phase, jumps>>

(* addTimer() in the loop's thread: from a functor, from the handler of a
   channel before timerfdChannel_ or from the callback of a timer. *)
AddInLoop(t, delay) ==
    /\ where[t] = "new"
    /\ phase = "run" => In("ran") # {}
    /\ due' = [due EXCEPT ![t] = delay]
    /\ AddTimerInLoop(t, delay)
    /\ UNCHANGED <<phase, jumps>>

-----------------------------------------------------------------------------
(* Expiration.                                                             *)

Poll ==
    /\ phase = "elsewhere" /\ timerfd_ = 0
    /\ phase' = "polled"
    /\ UNCHANGED <<where, due, timerfd_, jumps>>

(* Faulty variant of ReadTimerfd: timerfd_ is left readable. *)
NotRead == timerfd_

(* read() leaves nothing, or fails when timerfd_ was armed again since. *)
ReadTimerfd == IF timerfd_ = 0 THEN Off ELSE timerfd_

(* Faulty variant of GetExpired: it takes what is due in a tick, too. *)
ExpiredEarly == {t \in In("set") : due[t] <= 1}
GetExpired == {t \in In("set") : due[t] = 0}

HandleTimerfd ==
    /\ phase = "polled"
    /\ phase' = "run"
    /\ timerfd_' = ReadTimerfd
    /\ where' = [t \in Timer |-> IF t \in GetExpired THEN "expired" ELSE where[t]]
    /\ UNCHANGED <<due, jumps>>

Run(t) ==
    /\ phase = "run"
    /\ where[t] = "expired"
    /\ where' = [where EXCEPT ![t] = "ran"]
    /\ UNCHANGED <<due, timerfd_, phase, jumps>>

(* Faulty variant of Rearm: only when a repeating timer was set again. *)
RearmForRepeating(ahead) ==
    IF \E t \in In("ran") : Interval[t] > 0
    THEN ArmFor(CHOOSE n \in ahead : \A m \in ahead : n <= m) ELSE timerfd_

(* timerfd_ for the earliest of the times ahead. *)
Rearm(ahead) ==
    IF ahead # {} THEN ArmFor(CHOOSE n \in ahead : \A m \in ahead : n <= m) ELSE timerfd_

AfterRun(t) == IF Interval[t] > 0 THEN "set" ELSE "deleted"

(* reset(): repeating timers are restarted, the others deleted. *)
Reset ==
    /\ phase = "run" /\ In("expired") = {}
    /\ phase' = "elsewhere"
    /\ due' = [t \in Timer |-> IF where[t] = "ran" THEN Interval[t] ELSE due[t]]
    /\ where' = [t \in Timer |-> IF where[t] = "ran" THEN AfterRun(t) ELSE where[t]]
    /\ timerfd_' = Rearm({due'[t] : t \in {u \in Timer : where'[u] = "set"}})
    /\ UNCHANGED jumps

-----------------------------------------------------------------------------
(* The clocks.                                                             *)

Less(n, by) == IF n > by THEN n - by ELSE 0

Tick ==
    /\ (timerfd_ # Off /\ timerfd_ > 0) \/ \E t \in Timer : due[t] > 0
    /\ due' = [t \in Timer |-> Less(due[t], 1)]
    /\ timerfd_' = IF timerfd_ = Off THEN Off ELSE Less(timerfd_, 1)
    /\ UNCHANGED <<where, phase, jumps>>

(* The wall clock is set, forward or back; how long ago a time that has come
   came is not known. *)
SetClock(by) ==
    /\ jumps < MaxJumps
    /\ jumps' = jumps + 1
    /\ \/ due' = [t \in Timer |-> Less(due[t], by)]
       \/ \E back \in [Timer -> 0 .. by] :
              due' = [t \in Timer |-> IF due[t] > 0 THEN due[t] + by ELSE back[t]]
    /\ UNCHANGED <<where, timerfd_, phase>>

-----------------------------------------------------------------------------
TimerNext ==
    \/ \E t \in Timer :
           \/ \E delay \in 0 .. MaxDelay : AddTimer(t, delay) \/ AddInLoop(t, delay)
           \/ AddQueued(t) \/ Run(t)
    \/ Poll \/ HandleTimerfd \/ Reset \/ Tick
    \/ \E by \in 1 .. MaxDelay : SetClock(by)

TimerSpec == TimerInit /\ [][TimerNext]_timerVars

(* Time passes and the loop iterates.  It runs every queued functor, however
   often it is elsewhere in between: what EventLoop!RunsEventually says. *)
TimerFairSpec ==
    /\ TimerSpec
    /\ WF_timerVars(Tick) /\ WF_timerVars(Poll) /\ WF_timerVars(HandleTimerfd) /\ WF_timerVars(Reset)
    /\ \A t \in Timer : WF_timerVars(Run(t)) /\ SF_timerVars(AddQueued(t))

-----------------------------------------------------------------------------
(* Properties.                                                             *)

Places == {"new", "queued", "set", "expired", "ran", "deleted"}

(* Every variable has its type, and timers are out of timers_ only while
   handleRead() runs them. *)
TimerTypeOK ==
    /\ where \in [Timer -> Places]
    /\ due \in [Timer -> Nat]
    /\ timerfd_ \in Nat \cup {Off}
    /\ phase \in {"elsewhere", "polled", "run"}
    /\ jumps \in 0 .. MaxJumps
    /\ phase # "run" => In("expired") = {} /\ In("ran") = {}

(* While timers_ is not empty timerfd_ is armed, and not later than the
   earliest of them or the least delay (insert() lines 193-197, reset() lines
   180-183), or the loop is in handleRead(), which arms it at its end.  A clock
   that is set breaks it. *)
ArmedForEarliest ==
    /\ TimerTypeOK
    /\ phase # "run" /\ jumps = 0 =>
          \A t \in In("set") : timerfd_ # Off /\ timerfd_ <= ArmFor(due[t])

(* No callback runs before its time, a repeating one included (getExpired()
   lines 135-136, Timer::restart()), unless the clock is set back meanwhile. *)
NotEarly == jumps = 0 => \A t \in Timer : where[t] \in {"expired", "ran"} => due[t] = 0

(* Every timer runs, and a repeating one again and again, whatever else is
   added and however the clock is set. *)
TimersRun ==
    \A t \in Timer : where[t] \in {"queued", "set"} ~> where[t] = "ran"

(* The loop goes back to sleep: timerfd_ does not stay readable (handleRead()
   line 149 reads it). *)
SleepsAgain == timerfd_ = 0 ~> timerfd_ # 0

=============================================================================
