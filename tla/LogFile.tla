------------------------------ MODULE LogFile ------------------------------
(***************************************************************************)
(* LogFile and FileUtil (log/): a log file that is rolled when it is full  *)
(* or its period (a day) is over, as operators on the LogFile's members.   *)
(*                                                                         *)
(* Of the file that is open we keep when it was opened and last appended   *)
(* to, its bytes, and how many appends came after its period.  What fwrite *)
(* took is in the stdio buffer until it is flushed, or the file is closed. *)
(***************************************************************************)
EXTENDS Naturals

CONSTANTS RollSize, FlushInterval, CheckEveryN,
          RollPerSeconds     \* kRollPerSeconds_

ASSUME LogFileAssumption ==
    /\ {RollSize, FlushInterval} \subseteq Nat
    /\ {CheckEveryN, RollPerSeconds} \subseteq Nat \ {0}

PeriodOf(time) == (time \div RollPerSeconds) * RollPerSeconds

OpenedAt(now) == [opened |-> now, at |-> now, writtenBytes_ |-> 0, late |-> 0]

Flush(lf) == [lf EXCEPT !.onDisk = lf.given]

(* Faulty variant of RollFile: rolls once in a period. *)
RollOncePerPeriod(lf, now) ==
    IF PeriodOf(now) > PeriodOf(lf.lastRoll_)
    THEN [Flush(lf) EXCEPT !.lastRoll_ = now, !.lastFlush_ = now,
                           !.startOfPeriod_ = PeriodOf(now), !.file_ = OpenedAt(now)]
    ELSE lf

(* The old file is closed, and so flushed.  Files are named by the second. *)
RollFile(lf, now) ==
    IF now > lf.lastRoll_
    THEN [count_ |-> lf.count_, startOfPeriod_ |-> PeriodOf(now),
          lastRoll_ |-> now, lastFlush_ |-> now, file_ |-> OpenedAt(now),
          given |-> lf.given, onDisk |-> lf.given]
    ELSE lf

NewLogFile(now) ==
    RollFile([count_ |-> 0, startOfPeriod_ |-> 0, lastRoll_ |-> 0, lastFlush_ |-> 0,
              file_ |-> OpenedAt(now), given |-> 0, onDisk |-> 0], now)

(* FileUtil::append(): fwrite takes everything. *)
Grown(f, bytes, now) ==
    [opened |-> f.opened, at |-> now, writtenBytes_ |-> f.writtenBytes_ + bytes,
     late |-> IF PeriodOf(now) = PeriodOf(f.opened) THEN f.late ELSE f.late + 1]

FileAppend(lf, lines, bytes, now) ==
    LET took == [lf EXCEPT !.given = lf.given + lines]
    IN  [took EXCEPT !.file_ = Grown(lf.file_, bytes, now)]

(* Every CheckEveryN appends the clock is looked at. *)
CheckTime(lf, now) ==
    IF PeriodOf(now) # lf.startOfPeriod_ THEN RollFile(lf, now)
    ELSE IF now - lf.lastFlush_ > FlushInterval
         THEN Flush([lf EXCEPT !.lastFlush_ = now])
         ELSE lf

AppendInLock(lf, lines, bytes, now) ==
    LET wrote == FileAppend(lf, lines, bytes, now)
    IN  IF wrote.file_.writtenBytes_ > RollSize THEN RollFile(wrote, now)
        ELSE IF lf.count_ + 1 < CheckEveryN
             THEN [wrote EXCEPT !.count_ = @ + 1]
             ELSE CheckTime([wrote EXCEPT !.count_ = 0], now)
=============================================================================
