---------------------------- MODULE AsyncLogFile ----------------------------
(***************************************************************************)
(* AsyncLogging with the LogFile its backend writes to, and the clock that *)
(* the LogFile looks at.                                                   *)
(***************************************************************************)
EXTENDS AsyncLogging, LogFile

CONSTANT MaxTime     \* bound of the clock

VARIABLES now,       \* time(NULL)
          output     \* the LogFile, a local of threadFunc()

fileVars == <<vars, now, output>>

FileInit ==
    /\ Init
    /\ now = 1
    /\ output = NewLogFile(now)     \* takes the value it gets in FileEnter

-----------------------------------------------------------------------------

FileEnter ==
    /\ Enter
    /\ output' = NewLogFile(now)
    /\ UNCHANGED now

FileWriteBuffer ==
    /\ WriteBuffer
    /\ LET data == buffersToWrite[written + 1]
       IN  output' = AppendInLock(output, Len(data), Length(data), now)
    /\ UNCHANGED now

(* Faulty variant of FileRecycle: leaves the flushing to the LogFile. *)
RecycleUnflushed == Recycle /\ UNCHANGED <<now, output>>

FileRecycle == Recycle /\ output' = Flush(output) /\ UNCHANGED now

FileExit == Exit /\ output' = Flush(output) /\ UNCHANGED now

FileBackend ==
    \/ FileEnter \/ FileWriteBuffer \/ FileRecycle \/ FileExit
    \/ /\ CheckRunning \/ WaitForBuffers \/ SwapBuffers \/ KeepTwo
       /\ UNCHANGED <<now, output>>

Tick ==
    /\ now < MaxTime
    /\ now' = now + 1
    /\ UNCHANGED <<vars, output>>

FileNext ==
    /\ pc # "aborted"
    /\ \/ /\ (\E line \in Line : AppendLine(line)) \/ Start \/ Stop \/ Join
          /\ UNCHANGED <<now, output>>
       \/ FileBackend
       \/ Tick

(* As FairSpec; time need not pass. *)
FileSpec == FileInit /\ [][FileNext]_fileVars /\ WF_fileVars(FileBackend)

-----------------------------------------------------------------------------

(* A file may grow beyond rollSize_ only within the second it was opened in,
   in which rollFile() does nothing (LogFile.cpp:55): the first append after
   that second rolls it.  And a file takes less than checkEveryN_ appends of a
   later period, although count_ goes on counting over rolls by size, and not
   while they fail.                                                          *)
FileBounded ==
    /\ output.file_.writtenBytes_ > RollSize => output.file_.at = output.file_.opened
    /\ output.file_.late < CheckEveryN

(* What the backend has taken is on disk before it waits again, and when it has
   ended, whichever files it went to: each file was flushed or closed.       *)
FlushedWhenIdle ==
    pc \in {"lock", "wait", "done"} => output.onDisk = Len(file)

(* flushInterval_: a line appended while the backend runs reaches the disk
   without waiting for the buffer to fill, unless stop() comes first.       *)
OnDiskWhileRunning ==
    \A line \in Line :
        (running_ /\ line \in Range(logged) /\ Size[line] < Large)
          ~> (line \in Range(SubSeq(file, 1, output.onDisk)) \/ ~running_)
=============================================================================
