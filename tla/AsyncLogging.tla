---------------------------- MODULE AsyncLogging ----------------------------
(***************************************************************************)
(* AsyncLogging (log/AsyncLogging.cpp): any thread appends log lines to    *)
(* the current buffer; a backend thread swaps the filled buffers out,      *)
(* writes them to the LogFile and recycles two of them.                    *)
(*                                                                         *)
(* A block under mutex_ is one step, and so is what the backend does with  *)
(* its own buffers between two of them.  A buffer is the sequence of the   *)
(* lines in it; a moved-from BufferPtr is Null.                            *)
(***************************************************************************)
EXTENDS Naturals, Sequences, SequencesExt

CONSTANTS Line,     \* the lines logged, each at most once
          Size,     \* the length of each line
          Large,    \* kLargeBuffer, the size of a buffer
          Null      \* an empty BufferPtr

ASSUME AsyncLoggingAssumption ==
    /\ Size \in [Line -> Nat]
    /\ Large \in Nat \ {0}
    /\ Null \notin Seq(Line)

VARIABLES
    running_, currentBuffer_, nextBuffer_, buffers_,
    newBuffer1, newBuffer2, buffersToWrite,   \* locals of threadFunc()
    written, \* how many of buffersToWrite are written
    file,    \* the lines given to the LogFile
    logged,  \* the lines passed to append() so far
    pc,      \* where the backend thread is
    owner    \* where the thread is that calls start() and stop()

front == <<currentBuffer_, nextBuffer_, buffers_>>
back  == <<newBuffer1, newBuffer2, buffersToWrite, written, file>>
vars  == <<running_, front, back, logged, pc, owner>>

Buffer == Seq(Line)
PC == {"none", "entry", "loop", "lock", "wait", "write", "recycle", "exit",
       "done", "aborted"}

Init ==
    /\ running_ = FALSE
    /\ currentBuffer_ = <<>> /\ nextBuffer_ = <<>> /\ buffers_ = <<>>
    /\ newBuffer1 = <<>> /\ newBuffer2 = <<>> /\ buffersToWrite = <<>>
    /\ written = 0 /\ file = <<>> /\ logged = <<>>
    /\ pc = "none" /\ owner = "new"

-----------------------------------------------------------------------------
(* FixedBuffer.                                                            *)

Length(buffer) ==
    LET upTo[i \in 0 .. Len(buffer)] ==
            IF i = 0 THEN 0 ELSE upTo[i - 1] + Size[buffer[i]]
    IN  upTo[Len(buffer)]
Fits(buffer, line) == Large > Length(buffer) + Size[line]  \* avail() > len

(* append() drops what does not fit. *)
AppendTo(buffer, line) ==
    IF Fits(buffer, line) THEN Append(buffer, line) ELSE buffer

-----------------------------------------------------------------------------
(* Any thread: append().                                                   *)

(* Faulty variant of FillCurrent: the line that did not fit is not appended. *)
SwapCurrent(line) ==
    /\ buffers_' = Append(buffers_, currentBuffer_)
    /\ currentBuffer_' = <<>>
    /\ nextBuffer_' = Null

(* The current buffer is full: it joins buffers_, the spare or a new buffer
   takes its place. *)
FillCurrent(line) ==
    /\ buffers_' = Append(buffers_, currentBuffer_)
    /\ currentBuffer_' = AppendTo(IF nextBuffer_ # Null THEN nextBuffer_ ELSE <<>>,
                                  line)
    /\ nextBuffer_' = Null

AppendLine(line) ==
    /\ line \notin Range(logged)
    /\ IF Fits(currentBuffer_, line)
       THEN /\ currentBuffer_' = Append(currentBuffer_, line)
            /\ UNCHANGED <<nextBuffer_, buffers_>>
       ELSE FillCurrent(line)
    /\ logged' = Append(logged, line)
    /\ UNCHANGED <<running_, back, pc, owner>>

-----------------------------------------------------------------------------
(* The owner: start(), stop().                                             *)

(* Thread::start() returns once the thread runs, maybe before threadFunc(). *)
Start ==
    /\ owner = "new"
    /\ owner' = "started"
    /\ running_' = TRUE
    /\ pc' = "entry"
    /\ UNCHANGED <<front, back, logged>>

Stop ==
    /\ owner = "started"
    /\ owner' = "stopping"
    /\ running_' = FALSE
    /\ UNCHANGED <<front, back, logged, pc>>

Join ==
    /\ owner = "stopping"
    /\ pc = "done"
    /\ owner' = "joined"
    /\ UNCHANGED <<running_, front, back, logged, pc>>

-----------------------------------------------------------------------------
(* The backend: threadFunc().                                              *)

Enter ==
    /\ pc = "entry"
    /\ pc' = IF running_ THEN "loop" ELSE "aborted"   \* assert(running_)
    /\ UNCHANGED <<running_, front, back, logged, owner>>

CheckRunning ==
    /\ pc = "loop"
    /\ pc' = IF running_ THEN "lock" ELSE "exit"
    /\ UNCHANGED <<running_, front, back, logged, owner>>

(* wait_for() releases the mutex. *)
WaitForBuffers ==
    /\ pc = "lock"
    /\ buffers_ = <<>>
    /\ pc' = "wait"
    /\ UNCHANGED <<running_, front, back, logged, owner>>

TakeSpare ==
    IF nextBuffer_ = Null
    THEN nextBuffer_' = newBuffer2 /\ newBuffer2' = Null
    ELSE UNCHANGED <<nextBuffer_, newBuffer2>>

(* Faulty variant of SwapBuffers: waits again until a buffer is full. *)
SwapFullBuffers ==
    /\ buffers_ # <<>>
    /\ pc \in {"lock", "wait"}
    /\ buffersToWrite' = Append(buffers_, currentBuffer_)
    /\ buffers_' = <<>>
    /\ currentBuffer_' = newBuffer1
    /\ newBuffer1' = Null
    /\ TakeSpare
    /\ pc' = "write"
    /\ UNCHANGED <<running_, written, file, logged, owner>>

(* Lines 74-80, once there are buffers, a notification or a timeout. *)
SwapBuffers ==
    /\ \/ pc = "lock" /\ buffers_ # <<>>
       \/ pc = "wait"
    /\ buffersToWrite' = Append(buffers_, currentBuffer_)
    /\ buffers_' = <<>>
    /\ currentBuffer_' = newBuffer1
    /\ newBuffer1' = Null
    /\ TakeSpare
    /\ pc' = "write"
    /\ UNCHANGED <<running_, written, file, logged, owner>>

(* A pass of the loop of line 85. *)
WriteBuffer ==
    /\ pc = "write"
    /\ written < Len(buffersToWrite)
    /\ file' = file \o buffersToWrite[written + 1]
    /\ written' = written + 1
    /\ UNCHANGED <<running_, front, newBuffer1, newBuffer2, buffersToWrite, logged, pc,
                   owner>>

(* Lines 90-93: two buffers at most are kept. *)
KeepTwo ==
    /\ pc = "write"
    /\ written = Len(buffersToWrite)
    /\ buffersToWrite' = IF Len(buffersToWrite) > 2
                         THEN SubSeq(buffersToWrite, 1, 2)
                         ELSE buffersToWrite
    /\ written' = 0
    /\ pc' = "recycle"
    /\ UNCHANGED <<running_, front, newBuffer1, newBuffer2, file, logged, owner>>

(* Faulty variant of Refill: newBuffer2 is not reset. *)
RefillWithoutReset ==
    /\ newBuffer1' = IF newBuffer1 = Null THEN <<>> ELSE newBuffer1
    /\ newBuffer2' = IF newBuffer2 = Null THEN Head(buffersToWrite)
                                          ELSE newBuffer2

(* Lines 95-112: the locals get written buffers, emptied, in place of those
   that were moved to the front end; BackendAssertions says there are enough. *)
Refill ==
    /\ newBuffer1' = IF newBuffer1 = Null THEN <<>> ELSE newBuffer1
    /\ newBuffer2' = IF newBuffer2 = Null THEN <<>> ELSE newBuffer2

Recycle ==
    /\ pc = "recycle"
    /\ Refill
    /\ buffersToWrite' = <<>>
    /\ pc' = "loop"
    /\ UNCHANGED <<running_, front, written, file, logged, owner>>

Exit ==
    /\ pc = "exit"
    /\ pc' = "done"
    /\ UNCHANGED <<running_, front, back, logged, owner>>

Backend ==
    Enter \/ CheckRunning \/ WaitForBuffers \/ SwapBuffers \/ WriteBuffer
    \/ KeepTwo \/ Recycle \/ Exit

(* A failed assertion ends the process. *)
Next ==
    /\ pc # "aborted"
    /\ \/ \E line \in Line : AppendLine(line)
       \/ Start \/ Stop \/ Join
       \/ Backend

Spec == Init /\ [][Next]_vars

-----------------------------------------------------------------------------
(* Safety.                                                                 *)

Contents(buffer) == IF buffer = Null THEN <<>> ELSE buffer
ContentsOf(bufferSeq) ==
    FlattenSeq([i \in DOMAIN bufferSeq |-> Contents(bufferSeq[i])])

(* What holds of the buffers at every step: append() always has a buffer to
   write to, a missing spare means that one was used since the last swap, and
   the backend owns two empty buffers except while it writes.               *)
AsyncInv ==
    /\ pc \in PC
    /\ owner = "new" => pc = "none"
    /\ currentBuffer_ \in Buffer
    /\ nextBuffer_ \in Buffer \cup {Null}
    /\ buffers_ \in Seq(Buffer)
    /\ buffersToWrite \in Seq(Buffer)
    /\ nextBuffer_ = Null => buffers_ # <<>>
    /\ pc \notin {"write", "recycle"} =>
          newBuffer1 = <<>> /\ newBuffer2 = <<>> /\ buffersToWrite = <<>>
    /\ pc \in {"write", "recycle"} =>
          /\ newBuffer1 = Null
          /\ newBuffer2 \in {<<>>, Null}
          /\ Len(buffersToWrite) >= 1
          /\ newBuffer2 = Null => Len(buffersToWrite) >= 2

(* No assertion of threadFunc()'s loop fails (lines 63-65, 83, 97 and 105):
   the backend has two empty buffers before it takes the mutex, something to
   write after it, and a written buffer for each one it gave away.          *)
BackendAssertions ==
    /\ pc = "lock" =>
          newBuffer1 = <<>> /\ newBuffer2 = <<>> /\ buffersToWrite = <<>>
    /\ pc = "write" => buffersToWrite # <<>>
    /\ pc = "recycle" =>
          /\ newBuffer1 = Null \/ newBuffer2 = Null => buffersToWrite # <<>>
          /\ newBuffer1 = Null /\ newBuffer2 = Null => Len(buffersToWrite) >= 2

(* The lines that fit in a buffer; append() drops the others. *)
Kept(lines) ==
    FlattenSeq([i \in DOMAIN lines |->
                  IF Size[lines[i]] < Large THEN <<lines[i]>> ELSE <<>>])

(* The lines between append() and the end of the file, the oldest first. *)
Held ==
    file \o (IF pc = "write"
             THEN ContentsOf(SubSeq(buffersToWrite, written + 1, Len(buffersToWrite)))
             ELSE <<>>)
         \o ContentsOf(buffers_) \o Contents(currentBuffer_)

(* Whatever the swaps of threadFunc(), no line that fits is lost, doubled or
   overtaken on its way through the buffers. *)
LinesInOrder == Held = Kept(logged)
=============================================================================
