-------------------------- MODULE Logging_proofs ---------------------------
(***************************************************************************)
(* For any lines, line lengths and buffer size: no assertion of            *)
(* threadFunc()'s loop fails, append() always has a buffer, and no line is *)
(* lost, doubled or moved on its way through the buffers.  For any sizes,  *)
(* periods and clock: the backend with its LogFile is a backend, its files *)
(* are rolled in time, and when it waits everything it took is on disk.    *)
(***************************************************************************)
EXTENDS AsyncLogFile, SequenceLemmas

(* The empty buffer is a buffer, and no moved-from pointer. *)
LEMMA EmptyBuffer == /\ <<>> \in Seq(Line) /\ <<>> # Null
                     /\ <<>> \in Seq(Seq(Line))
<1> QED
  BY EmptySeq, AsyncLoggingAssumption DEF AsyncLoggingAssumption

(* A new AsyncLogging has its two buffers, and so has the backend. *)
LEMMA InitAsyncInv == Init => AsyncInv
<1> USE AsyncLoggingAssumption DEF AsyncLoggingAssumption
<1> QED
  BY EmptyBuffer DEF Init, AsyncInv, PC, Buffer

(* append() passes the buffer it fills to the backend and has another one. *)
LEMMA AppendLineKeepsInv ==
  ASSUME AsyncInv, NEW line \in Line, AppendLine(line)
  PROVE  AsyncInv'
<1> USE AsyncLoggingAssumption DEF AsyncLoggingAssumption, AsyncInv, Buffer
<1>1. UNCHANGED <<newBuffer1, newBuffer2, buffersToWrite, pc, owner>>
  BY DEF AppendLine, back
<1>2. CASE Fits(currentBuffer_, line)
  <2>1. currentBuffer_' = Append(currentBuffer_, line)
        /\ UNCHANGED <<nextBuffer_, buffers_>>
    BY <1>2 DEF AppendLine
  <2>2. Append(currentBuffer_, line) \in Seq(Line)
    OBVIOUS
  <2> QED
    BY <1>1, <2>1, <2>2
<1>3. CASE ~Fits(currentBuffer_, line)
  <2>1. FillCurrent(line)
    BY <1>3 DEF AppendLine
  <2>2. nextBuffer_' = Null /\ buffers_' = Append(buffers_, currentBuffer_)
    BY <2>1 DEF FillCurrent
  <2>3. buffers_' \in Seq(Seq(Line)) /\ buffers_' # <<>>
    BY <2>2, AppendProperties
  <2>4. currentBuffer_' \in Seq(Line)
    <3> DEFINE b == IF nextBuffer_ # Null THEN nextBuffer_ ELSE <<>>
    <3>1. b \in Seq(Line)
      BY EmptyBuffer
    <3>2. AppendTo(b, line) \in Seq(Line)
      BY <3>1 DEF AppendTo
    <3> QED
      BY <2>1, <3>2 DEF FillCurrent
  <2> QED
    BY <1>1, <2>2, <2>3, <2>4
<1> QED
  BY <1>2, <1>3

(* The swap under the mutex: the front end gets newBuffer1, and newBuffer2
   only if its spare is used, in which case there are two buffers to write. *)
LEMMA SwapBuffersKeepsInv ==
  ASSUME AsyncInv, SwapBuffers
  PROVE  AsyncInv'
<1> USE AsyncLoggingAssumption DEF AsyncLoggingAssumption, AsyncInv, Buffer
<1>1. /\ buffersToWrite' = Append(buffers_, currentBuffer_)
      /\ buffers_' = <<>> /\ currentBuffer_' = newBuffer1
      /\ newBuffer1' = Null /\ TakeSpare
      /\ owner' = owner /\ owner # "new" /\ pc' = "write" /\ pc \notin {"write", "recycle"}
  BY DEF SwapBuffers
<1>2. newBuffer1 = <<>> /\ newBuffer2 = <<>> /\ <<>> # Null
      /\ <<>> \in Seq(Line) /\ <<>> \in Seq(Seq(Line))
  BY <1>1, EmptyBuffer
<1>3. buffersToWrite' \in Seq(Seq(Line)) /\ Len(buffersToWrite') = Len(buffers_) + 1
  BY <1>1
<1>4. Len(buffersToWrite') >= 1
  BY <1>3
<1>5. nextBuffer_' \in Seq(Line) /\ nextBuffer_' # Null
      /\ newBuffer2' \in {<<>>, Null}
  BY <1>1, <1>2 DEF TakeSpare
<1>6. newBuffer2' = Null => Len(buffersToWrite') >= 2
  <2>1. newBuffer2' = Null => buffers_ # <<>>
    BY <1>1, <1>2 DEF TakeSpare
  <2>2. buffers_ # <<>> => Len(buffers_) >= 1
    OBVIOUS
  <2> QED
    BY <1>3, <2>1, <2>2
<1> QED
  BY <1>1, <1>2, <1>3, <1>4, <1>5, <1>6 DEF PC

(* Two written buffers are kept, if there were two. *)
LEMMA KeepTwoKeepsInv ==
  ASSUME AsyncInv, KeepTwo
  PROVE  AsyncInv'
<1> USE AsyncLoggingAssumption DEF AsyncLoggingAssumption, AsyncInv, Buffer
<1>1. /\ pc = "write" /\ pc' = "recycle"
      /\ UNCHANGED <<currentBuffer_, nextBuffer_, buffers_, newBuffer1, newBuffer2, owner>>
  BY DEF KeepTwo, front
<1>2. CASE Len(buffersToWrite) > 2
  <2>1. buffersToWrite' = SubSeq(buffersToWrite, 1, 2)
    BY <1>2 DEF KeepTwo
  <2>2. buffersToWrite' \in Seq(Seq(Line)) /\ Len(buffersToWrite') = 2
    BY <1>2, <2>1
  <2> QED
    BY <1>1, <2>2 DEF PC
<1>3. CASE ~(Len(buffersToWrite) > 2)
  <2>1. buffersToWrite' = buffersToWrite
    BY <1>3 DEF KeepTwo
  <2> QED
    BY <1>1, <2>1 DEF PC
<1> QED
  BY <1>2, <1>3

(* The backend has its two empty buffers back. *)
LEMMA RecycleKeepsInv ==
  ASSUME AsyncInv, Recycle
  PROVE  AsyncInv'
<1> USE AsyncLoggingAssumption DEF AsyncLoggingAssumption, AsyncInv, Buffer
<1>1. /\ pc = "recycle" /\ pc' = "loop" /\ buffersToWrite' = <<>>
      /\ UNCHANGED <<currentBuffer_, nextBuffer_, buffers_, owner>>
  BY DEF Recycle, front
<1>2. newBuffer1' = <<>> /\ newBuffer2' = <<>>
  BY <1>1 DEF Recycle, Refill
<1> QED
  BY <1>1, <1>2, EmptyBuffer DEF PC

(* No step of any thread breaks the invariant. *)
LEMMA NextKeepsAsyncInv == AsyncInv /\ [Next]_vars => AsyncInv'
<1> SUFFICES ASSUME AsyncInv, [Next]_vars PROVE AsyncInv'
  OBVIOUS
<1>1. ASSUME NEW line \in Line, AppendLine(line) PROVE AsyncInv'
  BY <1>1, AppendLineKeepsInv
<1>2. CASE Start
  BY <1>2 DEF Start, AsyncInv, PC, front, back
<1>3. CASE Stop
  BY <1>3 DEF Stop, AsyncInv, front, back
<1>4. CASE Join
  BY <1>4 DEF Join, AsyncInv, front, back
<1>5. CASE Enter
  BY <1>5 DEF Enter, AsyncInv, PC, front, back
<1>6. CASE CheckRunning
  BY <1>6 DEF CheckRunning, AsyncInv, PC, front, back
<1>7. CASE WaitForBuffers
  BY <1>7 DEF WaitForBuffers, AsyncInv, PC, front, back
<1>8. CASE SwapBuffers
  BY <1>8, SwapBuffersKeepsInv
<1>9. CASE WriteBuffer
  BY <1>9 DEF WriteBuffer, AsyncInv, front
<1>10. CASE KeepTwo
  BY <1>10, KeepTwoKeepsInv
<1>11. CASE Recycle
  BY <1>11, RecycleKeepsInv
<1>12. CASE Exit
  BY <1>12 DEF Exit, AsyncInv, PC, front, back
<1>13. CASE UNCHANGED vars
  BY <1>13 DEF vars, AsyncInv, front, back
<1> QED
  BY <1>1, <1>2, <1>3, <1>4, <1>5, <1>6, <1>7, <1>8, <1>9, <1>10, <1>11, <1>12, <1>13
  DEF Next, Backend

(* In every reachable state append() has a buffer, and the backend two empty
   ones whenever it is not writing. *)
THEOREM AsyncInvHolds == Spec => []AsyncInv
<1> QED
  BY InitAsyncInv, NextKeepsAsyncInv, PTL DEF Spec

(* The invariant gives the backend what its assertions ask for. *)
LEMMA InvGivesAssertions == AsyncInv => BackendAssertions
<1> USE AsyncLoggingAssumption DEF AsyncLoggingAssumption
<1> SUFFICES ASSUME AsyncInv PROVE BackendAssertions
  OBVIOUS
<1>1. pc = "lock" => newBuffer1 = <<>> /\ newBuffer2 = <<>> /\ buffersToWrite = <<>>
  BY DEF AsyncInv
<1>2. pc = "write" => buffersToWrite # <<>>
  BY DEF AsyncInv
<1>3. ASSUME pc = "recycle"
      PROVE  /\ newBuffer1 = Null \/ newBuffer2 = Null => buffersToWrite # <<>>
             /\ newBuffer1 = Null /\ newBuffer2 = Null => Len(buffersToWrite) >= 2
  <2>1. buffersToWrite # <<>>
    BY <1>3, EmptySeq DEF AsyncInv
  <2> QED
    BY <1>3, <2>1 DEF AsyncInv
<1> QED
  BY <1>1, <1>2, <1>3 DEF BackendAssertions

(* No assertion of threadFunc()'s loop ever fails, however the appending
   threads, the timeout and stop() interleave with the backend. *)
THEOREM AssertionsHold == Spec => []BackendAssertions
<1> QED
  BY AsyncInvHolds, InvGivesAssertions, PTL

-----------------------------------------------------------------------------
(* The lines in the buffers.                                               *)

(* The length of a buffer is a number, and that of the empty one 0. *)
LEMMA LengthHolds ==
  ASSUME NEW buffer \in Seq(Line)
  PROVE  Length(buffer) \in Nat /\ (buffer = <<>> => Length(buffer) = 0)
<1> DEFINE n == Len(buffer)
           step == [i \in 1 .. n |-> [x \in Nat |-> x + Size[buffer[i]]]]
           IsSum(g) == g = [i \in 0 .. n |-> IF i = 0 THEN 0
                                             ELSE g[i - 1] + Size[buffer[i]]]
<1>1. n \in Nat
  OBVIOUS
<1>2. ASSUME NEW i \in 1 .. n PROVE Size[buffer[i]] \in Nat
  BY AsyncLoggingAssumption DEF AsyncLoggingAssumption
<1>3. step \in [1 .. n -> [Nat -> Nat]]
  BY <1>2
<1>4. \A i \in 1 .. n, x \in Nat : step[i][x] = x + Size[buffer[i]]
  OBVIOUS
<1>5. \E g : IsSum(g)
  <2> HIDE DEF step, n
  <2>1. PICK f \in [0 .. n -> Nat] : Recurs(f, n, 0, step)
    BY <1>1, <1>3, RecursionExists
  <2>2. ASSUME NEW i \in 0 .. n
        PROVE  f[i] = IF i = 0 THEN 0 ELSE f[i - 1] + Size[buffer[i]]
    <3>1. CASE i = 0
      BY <2>1, <3>1 DEF Recurs
    <3>2. CASE i # 0
      <4>1. i \in 1 .. n /\ i - 1 \in 0 .. n
        BY <1>1, <3>2
      <4>2. f[i] = step[i][f[i - 1]] /\ f[i - 1] \in Nat
        BY <2>1, <4>1 DEF Recurs
      <4> QED
        BY <1>4, <3>2, <4>1, <4>2
    <3> QED
      BY <3>1, <3>2
  <2>3. IsSum(f)
    BY <2>2
  <2> QED
    BY <2>3
<1>6. ASSUME NEW g, IsSum(g) PROVE g[n] \in Nat /\ g[0] = 0
  <2> DEFINE P == {m \in Nat : m <= n => g[m] \in Nat}
  <2>1. \A i \in 0 .. n : g[i] = IF i = 0 THEN 0 ELSE g[i - 1] + Size[buffer[i]]
    BY <1>6
  <2>2. 0 \in 0 .. n /\ g[0] = 0
    BY <1>1, <2>1
  <2>3. 0 \in P
    BY <2>2
  <2>4. ASSUME NEW m \in P PROVE m + 1 \in P
    <3> SUFFICES ASSUME m + 1 <= n PROVE g[m + 1] \in Nat
      OBVIOUS
    <3>1. m \in Nat /\ g[m] \in Nat /\ m + 1 \in 0 .. n /\ m + 1 \in 1 .. n
          /\ m + 1 # 0 /\ (m + 1) - 1 = m
      BY <1>1
    <3>2. g[m + 1] = g[m] + Size[buffer[m + 1]]
      BY <2>1, <3>1
    <3> QED
      BY <1>2, <3>1, <3>2
  <2>5. P = Nat
    <3>1. P \in SUBSET Nat
      OBVIOUS
    <3> HIDE DEF P
    <3> QED
      BY <2>3, <2>4, <3>1, Induction
  <2> QED
    BY <1>1, <2>2, <2>5
<1>7. PICK g : IsSum(g) /\ Length(buffer) = g[n]
  BY <1>5 DEF Length
<1>8. g[n] \in Nat /\ g[0] = 0
  BY <1>6, <1>7
<1>9. buffer = <<>> => n = 0
  OBVIOUS
<1> HIDE DEF n, IsSum
<1> QED
  BY <1>7, <1>8, <1>9

(* Buffers are no null pointers: what they hold is one after the other. *)
LEMMA ContentsAre ==
  ASSUME NEW s \in Seq(Seq(Line))
  PROVE  ContentsOf(s) = FlattenSeq(s) /\ ContentsOf(s) \in Seq(Line)
<1>1. ASSUME NEW i \in DOMAIN s PROVE Contents(s[i]) = s[i]
  <2>1. s[i] \in Seq(Line)
    BY ElementOfSeq
  <2> QED
    BY <2>1, AsyncLoggingAssumption DEF AsyncLoggingAssumption, Contents
<1>2. [i \in DOMAIN s |-> Contents(s[i])] = s
  BY <1>1
<1> QED
  BY <1>2, FlattenIsSeq DEF ContentsOf

(* A line more comes last, if it is kept. *)
LEMMA KeptAppend ==
  ASSUME NEW lines \in Seq(Line), NEW line \in Line
  PROVE  Kept(Append(lines, line)) =
           Kept(lines) \o (IF Size[line] < Large THEN <<line>> ELSE <<>>)
<1> DEFINE One(l) == IF Size[l] < Large THEN <<l>> ELSE <<>>
           All(s) == [i \in DOMAIN s |-> One(s[i])]
           n == Len(lines)
<1>1. \A l \in Line : One(l) \in Seq(Line)
  OBVIOUS
<1> HIDE DEF One
<1>2. n \in Nat /\ DOMAIN lines = 1 .. n /\ Append(lines, line) \in Seq(Line)
      /\ DOMAIN Append(lines, line) = 1 .. n + 1
  OBVIOUS
<1>3. ASSUME NEW s \in Seq(Line)
      PROVE  /\ All(s) \in Seq(Seq(Line)) /\ Len(All(s)) = Len(s)
             /\ \A i \in 1 .. Len(s) : All(s)[i] = One(s[i])
  <2>1. Len(s) \in Nat /\ DOMAIN s = 1 .. Len(s)
        /\ \A i \in 1 .. Len(s) : s[i] \in Line
    OBVIOUS
  <2> QED
    BY <1>1, <2>1
<1>4. All(lines) \in Seq(Seq(Line)) /\ Len(All(lines)) = n
      /\ \A i \in 1 .. n : All(lines)[i] = One(lines[i])
  BY <1>3
<1>5. Append(All(lines), One(line)) \in Seq(Seq(Line))
      /\ Len(Append(All(lines), One(line))) = n + 1
  BY <1>1, <1>4
<1>6. All(Append(lines, line)) \in Seq(Seq(Line))
      /\ Len(All(Append(lines, line))) = n + 1
  <2>1. Len(Append(lines, line)) = n + 1
    BY <1>2
  <2> QED
    BY <1>2, <1>3, <2>1
<1>7. ASSUME NEW i \in 1 .. n + 1
      PROVE  All(Append(lines, line))[i] = Append(All(lines), One(line))[i]
  <2>1. All(Append(lines, line))[i] = One(Append(lines, line)[i])
    BY <1>2
  <2>2. CASE i <= n
    BY <1>1, <1>2, <1>4, <2>1, <2>2
  <2>3. CASE i = n + 1
    BY <1>1, <1>2, <1>4, <2>1, <2>3
  <2> QED
    BY <1>2, <2>2, <2>3
<1>8. All(Append(lines, line)) = Append(All(lines), One(line))
  BY <1>5, <1>6, <1>7, SeqEqual
<1>9. FlattenSeq(All(Append(lines, line))) = FlattenSeq(All(lines)) \o One(line)
  BY <1>1, <1>4, <1>8, FlattenAppend
<1> QED
  BY <1>9 DEF Kept, One

(* Beside LinesInOrder: the spare is empty, the backend starts with the first
   buffer, and none is written twice. *)
LinesInv ==
    /\ LinesInOrder
    /\ file \in Seq(Line) /\ logged \in Seq(Line)
    /\ nextBuffer_ \in {<<>>, Null}
    /\ written \in Nat /\ written <= Len(buffersToWrite)
    /\ pc # "write" => written = 0

(* What the backend has or has taken, and what is still in front of it. *)
ToWrite ==
    IF pc = "write"
    THEN ContentsOf(SubSeq(buffersToWrite, written + 1, Len(buffersToWrite)))
    ELSE <<>>
Behind == file \o ToWrite
InFront == FlattenSeq(buffers_) \o currentBuffer_

(* Held, in two parts and without its null pointers. *)
HeldParts ==
    /\ Held = Behind \o InFront
    /\ ToWrite \in Seq(Line) /\ Behind \in Seq(Line) /\ InFront \in Seq(Line)
    /\ FlattenSeq(buffers_) \in Seq(Line)

(* The parts hold lines and make up Held. *)
LEMMA HeldIs == AsyncInv /\ file \in Seq(Line) /\ written \in Nat => HeldParts
<1> SUFFICES ASSUME AsyncInv, file \in Seq(Line), written \in Nat PROVE HeldParts
  OBVIOUS
<1>1. /\ currentBuffer_ \in Seq(Line) /\ buffers_ \in Seq(Seq(Line))
      /\ buffersToWrite \in Seq(Seq(Line))
  BY DEF AsyncInv, Buffer
<1>2. Contents(currentBuffer_) = currentBuffer_
  BY <1>1, AsyncLoggingAssumption DEF AsyncLoggingAssumption, Contents
<1>3. ContentsOf(buffers_) = FlattenSeq(buffers_) /\ FlattenSeq(buffers_) \in Seq(Line)
  BY <1>1, ContentsAre, FlattenIsSeq
<1>4. ToWrite \in Seq(Line)
  <2>1. CASE pc = "write"
    <3>1. Len(buffersToWrite) \in Nat
          /\ \A i \in written + 1 .. Len(buffersToWrite) : buffersToWrite[i] \in Seq(Line)
      BY <1>1
    <3>2. SubSeq(buffersToWrite, written + 1, Len(buffersToWrite)) \in Seq(Seq(Line))
      BY <3>1, SubSeqProperties
    <3> QED
      BY <2>1, <3>2, ContentsAre DEF ToWrite
  <2> QED
    BY <2>1, EmptyBuffer DEF ToWrite
<1>5. Behind \in Seq(Line)
  BY <1>4 DEF Behind
<1>6. Held = (Behind \o FlattenSeq(buffers_)) \o currentBuffer_
  BY <1>2, <1>3 DEF Held, Behind, ToWrite
<1>7. Held = Behind \o InFront
  <2>1. JoinsAssociate(Line)
    BY JoinAssociative
  <2>2. PICK a, b, c : a = Behind /\ b = FlattenSeq(buffers_) /\ c = currentBuffer_
    OBVIOUS
  <2>3. a \in Seq(Line) /\ b \in Seq(Line) /\ c \in Seq(Line)
    BY <1>1, <1>3, <1>5, <2>2
  <2>4. (a \o b) \o c = a \o (b \o c)
    BY <2>1, <2>3 DEF JoinsAssociate
  <2> QED
    BY <1>6, <2>2, <2>4 DEF InFront
<1>8. InFront \in Seq(Line)
  BY <1>1, <1>3 DEF InFront
<1> QED
  BY <1>3, <1>4, <1>5, <1>7, <1>8 DEF HeldParts

(* The same after a step. *)
LEMMA HeldIsNext ==
  AsyncInv' /\ (file \in Seq(Line))' /\ (written \in Nat)' => HeldParts'
<1> QED
  BY HeldIs, PTL

(* append() takes the line behind all others, or drops it for its length. *)
LEMMA AppendLineKeepsLines ==
  ASSUME AsyncInv, AsyncInv', LinesInv, NEW line \in Line, AppendLine(line)
  PROVE  LinesInv'
<1> DEFINE it == IF Size[line] < Large THEN <<line>> ELSE <<>>
<1>1. /\ UNCHANGED <<file, buffersToWrite, written, pc>>
      /\ logged' = Append(logged, line)
  BY DEF AppendLine, back
<1>2. /\ currentBuffer_ \in Seq(Line) /\ buffers_ \in Seq(Seq(Line))
      /\ Size[line] \in Nat /\ Large \in Nat /\ nextBuffer_ \in {<<>>, Null}
      /\ file \in Seq(Line) /\ logged \in Seq(Line) /\ written \in Nat
  BY AsyncLoggingAssumption DEF AsyncLoggingAssumption, AsyncInv, Buffer, LinesInv
<1>3. HeldParts
  BY <1>2, HeldIs
<1>4. HeldParts'
  BY <1>1, <1>2, HeldIsNext
<1>5. JoinsAssociate(Line)
  BY JoinAssociative
<1>6. it \in Seq(Line)
  OBVIOUS
<1>7. InFront' = InFront \o it /\ nextBuffer_' \in {<<>>, Null}
  <2>1. Length(currentBuffer_) \in Nat
    BY <1>2, LengthHolds
  <2>2. PICK b, c : b = FlattenSeq(buffers_) /\ c = currentBuffer_
    OBVIOUS
  <2>3. b \in Seq(Line) /\ c \in Seq(Line)
    BY <1>2, <1>3, <2>2 DEF HeldParts
  <2>4. CASE Fits(currentBuffer_, line)
    <3>1. currentBuffer_' = Append(currentBuffer_, line)
          /\ UNCHANGED <<nextBuffer_, buffers_>>
      BY <2>4 DEF AppendLine
    <3>2. Size[line] < Large
      BY <1>2, <2>1, <2>4 DEF Fits
    <3>3. currentBuffer_' = c \o it
      BY <1>2, <2>2, <3>1, <3>2, AppendIsConcat
    <3> HIDE DEF it
    <3>4. (b \o c) \o it = b \o (c \o it)
      BY <1>5, <1>6, <2>3 DEF JoinsAssociate
    <3> QED
      BY <1>2, <2>2, <3>1, <3>3, <3>4 DEF InFront
  <2>5. CASE ~Fits(currentBuffer_, line)
    <3>1. /\ buffers_' = Append(buffers_, currentBuffer_)
          /\ currentBuffer_' = AppendTo(<<>>, line)
          /\ nextBuffer_' = Null
      BY <1>2, <2>5 DEF AppendLine, FillCurrent
    <3>2. Length(<<>>) = 0
      BY EmptyBuffer, LengthHolds
    <3>3. AppendTo(<<>>, line) = it
      <4>1. Fits(<<>>, line) <=> Size[line] < Large
        BY <1>2, <3>2 DEF Fits
      <4>2. Append(<<>>, line) = <<line>>
        OBVIOUS
      <4> QED
        BY <4>1, <4>2 DEF AppendTo
    <3>4. FlattenSeq(buffers_') = FlattenSeq(buffers_) \o currentBuffer_
      BY <1>2, <3>1, FlattenAppend
    <3> HIDE DEF it
    <3> QED
      BY <3>1, <3>3, <3>4 DEF InFront
  <2> QED
    BY <2>4, <2>5
<1>8. Held' = Held \o it
  <2>1. Behind' = Behind
    BY <1>1 DEF Behind, ToWrite, ContentsOf, Contents
  <2>2. PICK a, b : a = Behind /\ b = InFront
    OBVIOUS
  <2>3. a \in Seq(Line) /\ b \in Seq(Line)
    BY <1>3, <2>2 DEF HeldParts
  <2> HIDE DEF it
  <2>4. (a \o b) \o it = a \o (b \o it)
    BY <1>5, <1>6, <2>3 DEF JoinsAssociate
  <2>5. Held = a \o b /\ Held' = a \o (b \o it)
    BY <1>3, <1>4, <1>7, <2>1, <2>2 DEF HeldParts
  <2> QED
    BY <2>4, <2>5
<1>9. Kept(logged') = Kept(logged) \o it
  BY <1>1, <1>2, KeptAppend
<1>10. logged' \in Seq(Line)
  BY <1>1, <1>2
<1> HIDE DEF it
<1> QED
  BY <1>1, <1>7, <1>8, <1>9, <1>10 DEF LinesInv, LinesInOrder

(* The swap moves what was in front of the backend behind it. *)
LEMMA SwapBuffersKeepsLines ==
  ASSUME AsyncInv, AsyncInv', LinesInv, SwapBuffers
  PROVE  LinesInv'
<1>1. /\ buffersToWrite' = Append(buffers_, currentBuffer_)
      /\ buffers_' = <<>> /\ currentBuffer_' = newBuffer1
      /\ TakeSpare /\ UNCHANGED <<written, file, logged>>
      /\ pc \notin {"write", "recycle"} /\ pc' = "write"
  BY DEF SwapBuffers
<1>2. /\ newBuffer1 = <<>> /\ newBuffer2 = <<>>
      /\ currentBuffer_ \in Seq(Line) /\ buffers_ \in Seq(Seq(Line))
      /\ file \in Seq(Line) /\ logged \in Seq(Line) /\ written = 0
      /\ nextBuffer_ \in {<<>>, Null} /\ Held = Kept(logged)
  BY <1>1 DEF AsyncInv, Buffer, LinesInv, LinesInOrder
<1>3. HeldParts
  BY <1>2, HeldIs
<1>4. HeldParts'
  BY <1>1, <1>2, HeldIsNext
<1>5. nextBuffer_' \in {<<>>, Null}
  BY <1>1, <1>2 DEF TakeSpare
<1>6. /\ buffersToWrite' \in Seq(Seq(Line)) /\ Len(buffersToWrite') \in Nat
      /\ SubSeq(buffersToWrite', 1, Len(buffersToWrite')) = buffersToWrite'
  <2>1. buffersToWrite' \in Seq(Seq(Line))
    BY <1>1, <1>2, AppendProperties
  <2> QED
    BY <2>1, SubSeqFull, LenProperties
<1>7. ToWrite' = InFront
  <2>1. ToWrite' = ContentsOf(buffersToWrite')
    <3>1. written' + 1 = 1
      BY <1>1, <1>2
    <3>2. SubSeq(buffersToWrite', written' + 1, Len(buffersToWrite')) = buffersToWrite'
      BY <1>6, <3>1
    <3> QED
      BY <1>1, <3>2 DEF ToWrite
  <2>2. ContentsOf(buffersToWrite') = FlattenSeq(buffersToWrite')
    BY <1>6, ContentsAre
  <2>3. FlattenSeq(buffersToWrite') = FlattenSeq(buffers_) \o currentBuffer_
    BY <1>1, <1>2, FlattenAppend
  <2> QED
    BY <2>1, <2>2, <2>3 DEF InFront
<1>8. Behind' = file \o InFront
  BY <1>1, <1>7 DEF Behind
<1>9. InFront' = <<>>
  BY <1>1, <1>2, FlattenEmpty DEF InFront
<1>10. Behind = file
  BY <1>1, <1>2 DEF Behind, ToWrite
<1>11. Held' = Held
  <2>1. Held = file \o InFront /\ InFront \in Seq(Line)
    BY <1>3, <1>10 DEF HeldParts
  <2>2. Held' = (file \o InFront) \o <<>> /\ file \o InFront \in Seq(Line)
    BY <1>2, <1>4, <1>8, <1>9, <2>1 DEF HeldParts
  <2> QED
    BY <2>1, <2>2, ConcatEmptySeq
<1> QED
  BY <1>1, <1>2, <1>5, <1>6, <1>11 DEF LinesInv, LinesInOrder

(* What is written is the first of what was to be. *)
LEMMA WriteBufferKeepsLines ==
  ASSUME AsyncInv, AsyncInv', LinesInv, WriteBuffer
  PROVE  LinesInv'
<1> DEFINE data == buffersToWrite[written + 1]
           n == Len(buffersToWrite)
           rest == SubSeq(buffersToWrite, written + 2, n)
<1>1. /\ pc = "write" /\ pc' = "write" /\ written < n
      /\ file' = file \o data /\ written' = written + 1
      /\ UNCHANGED <<currentBuffer_, nextBuffer_, buffers_, buffersToWrite, logged>>
  BY DEF WriteBuffer, front
<1>2. /\ buffersToWrite \in Seq(Seq(Line)) /\ n \in Nat
      /\ file \in Seq(Line) /\ logged \in Seq(Line) /\ written \in Nat
      /\ nextBuffer_ \in {<<>>, Null} /\ Held = Kept(logged)
  BY DEF AsyncInv, Buffer, LinesInv, LinesInOrder
<1>3. written + 1 \in 1 .. n /\ n \in written + 1 .. n /\ (written + 1) + 1 = written + 2
  BY <1>1, <1>2
<1>4. data \in Seq(Line)
  BY <1>2, <1>3, ElementOfSeq
<1>5. rest \in Seq(Seq(Line))
  <2>1. \A i \in written + 2 .. n : buffersToWrite[i] \in Seq(Line)
    BY <1>2, <1>3
  <2> QED
    BY <1>2, <2>1, SubSeqProperties
<1>6. SubSeq(buffersToWrite, written + 1, n) = <<data>> \o rest
  BY <1>2, <1>3, SubSeqRecursiveFirst
<1>7. HeldParts
  BY <1>2, HeldIs
<1>8. file' \in Seq(Line) /\ written' \in Nat
  BY <1>1, <1>2, <1>4
<1>9. HeldParts'
  BY <1>8, HeldIsNext
<1>10. ToWrite = data \o FlattenSeq(rest) /\ ToWrite' = FlattenSeq(rest)
       /\ FlattenSeq(rest) \in Seq(Line)
  <2>1. <<data>> \o rest \in Seq(Seq(Line))
    <3>1. <<data>> \in Seq(Seq(Line))
      BY <1>4
    <3> QED
      BY <1>5, <3>1, ConcatProperties
  <2>2. ToWrite = FlattenSeq(<<data>> \o rest)
    BY <1>1, <1>6, <2>1, ContentsAre DEF ToWrite
  <2>3. FlattenSeq(<<data>> \o rest) = data \o FlattenSeq(rest)
    BY <1>4, <1>5, FlattenCons
  <2>4. ToWrite' = ContentsOf(rest)
    <3>1. written' + 1 = written + 2
      BY <1>1, <1>2
    <3>2. SubSeq(buffersToWrite', written' + 1, Len(buffersToWrite')) = rest
      BY <1>1, <3>1
    <3> HIDE DEF rest
    <3> QED
      BY <1>1, <3>2 DEF ToWrite
  <2>5. ContentsOf(rest) = FlattenSeq(rest)
    BY <1>5, ContentsAre
  <2> QED
    BY <1>5, <2>2, <2>3, <2>4, <2>5, FlattenIsSeq
<1>11. Behind' = Behind
  <2>1. PICK a, b, c : a = file /\ b = data /\ c = FlattenSeq(rest)
    OBVIOUS
  <2>2. a \in Seq(Line) /\ b \in Seq(Line) /\ c \in Seq(Line)
    BY <1>2, <1>4, <1>10, <2>1
  <2>3. JoinsAssociate(Line)
    BY JoinAssociative
  <2>4. (a \o b) \o c = a \o (b \o c)
    BY <2>2, <2>3 DEF JoinsAssociate
  <2>5. Behind = a \o (b \o c) /\ Behind' = (a \o b) \o c
    BY <1>1, <1>10, <2>1 DEF Behind
  <2> QED
    BY <2>4, <2>5
<1>12. InFront' = InFront
  BY <1>1 DEF InFront
<1>13. Held' = Held
  BY <1>7, <1>9, <1>11, <1>12 DEF HeldParts
<1>14. written' <= Len(buffersToWrite')
  BY <1>1, <1>2
<1> QED
  BY <1>1, <1>2, <1>8, <1>13, <1>14 DEF LinesInv, LinesInOrder

(* When the two buffers are kept all are written. *)
LEMMA KeepTwoKeepsLines ==
  ASSUME AsyncInv, AsyncInv', LinesInv, KeepTwo
  PROVE  LinesInv'
<1>1. /\ pc = "write" /\ pc' = "recycle" /\ written = Len(buffersToWrite) /\ written' = 0
      /\ UNCHANGED <<currentBuffer_, nextBuffer_, buffers_, file, logged>>
  BY DEF KeepTwo, front
<1>2. /\ buffersToWrite \in Seq(Seq(Line)) /\ buffersToWrite' \in Seq(Seq(Line))
      /\ file \in Seq(Line) /\ logged \in Seq(Line) /\ written \in Nat
      /\ nextBuffer_ \in {<<>>, Null} /\ Held = Kept(logged)
  BY DEF AsyncInv, Buffer, LinesInv, LinesInOrder
<1>3. HeldParts
  BY <1>2, HeldIs
<1>4. HeldParts'
  BY <1>1, <1>2, HeldIsNext
<1>5. ToWrite = <<>> /\ ToWrite' = <<>>
  <2>1. SubSeq(buffersToWrite, written + 1, Len(buffersToWrite)) = <<>>
    BY <1>1, <1>2, SubSeqEmpty
  <2>2. ContentsOf(<<>>) = <<>>
    BY EmptyBuffer, ContentsAre, FlattenEmpty
  <2> QED
    BY <1>1, <2>1, <2>2 DEF ToWrite
<1>6. Behind' = Behind /\ InFront' = InFront
  BY <1>1, <1>5 DEF Behind, InFront
<1>7. Held' = Held
  BY <1>3, <1>4, <1>6 DEF HeldParts
<1>8. written' <= Len(buffersToWrite')
  BY <1>1, <1>2
<1> QED
  BY <1>1, <1>2, <1>7, <1>8 DEF LinesInv, LinesInOrder

(* Steps that do not touch the buffers or what is written. *)
LEMMA OthersKeepLines ==
  ASSUME LinesInv, UNCHANGED <<currentBuffer_, nextBuffer_, buffers_, written, file, logged>>,
         pc' # "write", pc # "write", written <= Len(buffersToWrite')
  PROVE  LinesInv'
<1>1. Held' = Held
  BY DEF Held, ContentsOf, Contents
<1>2. Kept(logged') = Kept(logged)
  OBVIOUS
<1> QED
  BY <1>1, <1>2 DEF LinesInv, LinesInOrder

(* No step of any thread loses, doubles or moves a line. *)
LEMMA NextKeepsLines == AsyncInv /\ AsyncInv' /\ LinesInv /\ [Next]_vars => LinesInv'
<1> SUFFICES ASSUME AsyncInv, AsyncInv', LinesInv, [Next]_vars PROVE LinesInv'
  OBVIOUS
<1>1. ASSUME NEW line \in Line, AppendLine(line) PROVE LinesInv'
  BY <1>1, AppendLineKeepsLines
<1>2. CASE SwapBuffers
  BY <1>2, SwapBuffersKeepsLines
<1>3. CASE WriteBuffer
  BY <1>3, WriteBufferKeepsLines
<1>4. CASE KeepTwo
  BY <1>4, KeepTwoKeepsLines
<1>5. written <= Len(buffersToWrite)
  BY DEF LinesInv
<1>6. CASE Start
  <2>1. pc = "none"
    BY <1>6 DEF Start, AsyncInv
  <2> QED
    BY <1>5, <1>6, <2>1, OthersKeepLines DEF Start, front, back
<1>7. CASE Enter \/ CheckRunning \/ WaitForBuffers \/ Exit
  BY <1>5, <1>7, OthersKeepLines
  DEF Enter, CheckRunning, WaitForBuffers, Exit, front, back
<1>8. CASE Recycle
  <2>1. /\ pc = "recycle" /\ pc' = "loop" /\ buffersToWrite' = <<>>
        /\ UNCHANGED <<currentBuffer_, nextBuffer_, buffers_, written, file, logged>>
    BY <1>8 DEF Recycle, front
  <2>2. written = 0 /\ written <= Len(buffersToWrite')
    BY <2>1 DEF LinesInv
  <2> QED
    BY <2>1, <2>2, OthersKeepLines
<1>9. CASE Stop \/ Join \/ UNCHANGED vars
  <2>1. UNCHANGED <<currentBuffer_, nextBuffer_, buffers_, buffersToWrite, written, file,
                    logged, pc>>
    BY <1>9 DEF Stop, Join, vars, front, back
  <2>2. Held' = Held /\ Kept(logged') = Kept(logged)
    BY <2>1 DEF Held, ContentsOf, Contents
  <2> QED
    BY <2>1, <2>2 DEF LinesInv, LinesInOrder
<1> QED
  BY <1>1, <1>2, <1>3, <1>4, <1>6, <1>7, <1>8, <1>9 DEF Next, Backend

(* Nothing was logged yet. *)
LEMMA InitLines == Init => LinesInv
<1> SUFFICES ASSUME Init PROVE LinesInv
  OBVIOUS
<1>1. /\ file = <<>> /\ logged = <<>> /\ nextBuffer_ = <<>> /\ written = 0
      /\ buffersToWrite = <<>> /\ pc = "none" /\ buffers_ = <<>> /\ currentBuffer_ = <<>>
  BY DEF Init
<1>2. AsyncInv
  BY InitAsyncInv
<1>3. Held = Behind \o InFront
  BY <1>1, <1>2, EmptyBuffer, HeldIs DEF HeldParts
<1>4. Behind = <<>> /\ InFront = <<>>
  BY <1>1, FlattenEmpty DEF Behind, InFront, ToWrite
<1>5. Kept(<<>>) = <<>>
  <2>1. [i \in DOMAIN <<>> |-> IF Size[<<>>[i]] < Large THEN << <<>>[i] >> ELSE <<>>] = <<>>
    OBVIOUS
  <2> QED
    BY <2>1, FlattenEmpty DEF Kept
<1> QED
  BY <1>1, <1>3, <1>4, <1>5 DEF LinesInv, LinesInOrder

(* The invariant holds in every reachable state. *)
THEOREM LinesInvHolds == Spec => []LinesInv
<1> QED
  BY AsyncInvHolds, InitLines, NextKeepsLines, PTL DEF Spec

(* Whatever threads append when, and whatever the backend swaps: the lines that
   fit in a buffer are, in the order of their append(), those in the file, those
   the backend has still to write, and those in front of it. *)
THEOREM NoLineIsLost == Spec => []LinesInOrder
<1>1. LinesInv => LinesInOrder
  BY DEF LinesInv
<1> QED
  BY <1>1, LinesInvHolds, PTL

-----------------------------------------------------------------------------
(* With a LogFile and a clock.                                             *)

(* A record with the members of LogFile and of the file that is open. *)
IsLogFile(lf) ==
    /\ lf = [count_ |-> lf.count_, startOfPeriod_ |-> lf.startOfPeriod_,
             lastRoll_ |-> lf.lastRoll_, lastFlush_ |-> lf.lastFlush_,
             file_ |-> lf.file_, given |-> lf.given, onDisk |-> lf.onDisk]
    /\ lf.file_ = [opened |-> lf.file_.opened, at |-> lf.file_.at,
                   writtenBytes_ |-> lf.file_.writtenBytes_, late |-> lf.file_.late]

(* LogFile knows when it opened the file, and counts at least the appends that
   came after its period. *)
RollInv(lf, time) ==
    /\ lf.file_.opened \in Nat /\ lf.file_.opened <= time
    /\ lf.lastRoll_ = lf.file_.opened
    /\ lf.startOfPeriod_ = PeriodOf(lf.file_.opened)
    /\ lf.file_.writtenBytes_ > RollSize => lf.file_.at = lf.file_.opened
    /\ lf.count_ \in Nat /\ lf.file_.late \in Nat
    /\ lf.file_.late <= lf.count_ /\ lf.count_ < CheckEveryN
    /\ lf.file_.late > 0 => PeriodOf(time) # PeriodOf(lf.file_.opened)

-----------------------------------------------------------------------------
(* What the operators of LogFile make of their record.                     *)

(* flush() writes what fwrite() took. *)
LEMMA FlushMakes ==
  ASSUME NEW lf, IsLogFile(lf)
  PROVE  Flush(lf) =
           [count_ |-> lf.count_, startOfPeriod_ |-> lf.startOfPeriod_,
            lastRoll_ |-> lf.lastRoll_, lastFlush_ |-> lf.lastFlush_,
            file_ |-> lf.file_, given |-> lf.given, onDisk |-> lf.given]
<1> QED
  BY DEF IsLogFile, Flush

(* rollFile() in a later second closes the file and opens another. *)
LEMMA RollFileMakes ==
  ASSUME NEW lf, IsLogFile(lf), NEW time, time > lf.lastRoll_
  PROVE  RollFile(lf, time) =
           [count_ |-> lf.count_, startOfPeriod_ |-> PeriodOf(time),
            lastRoll_ |-> time, lastFlush_ |-> time,
            file_ |-> OpenedAt(time), given |-> lf.given, onDisk |-> lf.given]
<1> QED
  BY DEF RollFile

(* FileUtil::append() counts. *)
LEMMA FileAppendMakes ==
  ASSUME NEW lf, IsLogFile(lf), NEW lines, NEW bytes, NEW time
  PROVE  FileAppend(lf, lines, bytes, time) =
           [count_ |-> lf.count_, startOfPeriod_ |-> lf.startOfPeriod_,
            lastRoll_ |-> lf.lastRoll_, lastFlush_ |-> lf.lastFlush_,
            file_ |-> Grown(lf.file_, bytes, time),
            given |-> lf.given + lines, onDisk |-> lf.onDisk]
<1> DEFINE took == lf.given + lines
           grown == Grown(lf.file_, bytes, time)
<1>1. FileAppend(lf, lines, bytes, time) =
        [[lf EXCEPT !.given = took] EXCEPT !.file_ = grown]
  BY DEF FileAppend
<1> HIDE DEF took, grown
<1> QED
  BY <1>1 DEF IsLogFile, took, grown

(* The condition of append_unlocked() and its three outcomes: the file is full,
   the clock is not looked at, or it is. *)
LEMMA AppendMakes ==
  ASSUME NEW lf, IsLogFile(lf), NEW lines, NEW bytes, NEW time,
         NEW wrote, wrote = FileAppend(lf, lines, bytes, time)
  PROVE  /\ IsLogFile(wrote)
         /\ wrote.given = lf.given + lines /\ wrote.count_ = lf.count_
         /\ wrote.lastRoll_ = lf.lastRoll_ /\ wrote.startOfPeriod_ = lf.startOfPeriod_
         /\ wrote.file_ = Grown(lf.file_, bytes, time)
<1> DEFINE grown == Grown(lf.file_, bytes, time)
<1>1. wrote = [count_ |-> lf.count_, startOfPeriod_ |-> lf.startOfPeriod_,
               lastRoll_ |-> lf.lastRoll_, lastFlush_ |-> lf.lastFlush_,
               file_ |-> grown, given |-> lf.given + lines, onDisk |-> lf.onDisk]
  BY FileAppendMakes
<1>2. grown = [opened |-> grown.opened, at |-> grown.at,
               writtenBytes_ |-> grown.writtenBytes_, late |-> grown.late]
  BY DEF Grown
<1> HIDE DEF grown
<1>3. IsLogFile(wrote)
  BY <1>1, <1>2 DEF IsLogFile
<1> QED
  BY <1>1, <1>3 DEF grown

-----------------------------------------------------------------------------
(* Periods and rolls.                                                      *)

(* A period starts no later than what is in it, and the next one after it. *)
LEMMA PeriodHolds ==
  ASSUME NEW a \in Nat
  PROVE  PeriodOf(a) \in Nat /\ PeriodOf(a) <= a /\ a < PeriodOf(a) + RollPerSeconds
<1>1. RollPerSeconds \in Nat /\ RollPerSeconds > 0
  BY LogFileAssumption DEF LogFileAssumption
<1>2. a \div RollPerSeconds \in Nat /\ a % RollPerSeconds \in Nat
      /\ a % RollPerSeconds < RollPerSeconds
  BY <1>1
<1>3. a = RollPerSeconds * (a \div RollPerSeconds) + (a % RollPerSeconds)
  BY <1>1
<1>4. (a \div RollPerSeconds) * RollPerSeconds = RollPerSeconds * (a \div RollPerSeconds)
  BY <1>1, <1>2
<1>5. RollPerSeconds * (a \div RollPerSeconds) \in Nat
  BY <1>1, <1>2
<1> DEFINE q == RollPerSeconds * (a \div RollPerSeconds)
           r == a % RollPerSeconds
<1>6. q \in Nat /\ r \in Nat /\ r < RollPerSeconds /\ a = q + r
  BY <1>2, <1>3, <1>5
<1>7. PeriodOf(a) = q
  BY <1>4 DEF PeriodOf
<1> HIDE DEF q, r
<1> QED
  BY <1>1, <1>6, <1>7

(* Who is between two moments of a period is in it. *)
LEMMA PeriodBetween ==
  ASSUME NEW a \in Nat, NEW b \in Nat, NEW c \in Nat, a <= b, b <= c,
         PeriodOf(a) = PeriodOf(c)
  PROVE  PeriodOf(b) = PeriodOf(a)
<1>1. RollPerSeconds \in Nat /\ RollPerSeconds > 0
  BY LogFileAssumption DEF LogFileAssumption
<1> DEFINE k == RollPerSeconds
           x == a \div k
           y == b \div k
<1>2. x \in Nat /\ y \in Nat /\ PeriodOf(a) = x * k /\ PeriodOf(b) = y * k
  BY <1>1 DEF PeriodOf
<1> HIDE DEF k, x, y
<1>3. x * k <= b /\ b < x * k + k /\ y * k <= b /\ b < y * k + k
  <2>1. /\ PeriodOf(a) <= a /\ PeriodOf(b) <= b
        /\ b < PeriodOf(b) + k /\ c < PeriodOf(c) + k
    BY PeriodHolds DEF k
  <2>2. x * k \in Nat /\ y * k \in Nat
    BY <1>1, <1>2 DEF k
  <2> QED
    BY <1>1, <1>2, <2>1, <2>2 DEF k
<1>4. k \in Nat /\ k > 0
  BY <1>1 DEF k
<1>5. ~(y < x)
  <2>1. ASSUME y + 1 <= x PROVE (y + 1) * k <= x * k
    BY <1>2, <1>4, <2>1
  <2>2. (y + 1) * k = y * k + k
    BY <1>2, <1>4
  <2> QED
    BY <1>2, <1>3, <1>4, <2>1, <2>2
<1>6. ~(x < y)
  <2>1. ASSUME x + 1 <= y PROVE (x + 1) * k <= y * k
    BY <1>2, <1>4, <2>1
  <2>2. (x + 1) * k = x * k + k
    BY <1>2, <1>4
  <2> QED
    BY <1>2, <1>3, <1>4, <2>1, <2>2
<1> QED
  BY <1>2, <1>5, <1>6

(* A new file satisfies what LogFile knows of its file. *)
LEMMA RolledInv ==
  ASSUME NEW lf, IsLogFile(lf), NEW time \in Nat, time > lf.lastRoll_,
         lf.count_ \in Nat, lf.count_ < CheckEveryN,
         NEW rolled, rolled = RollFile(lf, time)
  PROVE  /\ IsLogFile(rolled) /\ RollInv(rolled, time)
         /\ rolled.given = lf.given
<1>1. rolled = [count_ |-> lf.count_, startOfPeriod_ |-> PeriodOf(time),
                lastRoll_ |-> time, lastFlush_ |-> time,
                file_ |-> OpenedAt(time), given |-> lf.given, onDisk |-> lf.given]
  BY RollFileMakes
<1>2. rolled.file_ = [opened |-> time, at |-> time, writtenBytes_ |-> 0, late |-> 0]
  BY <1>1 DEF OpenedAt
<1>3. RollSize \in Nat
  BY LogFileAssumption DEF LogFileAssumption
<1>4. IsLogFile(rolled)
  BY <1>1, <1>2 DEF IsLogFile
<1>5. RollInv(rolled, time)
  <2>1. rolled.lastRoll_ = time /\ rolled.startOfPeriod_ = PeriodOf(time)
        /\ rolled.count_ = lf.count_
    BY <1>1
  <2> QED
    BY <1>2, <1>3, <2>1 DEF RollInv
<1> QED
  BY <1>1, <1>4, <1>5

(* The file that the constructor opens. *)
LEMMA NewLogFileMakes ==
  ASSUME NEW time \in Nat, time > 0
  PROVE  /\ IsLogFile(NewLogFile(time)) /\ RollInv(NewLogFile(time), time)
         /\ NewLogFile(time).given = 0 /\ NewLogFile(time).onDisk = 0
<1> DEFINE none == [count_ |-> 0, startOfPeriod_ |-> 0, lastRoll_ |-> 0,
                    lastFlush_ |-> 0, file_ |-> OpenedAt(time), given |-> 0,
                    onDisk |-> 0]
<1>1. NewLogFile(time) = RollFile(none, time)
  BY DEF NewLogFile
<1>2. IsLogFile(none)
  BY DEF IsLogFile, OpenedAt
<1>3. none.lastRoll_ = 0 /\ none.count_ = 0 /\ none.given = 0
  OBVIOUS
<1> HIDE DEF none
<1>4. 0 < CheckEveryN
  BY LogFileAssumption DEF LogFileAssumption
<1>5. /\ IsLogFile(RollFile(none, time)) /\ RollInv(RollFile(none, time), time)
      /\ RollFile(none, time).given = 0
  BY <1>2, <1>3, <1>4, RolledInv
<1>6. RollFile(none, time).onDisk = none.given
  BY <1>2, <1>3, RollFileMakes
<1> QED
  BY <1>1, <1>3, <1>5, <1>6

(* flush() leaves alone what LogFile knows of its file. *)
LEMMA FlushKeeps ==
  ASSUME NEW lf, IsLogFile(lf), NEW time, RollInv(lf, time)
  PROVE  /\ IsLogFile(Flush(lf)) /\ RollInv(Flush(lf), time)
         /\ Flush(lf).given = lf.given /\ Flush(lf).onDisk = lf.given
<1>1. Flush(lf) = [count_ |-> lf.count_, startOfPeriod_ |-> lf.startOfPeriod_,
                   lastRoll_ |-> lf.lastRoll_, lastFlush_ |-> lf.lastFlush_,
                   file_ |-> lf.file_, given |-> lf.given, onDisk |-> lf.given]
  BY FlushMakes
<1>2. IsLogFile(Flush(lf))
  BY <1>1 DEF IsLogFile
<1> QED
  BY <1>1, <1>2 DEF RollInv

(* append_unlocked() keeps it as well: a full file is rolled unless it is of
   this second, and the last of CheckEveryN appends rolls one of an old period. *)
LEMMA AppendKeeps ==
  ASSUME NEW lf, IsLogFile(lf), NEW lines, NEW bytes, NEW time \in Nat,
         RollInv(lf, time),
         NEW next, next = AppendInLock(lf, lines, bytes, time)
  PROVE  IsLogFile(next) /\ RollInv(next, time) /\ next.given = lf.given + lines
<1> USE LogFileAssumption DEF LogFileAssumption
<1>1. PICK wrote : wrote = FileAppend(lf, lines, bytes, time)
  OBVIOUS
<1>2. /\ IsLogFile(wrote)
      /\ wrote.given = lf.given + lines /\ wrote.count_ = lf.count_
      /\ wrote.lastRoll_ = lf.lastRoll_ /\ wrote.startOfPeriod_ = lf.startOfPeriod_
      /\ wrote.file_ = Grown(lf.file_, bytes, time)
  BY <1>1, AppendMakes
<1>3. /\ wrote.file_.opened = lf.file_.opened /\ wrote.file_.at = time
      /\ wrote.file_.late = IF PeriodOf(time) = PeriodOf(lf.file_.opened)
                            THEN lf.file_.late ELSE lf.file_.late + 1
  BY <1>2 DEF Grown
<1>4. next = IF wrote.file_.writtenBytes_ > RollSize THEN RollFile(wrote, time)
             ELSE IF lf.count_ + 1 < CheckEveryN
                  THEN [wrote EXCEPT !.count_ = wrote.count_ + 1]
                  ELSE CheckTime([wrote EXCEPT !.count_ = 0], time)
  BY <1>1 DEF AppendInLock
<1>5. /\ lf.count_ \in Nat /\ lf.count_ < CheckEveryN
      /\ lf.file_.late \in Nat /\ lf.file_.late <= lf.count_
      /\ lf.file_.opened \in Nat /\ lf.file_.opened <= time
      /\ lf.lastRoll_ = lf.file_.opened
      /\ lf.startOfPeriod_ = PeriodOf(lf.file_.opened)
      /\ lf.file_.late > 0 => PeriodOf(time) # PeriodOf(lf.file_.opened)
  BY DEF RollInv
<1>6. wrote.file_.late \in Nat /\ wrote.file_.late <= lf.count_ + 1
      /\ (wrote.file_.late > 0 => PeriodOf(time) # PeriodOf(lf.file_.opened))
  BY <1>3, <1>5
<1>7. CASE wrote.file_.writtenBytes_ > RollSize /\ time > lf.lastRoll_
  BY <1>2, <1>4, <1>5, <1>7, RolledInv
<1>8. CASE wrote.file_.writtenBytes_ > RollSize /\ ~(time > lf.lastRoll_)
  <2>1. next = wrote /\ time = lf.file_.opened
    BY <1>2, <1>4, <1>5, <1>8 DEF RollFile
  <2>2. wrote.file_.late = 0
    BY <1>6, <2>1
  <2> QED
    BY <1>2, <1>3, <1>5, <2>1, <2>2 DEF RollInv
<1>9. CASE ~(wrote.file_.writtenBytes_ > RollSize) /\ lf.count_ + 1 < CheckEveryN
  <2>1. next = [wrote EXCEPT !.count_ = wrote.count_ + 1]
    BY <1>4, <1>9
  <2>2. /\ IsLogFile(next) /\ next.count_ = lf.count_ + 1 /\ next.file_ = wrote.file_
        /\ next.lastRoll_ = wrote.lastRoll_ /\ next.given = wrote.given
        /\ next.startOfPeriod_ = wrote.startOfPeriod_
    BY <1>2, <2>1 DEF IsLogFile
  <2> QED
    BY <1>2, <1>3, <1>5, <1>6, <1>9, <2>2 DEF RollInv
<1>10. CASE ~(wrote.file_.writtenBytes_ > RollSize) /\ ~(lf.count_ + 1 < CheckEveryN)
  <2>1. PICK zero : zero = [wrote EXCEPT !.count_ = 0]
    OBVIOUS
  <2>2. /\ IsLogFile(zero) /\ zero.count_ = 0 /\ zero.file_ = wrote.file_
        /\ zero.lastRoll_ = wrote.lastRoll_ /\ zero.given = wrote.given
        /\ zero.startOfPeriod_ = wrote.startOfPeriod_
    BY <1>2, <2>1 DEF IsLogFile
  <2>3. next = CheckTime(zero, time)
    BY <1>4, <1>10, <2>1
  <2>4. CASE PeriodOf(time) # zero.startOfPeriod_
    <3>1. next = RollFile(zero, time)
      BY <2>3, <2>4 DEF CheckTime
    <3>2. time > zero.lastRoll_
      BY <1>2, <1>5, <2>2, <2>4
    <3>3. zero.count_ \in Nat /\ zero.count_ < CheckEveryN
      BY <2>2
    <3> QED
      BY <1>2, <2>2, <3>1, <3>2, <3>3, RolledInv
  <2>5. CASE PeriodOf(time) = zero.startOfPeriod_
    <3>1. wrote.file_.late = 0
      BY <1>2, <1>5, <1>6, <2>2, <2>5
    <3>2. PICK seen : seen = [zero EXCEPT !.lastFlush_ = time]
      OBVIOUS
    <3>3. /\ IsLogFile(seen) /\ seen.count_ = 0 /\ seen.file_ = wrote.file_
          /\ seen.lastRoll_ = wrote.lastRoll_ /\ seen.given = wrote.given
          /\ seen.startOfPeriod_ = wrote.startOfPeriod_
      BY <2>2, <3>2 DEF IsLogFile
    <3>4. RollInv(zero, time) /\ RollInv(seen, time)
      BY <1>2, <1>3, <1>5, <1>10, <2>2, <3>1, <3>3 DEF RollInv
    <3>5. next = Flush(seen) \/ next = zero
      BY <2>3, <2>5, <3>2 DEF CheckTime
    <3> QED
      BY <1>2, <2>2, <3>3, <3>4, <3>5, FlushKeeps
  <2> QED
    BY <2>4, <2>5
<1> QED
  BY <1>7, <1>8, <1>9, <1>10

-----------------------------------------------------------------------------
(* The specification with the file.                                        *)

(* A step of the backend with its file is a step of the backend. *)
LEMMA FileStepIsStep == [FileNext]_fileVars => [Next]_vars
<1> QED
  BY DEF FileNext, FileBackend, FileEnter, FileWriteBuffer, FileRecycle, FileExit,
         Tick, fileVars, Next, Backend

(* What LogFile does never changes what the backend does. *)
THEOREM FileImplements == FileSpec => Spec
<1>1. FileInit => Init
  BY DEF FileInit
<1> QED
  BY <1>1, FileStepIsStep, PTL DEF FileSpec, Spec

(* No assertion of the backend fails with a LogFile under it. *)
THEOREM FileAssertionsHold == FileSpec => []BackendAssertions
<1> QED
  BY FileImplements, AssertionsHold, PTL

(* LogFile was given the lines of file; what it took is on disk except while
   the backend writes. *)
FileInv ==
    /\ now \in Nat /\ now > 0
    /\ IsLogFile(output) /\ RollInv(output, now)
    /\ file \in Seq(Line) /\ written \in Nat
    /\ output.given = Len(file)
    /\ pc \in {"none", "entry"} => file = <<>>
    /\ pc \notin {"write", "recycle"} => output.onDisk = Len(file)

(* A new file that got nothing. *)
LEMMA InitFileInv == FileInit => FileInv
<1> SUFFICES ASSUME FileInit PROVE FileInv
  OBVIOUS
<1>1. now = 1 /\ file = <<>> /\ written = 0 /\ output = NewLogFile(1) /\ pc = "none"
  BY DEF FileInit, Init
<1>2. /\ IsLogFile(output) /\ RollInv(output, 1)
      /\ output.given = 0 /\ output.onDisk = 0
  BY <1>1, NewLogFileMakes
<1>3. file \in Seq(Line) /\ Len(file) = 0
  BY <1>1
<1> QED
  BY <1>1, <1>2, <1>3 DEF FileInv

(* A buffer is given to the file. *)
LEMMA WriteBufferKeepsFile ==
  ASSUME AsyncInv, FileInv, FileWriteBuffer
  PROVE  FileInv'
<1> DEFINE data == buffersToWrite[written + 1]
<1>1. /\ pc = "write" /\ pc' = "write" /\ written' = written + 1 /\ now' = now
      /\ file' = file \o data /\ written < Len(buffersToWrite)
      /\ output' = AppendInLock(output, Len(data), Length(data), now)
  BY DEF FileWriteBuffer, WriteBuffer
<1>2. data \in Seq(Line)
  BY <1>1 DEF FileInv, AsyncInv, Buffer
<1> HIDE DEF data
<1>3. file' \in Seq(Line) /\ Len(file') = Len(file) + Len(data)
  BY <1>1, <1>2 DEF FileInv
<1>4. /\ IsLogFile(output') /\ RollInv(output', now)
      /\ output'.given = output.given + Len(data)
  BY <1>1, AppendKeeps DEF FileInv
<1> QED
  BY <1>1, <1>3, <1>4 DEF FileInv

(* Time passes: a late append stays late. *)
LEMMA TickKeepsFile ==
  ASSUME FileInv, Tick
  PROVE  FileInv'
<1>1. now' = now + 1 /\ UNCHANGED <<output, file, written, pc>>
  BY DEF Tick, vars, back
<1>2. now \in Nat /\ now > 0 /\ output.file_.opened \in Nat
      /\ output.file_.opened <= now
  BY DEF FileInv, RollInv
<1>3. PeriodOf(now') = PeriodOf(output.file_.opened)
        => PeriodOf(now) = PeriodOf(output.file_.opened)
  BY <1>1, <1>2, PeriodBetween
<1>4. RollInv(output, now')
  BY <1>1, <1>2, <1>3 DEF FileInv, RollInv
<1> QED
  BY <1>1, <1>2, <1>4 DEF FileInv

(* No step breaks the invariant. *)
LEMMA NextKeepsFileInv == AsyncInv /\ FileInv /\ [FileNext]_fileVars => FileInv'
<1> SUFFICES ASSUME AsyncInv, FileInv, [FileNext]_fileVars PROVE FileInv'
  OBVIOUS
<1>1. ASSUME UNCHANGED <<output, now, file, written>>,
             pc' \in {"none", "entry"} => pc \in {"none", "entry"},
             pc' \notin {"write", "recycle"} => pc \notin {"write", "recycle"}
      PROVE  FileInv'
  BY <1>1 DEF FileInv
<1>2. ASSUME NEW line \in Line, AppendLine(line), UNCHANGED <<now, output>>
      PROVE  FileInv'
  BY <1>1, <1>2 DEF AppendLine, back
<1>3. CASE Start /\ UNCHANGED <<now, output>>
  <2>1. owner = "new" /\ pc' = "entry" /\ UNCHANGED <<file, written>>
    BY <1>3 DEF Start, back
  <2>2. pc = "none"
    BY <2>1 DEF AsyncInv
  <2> QED
    BY <1>1, <1>3, <2>1, <2>2
<1>4. CASE (Stop \/ Join) /\ UNCHANGED <<now, output>>
  BY <1>1, <1>4 DEF Stop, Join, back
<1>5. CASE FileEnter
  <2>1. pc = "entry" /\ pc' \in {"loop", "aborted"} /\ UNCHANGED <<file, written, now>>
        /\ output' = NewLogFile(now)
    BY <1>5 DEF FileEnter, Enter, back
  <2>2. file = <<>> /\ Len(file) = 0
    BY <2>1 DEF FileInv
  <2>3. /\ IsLogFile(output') /\ RollInv(output', now)
        /\ output'.given = 0 /\ output'.onDisk = 0
    BY <2>1, NewLogFileMakes DEF FileInv
  <2> QED
    BY <2>1, <2>2, <2>3 DEF FileInv
<1>6. CASE FileWriteBuffer
  BY <1>6, WriteBufferKeepsFile
<1>7. CASE FileRecycle \/ FileExit
  <2>1. /\ pc' \in {"loop", "done"} /\ UNCHANGED <<file, written, now>>
        /\ output' = Flush(output)
    BY <1>7 DEF FileRecycle, Recycle, FileExit, Exit, back
  <2>2. /\ IsLogFile(output') /\ RollInv(output', now)
        /\ output'.given = output.given /\ output'.onDisk = output.given
    BY <2>1, FlushKeeps DEF FileInv
  <2> QED
    BY <2>1, <2>2 DEF FileInv
<1>8. CASE (CheckRunning \/ WaitForBuffers \/ SwapBuffers) /\ UNCHANGED <<now, output>>
  BY <1>1, <1>8 DEF CheckRunning, WaitForBuffers, SwapBuffers, back
<1>9. CASE KeepTwo /\ UNCHANGED <<now, output>>
  <2>1. pc = "write" /\ pc' = "recycle" /\ written' = 0 /\ UNCHANGED <<file, now, output>>
    BY <1>9 DEF KeepTwo
  <2> QED
    BY <2>1 DEF FileInv
<1>10. CASE Tick
  BY <1>10, TickKeepsFile
<1>11. CASE UNCHANGED fileVars
  BY <1>1, <1>11 DEF fileVars, vars, back
<1> QED
  BY <1>2, <1>3, <1>4, <1>5, <1>6, <1>7, <1>8, <1>9, <1>10, <1>11
  DEF FileNext, FileBackend

(* The invariant holds in every reachable state. *)
THEOREM FileInvHolds == FileSpec => []FileInv
<1>1. FileSpec => []AsyncInv
  BY FileImplements, AsyncInvHolds, PTL
<1> QED
  BY <1>1, InitFileInv, NextKeepsFileInv, PTL DEF FileSpec

(* Whatever the backend has taken is on disk before it waits for more, and when
   its thread has ended, over all the files it was rolled into. *)
THEOREM FlushedWhenItWaits == FileSpec => []FlushedWhenIdle
<1>1. FileInv => FlushedWhenIdle
  BY DEF FileInv, FlushedWhenIdle
<1> QED
  BY <1>1, FileInvHolds, PTL

(* A file exceeds rollSize_ only in the second it was opened in, and takes less
   than checkEveryN_ appends after its period. *)
THEOREM FilesAreBounded == FileSpec => []FileBounded
<1>1. FileInv => FileBounded
  <2>1. CheckEveryN \in Nat
    BY LogFileAssumption DEF LogFileAssumption
  <2> QED
    BY <2>1 DEF FileInv, RollInv, FileBounded
<1> QED
  BY <1>1, FileInvHolds, PTL
=============================================================================
