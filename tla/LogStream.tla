----------------------------- MODULE LogStream -----------------------------
(***************************************************************************)
(* LogStream (log/LogStream.cpp) over FixedBuffer<kSmallBuffer>: what its  *)
(* operators << make of text and of numbers.  A stream is the sequence of  *)
(* its characters; a text of the program is a few of them.                 *)
(***************************************************************************)
EXTENDS Integers, Sequences, SequencesExt

CONSTANTS kSmallBuffer, kMaxNumericSize

ASSUME LogStreamAssumption == {kSmallBuffer, kMaxNumericSize} \subseteq Nat

Avail(stream) == kSmallBuffer - Len(stream)

(* FixedBuffer::append(): all of it or nothing. *)
PutText(stream, text) ==
    IF Avail(stream) > Len(text) THEN stream \o text ELSE stream

(* The table's middle is 0, so that a remainder of either sign finds its digit. *)
digits == <<"9", "8", "7", "6", "5", "4", "3", "2", "1",
            "0", "1", "2", "3", "4", "5", "6", "7", "8", "9">>
ZeroPlus(digit) == digits[10 + digit]

(* The loop of formatInteger(): the lowest digit first. *)
LowestFirst[v \in Nat] ==
    IF v = 0 THEN <<>> ELSE <<ZeroPlus(v % 10)>> \o LowestFirst[v \div 10]

(* Faulty variant of NumberText: the digits stay as the loop writes them. *)
NumberUnreversed(v) ==
    IF v < 0 THEN LowestFirst[-v] \o <<"-">> ELSE LowestFirst[v]

(* The least int, whose negation overflows, is left out. *)
NumberText(v) ==
    Reverse(IF v < 0 THEN LowestFirst[-v] \o <<"-">> ELSE LowestFirst[v])

(* A number needs room for the longest of all. *)
PutNumber(stream, text) ==
    IF Avail(stream) >= kMaxNumericSize THEN stream \o text ELSE stream

(* operator<<: integers of any width, a double (as snprintf prints it), text, a
   null pointer to text. *)
Insert(stream, piece) ==
    CASE piece.kind = "integer" -> PutNumber(stream, NumberText(piece.value))
      [] piece.kind = "double"  -> PutNumber(stream, piece.text)
      [] piece.kind = "text"    -> PutText(stream, piece.text)
      [] piece.kind = "null"    -> PutText(stream, <<"(null)">>)

Streamed(pieces) == FoldLeft(Insert, <<>>, pieces)
=============================================================================
