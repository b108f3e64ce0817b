------------------------------ MODULE Logging ------------------------------
(***************************************************************************)
(* Logger (log/Logging.cpp) on AsyncLogging: a log statement streams a line*)
(* into its own LogStream, and the destructor passes it to g_output, which *)
(* is AsyncLogging::append().  Until then the line belongs to one thread,  *)
(* so that the statement is the step AppendLine.  A statement below        *)
(* g_logLevel does nothing.  abort() after a FATAL line ends the process   *)
(* like any crash: no step follows.                                        *)
(***************************************************************************)
EXTENDS AsyncLogFile, LogStream

CONSTANT Statement     \* the lines that log statements make; others are raw

Text(characters) == [kind |-> "text", text |-> characters]
Number(v) == [kind |-> "integer", value |-> v]

(* The Logger's constructors: time, thread, level; LOG_TRACE and LOG_DEBUG add
   the function.  No constructor passes an errno. *)
Header(statement) ==
    <<Text(<<"time">>), Text(<<" Thread:">>), Number(statement.tid), Text(<<" ">>),
      Text(<<statement.level>>)>>
    \o (IF statement.level \in {"TRACE", "DEBUG"}
        THEN <<Text(<<"func">>), Text(<<" ">>)>>
        ELSE <<>>)

(* finish() *)
Trailer(statement) ==
    <<Text(<<" - ">>), Text(<<"basename">>), Text(<<":">>), Number(statement.line),
      Text(<<"\n">>)>>

PiecesOf(statement) == Header(statement) \o statement.message \o Trailer(statement)

(* What ~Logger() passes to g_output. *)
LineText ==
    [line \in Line |->
       IF line \in DOMAIN Statement THEN Streamed(PiecesOf(Statement[line]))
                                    ELSE [i \in 1 .. Size[line] |-> "raw"]]

ASSUME LoggingAssumption ==
    /\ DOMAIN Statement \subseteq Line
    /\ \A line \in DOMAIN Statement : Size[line] = Len(LineText[line])

-----------------------------------------------------------------------------
(* The text a reader of the file wants.                                    *)

(* The decimal notation of v. *)
Decimal(v) ==
    LET n == IF v < 0 THEN -v ELSE v
        k == CHOOSE i \in 1 .. 9 : n < 10 ^ i /\ (i > 1 => n >= 10 ^ (i - 1))
    IN  (IF v < 0 THEN <<"-">> ELSE <<>>)
        \o [i \in 1 .. k |-> ToString((n \div 10 ^ (k - i)) % 10)]

Wanted(piece) ==
    CASE piece.kind = "integer" -> Decimal(piece.value)
      [] piece.kind = "null"    -> <<"(null)">>
      [] OTHER                  -> piece.text

(* What must be free in the stream for a piece: one character more than a text
   has, and the same for any number. *)
Room(piece) ==
    IF piece.kind \in {"integer", "double"} THEN kMaxNumericSize ELSE Len(Wanted(piece)) + 1

TextOf(pieces, kept) ==
    FlattenSeq([i \in DOMAIN pieces |-> IF i \in kept THEN Wanted(pieces[i]) ELSE <<>>])

(* The pieces that have room behind those of them that come before. *)
Fitting(pieces) ==
    CHOOSE kept \in SUBSET DOMAIN pieces :
        \A i \in DOMAIN pieces :
            i \in kept <=>
                Len(TextOf(SubSeq(pieces, 1, i - 1), kept)) + Room(pieces[i]) <= kSmallBuffer

WantedText ==
    [line \in Line |->
       IF line \in DOMAIN Statement
       THEN LET pieces == PiecesOf(Statement[line]) IN TextOf(pieces, Fitting(pieces))
       ELSE LineText[line]]

(* The text that has left append(), read through the file, the buffers being
   written, the full ones and the current one, is that of the statements in the
   order in which they were logged: no line is lost, duplicated or reordered by
   the swaps of threadFunc(), and numbers are decimal.  A piece of a line is whole
   or missing, and missing only if it has no room in the stream (LogStream.cpp
   lines 12 and 94, FixedBuffer.h line 23); so a line is without its newline just
   if all but one character of the stream are full.  Lines too long for any
   buffer of AsyncLogging are missing.                                       *)
TextInOrder ==
    LET kept == Kept(logged)
    IN  /\ [i \in DOMAIN Held |-> LineText[Held[i]]]
             = [i \in DOMAIN kept |-> WantedText[kept[i]]]
        /\ \A line \in Range(Held) \cap DOMAIN Statement :
              Last(LineText[line]) # "\n" <=> Len(LineText[line]) = kSmallBuffer - 1
=============================================================================
