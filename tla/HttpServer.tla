----------------------------- MODULE HttpServer -----------------------------
(***************************************************************************)
(* HttpServer, HttpContext and HttpRequest (in http/): one connection of   *)
(* the server, whose peer sends a script of requests.  Any number of bytes *)
(* may arrive with a read; onMessage() parses what is in the input buffer  *)
(* with a new HttpContext and answers one request at most.                 *)
(*                                                                         *)
(* Text is a sequence of words; the characters that the parser looks for   *)
(* are words of their own.  One step is a pass of parseRequest()'s loop.   *)
(***************************************************************************)
EXTENDS Naturals, Sequences, SequencesExt

CONSTANTS
    Word,          \* what a text is made of
    Script         \* the sequences of requests that the peer may send

CR == "CR"
LF == "LF"
SP == "SP"
Token == Word \ {CR, LF, SP}

(* A request that can be sent: what its parts are made of, and no field twice.
   The method and the version may be any, and so may what is in a body. *)
Request ==
    {r \in [method : Token, path : Token \ {"?"}, query : Seq(Token), version : Token,
            headers : Seq((Token \ {":"}) \X Token), body : Seq(Word)] :
        /\ r.query # <<>> => r.query[1] = "?"
        /\ \A i, j \in DOMAIN r.headers : r.headers[i][1] = r.headers[j][1] => i = j}

ASSUME HttpServerAssumption ==
    /\ {CR, LF, SP, ":", "HTTP/1."} \subseteq Word
    /\ Script \subseteq Seq(Request)

VARIABLES
    script,        \* what the peer sends, chosen once
    httpCallback_, \* "default" or "page", the user's; chosen once
    unread,        \* what it sent and no read has taken
    inputBuffer_,  \* the connection's
    connState,     \* the connection's state_
    pc,            \* "idle", in "parse" or in "onRequest"
    state_,        \* of the HttpContext
    request_,      \* of the HttpContext
    answers,       \* what was given to send() and taken by it
    wire,          \* what send() gave the kernel or outputBuffer_ for each
    dropped        \* an onMessage() ended between a request line and the
                   \* end of the headers: the next one starts anew

peer    == <<script, httpCallback_>>
context == <<state_, request_>>
vars    == <<peer, unread, inputBuffer_, connState, pc, context, answers, wire, dropped>>

Methods == {"GET", "POST", "HEAD", "PUT", "DELETE"}

NoRequest == [method |-> "invalid", path |-> <<>>, query |-> <<>>,
              version |-> "unknown", headers |-> <<>>]

-----------------------------------------------------------------------------
(* Text.                                                                   *)

(* std::find(): the first place of word from i on, 0 if there is none. *)
Find(text, word, i) ==
    LET places == {j \in i..Len(text) : text[j] = word}
    IN  IF places = {} THEN 0 ELSE Min(places)

Before(text, i) == SubSeq(text, 1, i - 1)
From(text, i)   == SubSeq(text, i, Len(text))

(* Buffer::findCRLF(): 0 for nullptr. *)
FindCRLF(text) ==
    LET crlfs == {i \in 1..(Len(text) - 1) : text[i] = CR /\ text[i + 1] = LF}
    IN  IF crlfs = {} THEN 0 ELSE Min(crlfs)

(* The places where text has no space. *)
Inked(text) == {i \in 1..Len(text) : text[i] # SP}

TrimRight(text) == IF Inked(text) = {} THEN <<>> ELSE SubSeq(text, 1, Max(Inked(text)))
TrimLeft(text)  == IF Inked(text) = {} THEN <<>> ELSE From(text, Min(Inked(text)))

-----------------------------------------------------------------------------
(* HttpRequest, HttpContext.                                               *)

(* The request of a request line, or NoRequest where processRequestLine()
   returns false. *)
ProcessRequestLine(line) ==
    LET space    == Find(line, SP, 1)
        space2   == Find(line, SP, space + 1)
        question == Find(Before(line, space2), "?", space + 1)
        pathEnd  == IF question = 0 THEN space2 ELSE question
        version  == From(line, space2 + 1)
        succeed  == /\ space # 0
                    /\ \E m \in Methods : Before(line, space) = <<m>>
                    /\ space2 # 0
                    /\ \E v \in {"0", "1"} : version = <<"HTTP/1.", v>>
    IN  IF succeed
        THEN [NoRequest EXCEPT !.method = line[1],
                               !.path = SubSeq(line, space + 1, pathEnd - 1),
                               !.query = SubSeq(line, pathEnd, space2 - 1),
                               !.version = version[2]]
        ELSE NoRequest

(* headers_[field] = value. *)
With(headers, field, value) ==
    [f \in DOMAIN headers \cup {field} |-> IF f = field THEN value ELSE headers[f]]

(* addHeader(): a later line with the same field overwrites the value. *)
AddHeader(request, line) ==
    LET colon == Find(line, ":", 1)
        value == TrimRight(TrimLeft(From(line, colon + 1)))
    IN  [request EXCEPT !.headers = With(@, Before(line, colon), value)]

GetHeader(request, field) ==
    IF <<field>> \in DOMAIN request.headers THEN request.headers[<<field>>] ELSE <<>>

-----------------------------------------------------------------------------
(* TcpConnection, in its loop.                                             *)

(* Faulty variant of Send: sends after shutdown(), too. *)
SendAlways(answer, bytes) == answers' = Append(answers, answer) /\ wire' = Append(wire, bytes)

Send(answer, bytes) ==
    IF connState = "kConnected"
    THEN answers' = Append(answers, answer) /\ wire' = Append(wire, bytes)
    ELSE UNCHANGED <<answers, wire>>

(* The part of a Buffer behind what was appended to it. *)
Unwritten == [status |-> 0, contentLength |-> FALSE, to |-> NoRequest]

(* send() of a string sends its text; send() of a Buffer takes as many bytes, but
   from beginWrite() on (line 77). *)
SendText(answer)   == Send(answer, answer)
SendBuffer(answer) == Send(answer, Unwritten)

Shutdown == connState' = "kDisconnecting"

(* handleRead(): n words arrive, and onMessage() makes a context. *)
HandleRead(n) ==
    /\ pc = "idle"
    /\ inputBuffer_' = inputBuffer_ \o SubSeq(unread, 1, n)
    /\ unread' = From(unread, n + 1)
    /\ state_' = "kExpectRequestLine"
    /\ request_' = NoRequest
    /\ pc' = "parse"
    /\ UNCHANGED <<peer, connState, answers, wire, dropped>>

-----------------------------------------------------------------------------
(* onMessage().                                                            *)

BadRequest == [status |-> 400, contentLength |-> FALSE, to |-> NoRequest]

(* parseRequest() returns false: the line stays in the buffer. *)
ReturnBad ==
    /\ SendText(BadRequest)
    /\ Shutdown
    /\ pc' = "idle"
    /\ UNCHANGED <<inputBuffer_, context, dropped>>

(* It returns true without having got all: the context is destroyed. *)
ReturnIncomplete ==
    /\ pc' = "idle"
    /\ dropped' = (dropped \/ state_ = "kExpectHeaders")
    /\ UNCHANGED <<inputBuffer_, connState, context, answers, wire>>

(* Faulty variant of AfterRequestLine: a POST goes on with its body. *)
BodyAfterPost(request) ==
    state_' = IF request.method = "POST" THEN "kExpectBody" ELSE "kExpectHeaders"

AfterRequestLine(request) == state_' = "kExpectHeaders"

Rest(crlf) == From(inputBuffer_, crlf + 2)

ParseRequestLine ==
    /\ pc = "parse" /\ state_ = "kExpectRequestLine"
    /\ \E crlf \in {FindCRLF(inputBuffer_)} :
          IF crlf = 0 THEN ReturnIncomplete
          ELSE \E request \in {ProcessRequestLine(Before(inputBuffer_, crlf))} :
                 \/ request = NoRequest /\ ReturnBad
                 \/ /\ request # NoRequest
                    /\ request_' = request
                    /\ inputBuffer_' = Rest(crlf)
                    /\ AfterRequestLine(request)
                    /\ UNCHANGED <<connState, pc, answers, wire, dropped>>
    /\ UNCHANGED <<peer, unread>>

(* A line without a colon, empty or not, ends the request. *)
ParseHeader ==
    /\ pc = "parse" /\ state_ = "kExpectHeaders"
    /\ \E crlf \in {FindCRLF(inputBuffer_)} :
          IF crlf = 0 THEN ReturnIncomplete
          ELSE \E line \in {Before(inputBuffer_, crlf)} :
                 /\ IF Find(line, ":", 1) # 0
                    THEN /\ request_' = AddHeader(request_, line)
                         /\ UNCHANGED <<state_, pc>>
                    ELSE /\ state_' = "kGotAll"
                         /\ pc' = "onRequest"
                         /\ UNCHANGED request_
                 /\ inputBuffer_' = Rest(crlf)
                 /\ UNCHANGED <<connState, answers, wire, dropped>>
    /\ UNCHANGED <<peer, unread>>

(* Faulty variant of WantsClose: HTTP/1.0 is taken to stay. *)
ClosesIfAsked(request) == GetHeader(request, "Connection") = <<"close">>

WantsClose(request) ==
    \/ GetHeader(request, "Connection") = <<"close">>
    \/ /\ request.version = "0"
       /\ GetHeader(request, "Connection") # <<"Keep-Alive">>

(* defaultHttpCallback() answers 404 and closes; the user's answers 200. *)
Response(request, close) ==
    IF httpCallback_ = "default"
    THEN [status |-> 404, close |-> TRUE, to |-> request]
    ELSE [status |-> 200, close |-> close, to |-> request]

(* appendToBuffer(): a Content-Length, or "Connection: close". *)
AppendToBuffer(response) ==
    [status |-> response.status, contentLength |-> ~response.close, to |-> response.to]

OnRequest ==
    /\ pc = "onRequest"
    /\ LET response == Response(request_, WantsClose(request_))
       IN  /\ SendBuffer(AppendToBuffer(response))
           /\ IF response.close THEN Shutdown ELSE UNCHANGED connState
    /\ state_' = "kExpectRequestLine"      \* reset()
    /\ request_' = NoRequest
    /\ pc' = "idle"
    /\ UNCHANGED <<peer, unread, inputBuffer_, dropped>>

-----------------------------------------------------------------------------
(* The peer.                                                               *)

RequestLine(r) == <<r.method, SP, r.path>> \o r.query \o <<SP, "HTTP/1.", r.version>>

HeaderLine(field, value) == <<field, ":", SP, value, SP>>

Encode(r) ==
    RequestLine(r) \o <<CR, LF>>
    \o FlattenSeq([i \in DOMAIN r.headers |->
                     HeaderLine(r.headers[i][1], r.headers[i][2]) \o <<CR, LF>>])
    \o <<CR, LF>> \o r.body

Init ==
    /\ script \in Script
    /\ httpCallback_ \in {"default", "page"}
    /\ unread = FlattenSeq([i \in DOMAIN script |-> Encode(script[i])])
    /\ inputBuffer_ = <<>>
    /\ connState = "kConnected"
    /\ pc = "idle"
    /\ state_ = "kExpectRequestLine" /\ request_ = NoRequest
    /\ answers = <<>> /\ wire = <<>> /\ dropped = FALSE

OnMessage == ParseRequestLine \/ ParseHeader \/ OnRequest

Next ==
    \/ \E n \in 1..Len(unread) : HandleRead(n)
    \/ OnMessage

(* The IO loop goes on; the peer need not send. *)
Spec == Init /\ [][Next]_vars /\ WF_vars(OnMessage)

-----------------------------------------------------------------------------
(* What HTTP asks, told from the script.                                   *)

Good(r) == r.method \in Methods /\ r.version \in {"0", "1"}

Persistent(r) ==
    LET connection == {r.headers[i][2] : i \in {j \in DOMAIN r.headers :
                                                  r.headers[j][1] = "Connection"}}
    IN  IF r.version = "1" THEN "close" \notin connection
                           ELSE "Keep-Alive" \in connection

Read(r) == [method |-> r.method, path |-> <<r.path>>, query |-> r.query,
            version |-> r.version,
            headers |-> [f \in {<<r.headers[i][1]>> : i \in DOMAIN r.headers} |->
                           LET i == CHOOSE i \in DOMAIN r.headers :
                                      <<r.headers[i][1]>> = f
                           IN  <<r.headers[i][2]>>]]

Expected(r) ==
    IF ~Good(r) THEN BadRequest
    ELSE IF httpCallback_ = "default"
         THEN [status |-> 404, contentLength |-> FALSE, to |-> Read(r)]
         ELSE [status |-> 200, contentLength |-> Persistent(r), to |-> Read(r)]

(* The first line of text is one that the parser takes for a request line. *)
LooksLikeRequest(text) ==
    FindCRLF(text) # 0 /\ ProcessRequestLine(Before(text, FindCRLF(text))) # NoRequest

Earlier(n) == {script[m] : m \in {m \in 1..Len(script) : m < n}}

(* What is given to send() is right however the bytes of the requests are cut
   into reads.  The n-th answer is the one that the n-th request asks for as long
   as no context was dropped inside the headers and no earlier request had a
   body, which nothing takes out of the buffer (HttpContext.cpp line 65,
   HttpServer.cpp line 39).  After that it is the answer to one of the requests
   as it was sent, with all its headers, or a 400, unless an earlier body begins
   like a request: that is answered, too.  And only a 400 leaves as it was
   composed (TcpConnection.cpp line 77).                                     *)
AnswersRight ==
    /\ Len(wire) = Len(answers)
    /\ \A n \in 1..Len(answers) :
          /\ (~dropped /\ \A r \in Earlier(n) : r.body = <<>>) =>
                 n <= Len(script) /\ answers[n] = Expected(script[n])
          /\ (\A r \in Earlier(n) : ~LooksLikeRequest(r.body)) =>
                 \/ answers[n] = BadRequest
                 \/ \E m \in 1..Len(script) : answers[n] = Expected(script[m])
          /\ wire[n] = IF answers[n] = BadRequest THEN BadRequest ELSE Unwritten

(* From an answer as it was composed the peer could tell where it ends: it has a
   Content-Length, or it is the last one and the connection is being shut down
   behind it (HttpResponse.cpp lines 14-20, HttpServer.cpp lines 42-43 and 59-62).
   Requests that come in the same read as one that closes are not answered.  *)
EveryAnswerEnds ==
    \A n \in 1..Len(answers) :
        answers[n].contentLength \/ (n = Len(answers) /\ connState = "kDisconnecting")

(* parseRequest() returns from any input: its loop has no pass that neither
   moves on nor ends it.                                                     *)
ParseReturns == pc # "idle" ~> pc = "idle"
=============================================================================
