---------------------------- MODULE MCHttpServer ----------------------------
(* HttpServer with two requests on the connection.                         *)
EXTENDS HttpServer

MCWord == {"CR", "LF", "SP", ":", "?", "HTTP/1.", "0", "1", "2", "GET", "POST", "HEAD",
           "BREW", "/", "q", "Host", "h", "Connection", "close", "Keep-Alive",
           "Content-Length", "body"}

Made(method, query, version, headers, body) ==
    [method |-> method, path |-> "/", query |-> query, version |-> version,
     headers |-> headers, body |-> body]

Get      == Made("GET", <<"?", "q">>, "1", << <<"Host", "h">> >>, <<>>)
GetClose == Made("GET", <<>>, "1", << <<"Connection", "close">> >>, <<>>)
Get10    == Made("GET", <<>>, "0", <<>>, <<>>)
Keep10   == Made("HEAD", <<>>, "0", << <<"Connection", "Keep-Alive">> >>, <<>>)
Post     == Made("POST", <<>>, "1", << <<"Content-Length", "1">> >>, <<"body">>)
PostLine == Made("POST", <<>>, "1", <<>>, <<"q", "CR", "LF", "q">>)
PostGet  == Made("POST", <<>>, "1", <<>>,
                 <<"GET", "SP", "/", "SP", "HTTP/1.", "1", "CR", "LF", "CR", "LF">>)
Brew     == Made("BREW", <<>>, "1", <<>>, <<>>)
Get12    == Made("GET", <<>>, "2", <<>>, <<>>)

Requests == {Get, GetClose, Get10, Keep10, Post, PostLine, PostGet, Brew, Get12}
MCScript == {<<r, s>> : r \in Requests, s \in Requests}
=============================================================================
