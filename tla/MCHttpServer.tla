---------------------------- MODULE MCHttpServer ----------------------------
(***************************************************************************)
(* TLC instances of HttpServer: the pages of a JPEG camera, a page with    *)
(* bitmaps, and a handler that wants every event; clients that cut their   *)
(* requests anywhere, break off, pipeline, or send no header at all.       *)
(***************************************************************************)
EXTENDS HttpServer

On(uri, method, evts, page, n) ==
  [uri |-> uri, method |-> method, events |-> evts, page |-> page, pieces |-> n]

MCTokens == {"/", "?", "j", "s", "x", "a", "n", "m", "o", "1", "2", "3", "k", "l"}

MCHandlers ==
  <<On(<<"/", "j">>, "GET", {"RESPONSE"}, "single", 1),
    On(<<"/", "s">>, "GET", {"RESPONSE"}, "stream", 2),
    On(<<"/", "j">>, "POST", Events, "single", 2)>>

Get(uri, headers) == [method |-> "GET", uri |-> uri, headers |-> headers, body |-> <<>>, next |-> FALSE]
H1 == [name |-> <<"n", "m">>, value |-> <<"1", "2">>]
H2 == [name |-> <<"o">>, value |-> <<"3">>]

MCRequests ==
  {Get(<<"/", "j">>, <<H1>>), Get(<<"/", "s">>, <<H2>>), Get(<<"/", "x">>, <<H2>>),
   Get(<<"/", "j">>, <<>>), Get(<<"/", "j", "?", "a">>, <<H1, H1>>),
   [Get(<<"/", "j">>, <<H2, H1>>) EXCEPT !.method = "POST", !.body = <<"k", "l">>],
   [Get(<<"/", "j">>, <<H2>>) EXCEPT !.next = TRUE]}
=============================================================================
