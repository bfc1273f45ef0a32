----------------------------- MODULE HttpServer -----------------------------
(***************************************************************************)
(* The web server of the camera: components/http/http_server.c, one task   *)
(* that handles a connection at a time with a single http_context_, and    *)
(* the pages that app/camera_photo.c registers with it.                    *)
(*                                                                         *)
(* A request is what the parser reports of it: a sequence of elements      *)
(* [cb, text], each for the callback cb, which gets the tokens of the text *)
(* in any number of calls, as the segments of the connection cut them.     *)
(***************************************************************************)
EXTENDS Integers, Sequences, SequencesExt

CONSTANTS
  Tokens,    \* what a text is made of, "/" and "?" among them
  Methods,
  Handlers,  \* in the order of registration: [uri, method, events, page, pieces]
  Requests,  \* [method, uri, headers: <<[name, value]>>, body, next]
  BufMax,    \* tokens that fit into parse_buffer
  MaxConns, MaxFrames   \* bounds: connections, and frames sent to one client

Events == {"URI", "HEADERS", "DATA", "RESPONSE"}
Pages == {"single", "stream"}

Texts == Seq(Tokens)
Handler == [uri : Texts, method : Methods, events : SUBSET Events, page : Pages, pieces : 1..2]
Header == [name : Texts, value : Texts]
Request == [method : Methods, uri : Texts, headers : Seq(Header), body : Texts, next : BOOLEAN]

\* camera_photo_task registers addresses without a query, and no handler that keeps the
\* response from another one for the same address.
ASSUME HttpAssumption ==
  /\ "/" \in Tokens /\ "GET" \in Methods
  /\ Handlers \in Seq(Handler) /\ Requests \subseteq Request
  /\ \A h \in 1..Len(Handlers) : "?" \notin ToSet(Handlers[h].uri)
  /\ \A g, h \in 1..Len(Handlers) :
       /\ g < h /\ Handlers[g].uri = Handlers[h].uri /\ Handlers[g].method = Handlers[h].method
       /\ "RESPONSE" \in Handlers[g].events
       => "RESPONSE" \in Handlers[h].events
  /\ BufMax \in Nat /\ MaxConns \in Nat /\ MaxFrames \in Nat

\* The callbacks of http_parser_execute() for a request; if req.next, the client
\* sent another one, "GET /", right behind it.
Of(cb, text) == [cb |-> cb, text |-> text]
OfHeaders(headers) ==
  [i \in 1..2 * Len(headers) |->
     IF i % 2 = 1 THEN Of("name", headers[(i + 1) \div 2].name) ELSE Of("value", headers[i \div 2].value)]
OfBody(req) ==
  (IF req.body = <<>> THEN <<>> ELSE <<Of("body", req.body)>>) \o <<Of("message", <<>>)>>
    \o (IF req.next THEN <<Of("url", <<"/">>), Of("headers", <<>>), Of("message", <<>>)>> ELSE <<>>)
Callbacks(req) ==
  <<Of("url", req.uri)>> \o OfHeaders(req.headers) \o <<Of("headers", <<>>)>> \o OfBody(req)

VARIABLES
  registered,  \* handlers registered so far
  pc,          \* where the server's task is
  conns,       \* connections accepted
  req,         \* the request of this connection
  known,       \* was its handler registered, and parse_buffer empty, when it began?
  pending,     \* what the parser has not called back of the request yet
  peer,        \* is the client still connected?
  ctx,         \* connection_context
  events,      \* the events this connection's handler was called with
  frame,       \* pictures taken, the last of which is in the frame buffer
  held,        \* pictures of which TCP still has bytes to send, out of the frame buffer
  pieces,      \* http_response_write calls left for the current picture
  wire         \* what netconn_write accepted

reqVars == <<req, known, conns>>
pictures == <<frame, held>>
httpVars == <<registered, pc, reqVars, pending, peer, ctx, events, pictures, pieces, wire>>

----------------------------------------------------------------------------
(* http_server() and http_register_handler().                              *)

Matching(method, uri) ==
  {h \in 1..registered : Handlers[h].uri = uri /\ Handlers[h].method = method}

\* Seeded fault in http_find_handler: the method is not compared.
FindByUri(method, uri) ==
  LET found == {h \in 1..registered : Handlers[h].uri = uri}
  IN IF found = {} THEN 0 ELSE Max(found)
\* http_find_handler(): the list is searched from the last one registered; 0 is NULL.
http_find_handler(method, uri) ==
  IF Matching(method, uri) = {} THEN 0 ELSE Max(Matching(method, uri))

\* camera_photo_task registers its pages while the server is already running.
Register ==
  /\ registered < Len(Handlers) /\ registered' = registered + 1
  /\ UNCHANGED <<pc, reqVars, pending, peer, ctx, events, pictures, pieces, wire>>

\* A connection is accepted; http_handle_connection initialises the context.
Accept ==
  /\ pc = "accept" /\ conns < MaxConns /\ conns' = conns + 1
  /\ req' \in Requests /\ pending' = Callbacks(req')
  /\ known' = /\ ctx.parse_buffer = <<>>
              /\ \E h \in Matching(req'.method, req'.uri) : "RESPONSE" \in Handlers[h].events
  /\ ctx' = [ctx EXCEPT !.state = "uri"]
  /\ pc' = "parse" /\ peer' = TRUE /\ events' = <<>> /\ wire' = <<>>
  /\ UNCHANGED <<registered, pictures, pieces>>

\* Seeded fault in Close: a list of the request survives.
CloseKeepsHeaders ==
  /\ pc = "close" /\ pc' = "accept"
  /\ ctx' = [ctx EXCEPT !.request_args = <<>>, !.handler = 0]
  /\ UNCHANGED <<registered, reqVars, pending, peer, events, pictures, pieces, wire>>
\* The end of http_handle_connection.
Close ==
  /\ pc = "close" /\ pc' = "accept"
  /\ ctx' = [ctx EXCEPT !.request_headers = <<>>, !.request_args = <<>>, !.handler = 0]
  /\ UNCHANGED <<registered, reqVars, pending, peer, events, pictures, pieces, wire>>

----------------------------------------------------------------------------
(* The callbacks of the parser, on a context c and the events e so far;    *)
(* the text of a callback is the sequence `at'.                            *)

Wants(c, event) == c.handler # 0 /\ event \in Handlers[c.handler].events
invoke_handler(c, e, event) == IF Wants(c, event) THEN Append(e, event) ELSE e

\* append_parse_buffer() accepts the text, with room for the final NUL.
Fits(c) == Len(c.parse_buffer) =< BufMax

header_name_done(c) == [c EXCEPT !.request_header_tmp = c.parse_buffer, !.parse_buffer = <<>>]

header_value_done(c) ==
  [c EXCEPT !.request_headers =
              <<[name |-> c.request_header_tmp, value |-> c.parse_buffer]>> \o @,
            !.request_header_tmp = <<>>, !.parse_buffer = <<>>]

\* The text up to a "?" is the URI, each token after it an argument.
uri_done(c) ==
  LET query == SelectInSeq(c.parse_buffer, LAMBDA t : t = "?")
      uri == IF query = 0 THEN c.parse_buffer ELSE SubSeq(c.parse_buffer, 1, query - 1)
      args == IF query = 0 THEN <<>>
              ELSE SubSeq(c.parse_buffer, query + 1, Len(c.parse_buffer))
  IN [c EXCEPT !.request_args = Reverse(args) \o @,
               !.handler = http_find_handler(req.method, uri), !.parse_buffer = <<>>]

\* Seeded fault in http_header_name_cb: the value before this name is not taken.
NameDropsValue(c, at) ==
  LET done == IF c.state = "uri" THEN uri_done(c) ELSE c
  IN [done EXCEPT !.state = IF @ \in {"uri", "value"} THEN "name" ELSE @, !.parse_buffer = @ \o at]
http_header_name_cb(c, at) ==
  LET done == CASE c.state = "uri" -> uri_done(c)
                [] c.state = "value" -> header_value_done(c)
                [] OTHER -> c
  IN [done EXCEPT !.state = IF @ \in {"uri", "value"} THEN "name" ELSE @, !.parse_buffer = @ \o at]

http_header_value_cb(c, at) ==
  LET done == IF c.state = "name" THEN header_name_done(c) ELSE c
  IN [done EXCEPT !.state = IF @ = "name" THEN "value" ELSE @, !.parse_buffer = @ \o at]

http_headers_done_cb(c) ==
  [(IF c.state = "value" THEN header_value_done(c) ELSE c) EXCEPT !.state = "body"]

\* Seeded fault in http_message_done_cb: the loop is not told.
MessageDoneUnseen(c) == c
http_message_done_cb(c) == [c EXCEPT !.state = "done"]

\* What a callback makes of the context.  form_data_handler_cb hands its own
\* form_ctx to parse_urlencoded_args in place of the connection, so that the pairs
\* of a form's body never reach request_args.
Callback(cb, at) ==
  CASE cb = "url"     -> [ctx EXCEPT !.parse_buffer = @ \o at]
    [] cb = "name"    -> http_header_name_cb(ctx, at)
    [] cb = "value"   -> http_header_value_cb(ctx, at)
    [] cb = "headers" -> http_headers_done_cb(ctx)
    [] cb = "body"    -> ctx
    [] cb = "message" -> http_message_done_cb(ctx)

\* Seeded fault in Told: the callbacks for the headers' and the message's end are swapped.
ToldSwapped(cb) ==
  CASE cb = "name" /\ ctx.state = "uri" -> invoke_handler(uri_done(ctx), events, "URI")
    [] cb = "message" -> invoke_handler(ctx, events, "HEADERS")
    [] cb = "body"    -> invoke_handler(ctx, events, "DATA")
    [] OTHER          -> events
\* The event a callback tells the handler of, which uri_done may just have found.
Told(cb) ==
  CASE cb = "name" /\ ctx.state = "uri" -> invoke_handler(uri_done(ctx), events, "URI")
    [] cb = "headers" -> invoke_handler(ctx, events, "HEADERS")
    [] cb = "body"    -> invoke_handler(ctx, events, "DATA")
    [] OTHER          -> events

----------------------------------------------------------------------------
(* The loop of http_handle_connection and the start of the response.       *)

Answer(c, e) ==
  /\ ctx' = [c EXCEPT !.state = "collecting"]
  /\ events' = invoke_handler(c, e, "RESPONSE")
  /\ pc' = CASE c.handler = 0 -> "begin"
             [] ~Wants(c, "RESPONSE") -> "close"
             [] OTHER -> IF Handlers[c.handler].page = "stream" THEN "begin" ELSE "shoot"

\* The parser calls back with the next text of the request; text that does not fit
\* makes the callback return 1, which ends the parsing, but not the response.
Parse ==
  /\ pc = "parse" /\ pending # <<>>
  /\ \E n \in 0..Len(Head(pending).text) :
       LET cb == Head(pending).cb
           text == Head(pending).text
           c == Callback(cb, SubSeq(text, 1, n))
       IN /\ n = 0 => text = <<>>
          /\ pending' = IF n = Len(text) THEN Tail(pending)
                        ELSE <<Of(cb, SubSeq(text, n + 1, Len(text)))>> \o Tail(pending)
          /\ IF Fits(c)
             THEN ctx' = c /\ events' = Told(cb) /\ UNCHANGED pc
             ELSE Answer([c EXCEPT !.parse_buffer =
                            SubSeq(@, 1, Len(@) - n)], Told(cb))
  /\ UNCHANGED <<registered, reqVars, peer, pictures, pieces, wire>>

\* All of a message was parsed when a segment ends: the loop is left.
Respond ==
  /\ pc = "parse" /\ ctx.state = "done"
  /\ Answer(ctx, events)
  /\ UNCHANGED <<registered, reqVars, pending, peer, pictures, pieces, wire>>

\* The parser rejects the rest of the segment: the loop ends with err = ERR_OK.
Malformed ==
  /\ pc = "parse" /\ pending # <<>> /\ ctx.state # "done"
  /\ Answer(ctx, events)
  /\ UNCHANGED <<registered, reqVars, pending, peer, pictures, pieces, wire>>

\* netconn_recv fails: the client closed or reset the connection.
RecvFails ==
  /\ pc = "parse" /\ ctx.state # "done" /\ pc' = "close" /\ peer' = FALSE
  /\ UNCHANGED <<registered, reqVars, pending, ctx, events, pictures, pieces, wire>>

----------------------------------------------------------------------------
(* The response: the pages of camera_photo.c and http_response_*().        *)

NotFound == [page |-> "notFound", pieces |-> 1]
Page == IF ctx.handler = 0 THEN NotFound ELSE Handlers[ctx.handler]

\* http_send_response_headers(): netconn_write fails once the client is gone.
HeadersSent(c) == [c EXCEPT !.response_headers = <<>>, !.state = "sending"]
HeaderBlock == [what |-> "head", code |-> ctx.response_code, headers |-> ctx.response_headers]
Out(items) == wire' = IF peer THEN wire \o items ELSE wire

\* http_response_write(), with the headers first if they are still to be sent.
Write(item) ==
  IF ctx.state = "collecting"
  THEN Out(<<HeaderBlock, item>>) /\ ctx' = HeadersSent(ctx)
  ELSE Out(<<item>>) /\ UNCHANGED ctx

\* http_response_begin() and the page's own header.
Begin ==
  /\ pc = "begin"
  /\ ctx' = [ctx EXCEPT
       !.response_code = IF Page.page = "notFound" THEN 404 ELSE 200,
       !.response_headers =
         (IF Page.page = "single" THEN <<"disposition", "length", "type">> ELSE <<"type">>) \o @]
  /\ pieces' = Page.pieces
  /\ pc' = IF Page.page = "stream" THEN "shoot" ELSE "piece"
  /\ UNCHANGED <<registered, reqVars, pending, peer, events, pictures, wire>>

\* camera_run(): a new picture in the frame buffer.
Shoot ==
  /\ pc = "shoot" /\ (frame < MaxFrames \/ ~peer)
  /\ frame' = IF frame < MaxFrames THEN frame + 1 ELSE frame
  /\ pc' = IF Page.page = "stream" THEN "part" ELSE "begin"
  /\ UNCHANGED <<registered, reqVars, pending, peer, ctx, events, held, pieces, wire>>

\* http_response_begin_multipart()
\* Seeded fault in Part: response_code is not cleared.
PartKeepsCode ==
  /\ pc = "part" /\ pc' = "piece" /\ pieces' = Page.pieces
  /\ Out(<<HeaderBlock>>)
  /\ ctx' = [HeadersSent(ctx) EXCEPT !.state = "collecting", !.response_headers = <<"length", "type">> \o @]
  /\ UNCHANGED <<registered, reqVars, pending, peer, events, pictures>>
Part ==
  /\ pc = "part" /\ pc' = "piece" /\ pieces' = Page.pieces
  /\ Out(<<HeaderBlock>>)
  /\ ctx' = [HeadersSent(ctx) EXCEPT !.state = "collecting", !.response_code = 0,
                                  !.response_headers = <<"length", "type">> \o @]
  /\ UNCHANGED <<registered, reqVars, pending, peer, events, pictures>>

\* The header of a bitmap is copied, a picture is sent from the frame buffer itself,
\* where TCP finds what it has to send later; only a stream looks at the result.
Piece ==
  LET picture == pieces = 1 /\ Page.page # "notFound"
  IN
  /\ pc = "piece" /\ pieces > 0 /\ pieces' = pieces - 1
  /\ Write([what |-> IF picture THEN "frame" ELSE "copy"])
  /\ held' = IF picture /\ peer THEN held \cup {frame} ELSE held
  /\ pc' = CASE pieces > 1 /\ (peer \/ Page.page # "stream") -> "piece"
             [] pieces = 1 /\ peer /\ Page.page = "stream" -> "endPart"
             [] OTHER -> "end"
  /\ UNCHANGED <<registered, reqVars, pending, peer, events, frame>>

\* http_response_end_multipart()
EndPart ==
  /\ pc = "endPart"
  /\ Out(<<[what |-> "boundary"]>>)
  /\ ctx' = [ctx EXCEPT !.state = "collecting"] /\ pc' = IF peer THEN "shoot" ELSE "end"
  /\ UNCHANGED <<registered, reqVars, pending, peer, events, pictures, pieces>>

\* http_response_end()
End ==
  /\ pc = "end" /\ pc' = "close" /\ ctx' = [ctx EXCEPT !.state = "end"]
  /\ UNCHANGED <<registered, reqVars, pending, peer, events, pictures, pieces, wire>>

----------------------------------------------------------------------------
(* The client, and TCP, which keeps what it was given until the client has *)
(* acknowledged it, or has been silent for too long.                       *)

TcpDone ==
  /\ \E f \in held : held' = held \ {f}
  /\ UNCHANGED <<registered, pc, reqVars, pending, peer, ctx, events, frame, pieces, wire>>

Leave ==
  /\ pc # "accept" /\ peer /\ peer' = FALSE
  /\ UNCHANGED <<registered, pc, reqVars, pending, ctx, events, pictures, pieces, wire>>

----------------------------------------------------------------------------

NoRequest == [method |-> "GET", uri |-> <<>>, headers |-> <<>>, body |-> <<>>, next |-> FALSE]

\* http_server_start(): the server's structure is calloc'ed.
HttpInit ==
  /\ registered = 0 /\ pc = "accept" /\ conns = 0 /\ req = NoRequest /\ known = FALSE
  /\ pending = <<>> /\ peer = FALSE /\ events = <<>>
  /\ ctx = [state |-> "uri", parse_buffer |-> <<>>, request_header_tmp |-> <<>>,
            request_headers |-> <<>>, request_args |-> <<>>, handler |-> 0,
            response_code |-> 0, response_headers |-> <<>>]
  /\ frame = 0 /\ held = {} /\ pieces = 0 /\ wire = <<>>

Connection == Parse \/ Respond \/ Malformed \/ RecvFails
Responding == Begin \/ Shoot \/ Part \/ Piece \/ EndPart \/ End

HttpNext == Register \/ Accept \/ Connection \/ Responding \/ Close \/ TcpDone \/ Leave

HttpSpec == HttpInit /\ [][HttpNext]_httpVars

\* The server's task runs, the client sends the request it began and leaves some day.
HttpFairness ==
  /\ WF_httpVars(Parse) /\ WF_httpVars(Respond) /\ WF_httpVars(Responding) /\ WF_httpVars(Close) /\ WF_httpVars(Leave)

HttpFairSpec == HttpSpec /\ HttpFairness

----------------------------------------------------------------------------
(* Properties.                                                             *)

Answered ==
  /\ "RESPONSE" \in ToSet(events)
  /\ Handlers[ctx.handler].uri = req.uri /\ Handlers[ctx.handler].method = req.method

\* A request for a registered page, received to its end, is answered by the handler
\* of that page, however it was cut - if it has a header, whose name makes the server
\* look for the handler, and the connection before it left parse_buffer empty.
RequestHandled ==
  pc = "close" /\ known /\ req.headers # <<>> /\ pending = <<>> => Answered

\* Whatever headers it has: http_server.h:91-92, "The handler will be called when a
\* client makes a request with matching URI and HTTP method".
MatchingHandled == pc = "close" /\ known /\ pending = <<>> => Answered

\* However the segments cut the names and values of the headers, the handler sees the
\* headers that were sent: all of them once the body starts.
HeadersExact ==
  pc = "parse" /\ ctx.state \in {"body", "done"} =>
    ctx.request_headers = Reverse(req.headers)

Rank(event) == CASE event = "URI" -> 1 [] event = "HEADERS" -> 2 [] event = "DATA" -> 3 [] OTHER -> 4

\* The handler sees the URI, the headers, the body and the end of a request in this
\* order, each but the body once, if the client sends no other request behind it.
EventsInOrder ==
  ~req.next =>
    \A i, j \in 1..Len(events) :
      i < j => Rank(events[i]) < Rank(events[j]) \/ (events[i] = "DATA" /\ events[j] = "DATA")

\* Both: the handler is told of the request as it was sent.
RequestTold == HeadersExact /\ EventsInOrder

\* A connection leaves nothing of its request or of its response to the next one.
\* (The text in parse_buffer it does leave: see RequestHandled.)
NothingKept ==
  pc = "accept" => /\ ctx.request_headers = <<>> /\ ctx.request_args = <<>>
                   /\ ctx.response_headers = <<>> /\ ctx.handler = 0

\* A response has one status line, at its start, and every header block holds the
\* headers set for it and no other: those of the page, then of each part; after a
\* boundary, an empty block ends the boundary's line before the next part.
HeadersInPlace ==
  \A i \in 1..Len(wire) : wire[i].what = "head" /\ pc # "accept" =>
    /\ (wire[i].code # 0) <=> (i = 1)
    /\ wire[i].headers =
         CASE i = 1 /\ Page.page = "single" -> <<"disposition", "length", "type">>
           [] i = 1 /\ Page.page # "single" -> <<"type">>
           [] i > 1 /\ wire[i - 1].what = "boundary" -> <<>>
           [] OTHER -> <<"length", "type">>

\* Both: a response is made of its own headers, each in its place.
HeadersOwn == HeadersInPlace /\ NothingKept

\* What TCP has still to send of a picture is that picture, not a later one that
\* camera_run() puts in its place: http_server.h:193, "set to true if data is in constant RAM".
FrameConstant == held \subseteq {frame}

\* A connection ends, and the server takes the next one.
ConnectionEnds == (pc # "accept") ~> (pc = "accept")

=============================================================================
