----------------------------- MODULE HttpRequest ----------------------------
(***************************************************************************)
(* http_client.c as it sends, and url_parser.c: one request after another, *)
(* by http_client_post() and its kin or, for a recording, by               *)
(* http_rest_post() with the connection of mcotton_rest_task.              *)
(*                                                                         *)
(* A text is a sequence of characters where its parts are cut and joined,  *)
(* and a part with a length elsewhere; a unit of length is 512 bytes.  The *)
(* answer is http_tls_response() of Aplay and VoiceSession.                *)
(***************************************************************************)
EXTENDS Integers, Sequences

CONSTANTS
  Characters,    \* what a path and a query are made of, "/" and "?" among them
  Uris,          \* [schema, host, port, path, query]; 0 and <<>> for what is not there
  Bodies,        \* lengths of post_data, 0 for NULL
  FormFields,    \* numbers of form fields
  Recordings,    \* [data_size, hdr_size]; hdr_size 0 when hdr_data is NULL
  Failing        \* what may fail: "connect", "timeout", "write", "short", "read", "malloc"

PIECE == 4       \* the 2048 bytes read and sent at a time

Uri == [schema : STRING, host : STRING, port : Nat, path : Seq(Characters), query : Seq(Characters)]

\* sys_data_write() programs whole pieces, and sys_data_init() sets src_offset to 0.
ASSUME RequestAssumption ==
  /\ {"/", "?"} \subseteq Characters
  /\ Uris \subseteq Uri /\ Bodies \subseteq Nat /\ FormFields \subseteq Nat
  /\ Recordings \subseteq [data_size : Nat, hdr_size : Nat]
  /\ \A r \in Recordings : r.data_size % PIECE = 0

----------------------------------------------------------------------------
\* url_parser.c.  http_parser_parse_url() is a library: it finds the parts of the text.

url_get_port(u) == IF u.port # 0 THEN u.port ELSE IF u.schema = "https" THEN 443 ELSE 80

url_get_authority(u) == <<u.host>> \o (IF u.port # 0 THEN <<":", u.port>> ELSE <<>>)

\* Seeded fault in url_get_path: the length of '/' is forgotten when there is no path.
url_get_path_short(u) ==
  LET pathlen == Len(u.path) + (IF u.query # <<>> THEN Len(u.query) + 1 ELSE 0)
      mark == pathlen - Len(u.query)
  IN [i \in 1..pathlen |-> IF u.query # <<>> /\ i > mark THEN u.query[i - mark]
                           ELSE IF u.query # <<>> /\ i = mark THEN "?"
                           ELSE u.path[i]]

\* The buffer is filled from both ends: the path from the front, '?' and query to the end.
url_get_path(u) ==
  LET pathlen == (IF u.path # <<>> THEN Len(u.path) ELSE 1)
                 + (IF u.query # <<>> THEN Len(u.query) + 1 ELSE 0)
      front == IF u.path # <<>> THEN u.path ELSE <<"/">>
      mark == pathlen - Len(u.query)
  IN [i \in 1..pathlen |-> IF u.query # <<>> /\ i > mark THEN u.query[i - mark]
                           ELSE IF u.query # <<>> /\ i = mark THEN "?"
                           ELSE front[i]]

url_parse(u) == [scheme |-> u.schema, host |-> u.host, port |-> url_get_port(u),
                 authority |-> url_get_authority(u), path |-> url_get_path(u)]

----------------------------------------------------------------------------
VARIABLES
  pc,          \* "idle", or what is done next
  call,        \* the request: [by, method, uri, body, fields, file]
  url, tls,    \* the parsed address; the peer of the connection
  held,        \* memory and connections that must be given back
  announced,   \* Content-Length
  sent,        \* the parts written, [part, size, whole]
  read_bytes,  \* how far the recording has been read
  forgotten    \* a return has left something behind (below)
requestVars == <<pc, call, url, tls, held, announced, sent, read_bytes, forgotten>>

Nothing == [by |-> "nobody"]
ByTask == call.by = "http_rest_post"

RequestInit ==
  /\ pc = "idle" /\ call = Nothing /\ url = <<>> /\ tls = <<>> /\ held = {}
  /\ announced = 0 /\ sent = <<>> /\ read_bytes = 0 /\ forgotten = FALSE

http_tls_conn(u) == [host |-> u.host, port |-> u.port, secure |-> u.scheme = "https"]

\* Seeded fault in Exit: a call that fails gives nothing back.
ExitForgetting(keeping) == pc' = "idle" /\ held' = held

\* The exit of a call: http_tls_request() gives back the address and the connection,
\* mcotton_rest_task keeps the one and has the other deleted by http_tls_free().
Exit(keeping) ==
  /\ pc' = "idle"
  /\ held' = IF ByTask THEN keeping \ {"tls"} ELSE keeping \ {"url", "tls"}

\* A return that does not pass the exit.
Forgets == pc' = "idle" /\ held' = held /\ forgotten' = TRUE

\* http_client_get/post/put/delete(); an address without host is not understood.
http_client(method, uri, body) ==
  /\ pc = "idle" /\ ~forgotten
  /\ call' = [by |-> "http_tls_request", method |-> method, uri |-> uri, body |-> body]
  /\ sent' = <<>> /\ announced' = 0 /\ read_bytes' = 0 /\ tls' = <<>>
  /\ IF uri.host = "" THEN held' = {} /\ UNCHANGED <<pc, url>>
     ELSE pc' = "connect" /\ url' = url_parse(uri) /\ held' = {"url"}
  /\ UNCHANGED forgotten

\* mcotton_rest_task has parsed its address at its start and connects before it posts.
http_rest_post(uri, fields, file) ==
  /\ pc = "idle" /\ ~forgotten
  /\ uri.host # ""
  /\ call' = [by |-> "http_rest_post", method |-> "POST", uri |-> uri, fields |-> fields,
              file |-> file]
  /\ url' = url_parse(uri) /\ tls' = http_tls_conn(url')
  /\ held' = {"url", "tls"}
  /\ sent' = <<>> /\ announced' = 0 /\ read_bytes' = 0
  /\ pc' = "compose"
  /\ UNCHANGED forgotten

ConnectTo ==
  /\ pc = "connect"
  /\ \/ /\ tls' = http_tls_conn(url) /\ held' = held \cup {"tls"} /\ pc' = "compose"
        /\ UNCHANGED forgotten
     \/ "connect" \in Failing /\ Forgets /\ UNCHANGED tls
  /\ UNCHANGED <<call, url, announced, sent, read_bytes>>

\* Seeded fault in ContentLength: the header of the recording is not counted.
ContentLengthOfData == call.file.data_size + 1 + 1 + call.fields

\* The head of the part with the file and the end of the body have one unit each, and so
\* has a form field.
ContentLength == call.file.data_size + call.file.hdr_size + 1 + 1 + call.fields

Texts == IF ByTask THEN {"multipart_buf", "header_buf"} ELSE {"send_buf"}

\* The texts are printed, then the timeout is set.
Compose ==
  /\ pc = "compose"
  /\ \/ /\ held' = held \cup Texts /\ pc' = "head"
        /\ announced' = IF ByTask THEN ContentLength ELSE 0
        /\ UNCHANGED forgotten
     \/ /\ "malloc" \in Failing /\ Exit(held)
        /\ UNCHANGED <<announced, forgotten>>
     \/ /\ "timeout" \in Failing
        /\ pc' = "idle" /\ held' = held \cup Texts /\ forgotten' = TRUE
        /\ UNCHANGED announced
  /\ UNCHANGED <<call, url, tls, sent, read_bytes>>

\* esp_tls_conn_write(): the part is written, or a piece of it, which the code takes for the
\* whole as only a negative result is an error; or nothing, and the call fails after it has
\* freed some of its texts.
Write(part, size, frees, next) ==
  \/ /\ \E whole \in BOOLEAN :
          /\ whole \/ "short" \in Failing
          /\ sent' = Append(sent, [part |-> part, size |-> size, whole |-> whole])
     /\ pc' = next
  \/ /\ "write" \in Failing /\ Exit(held \ frees)
     /\ UNCHANGED sent

SendHead ==
  /\ pc = "head"
  /\ Write([method |-> call.method, path |-> url.path, host |-> url.host], 0, Texts,
           IF ByTask THEN "fields" ELSE "body")
  /\ pc' # "idle" => held' = held \ {"send_buf", "header_buf"}
  /\ UNCHANGED <<call, url, tls, announced, read_bytes, forgotten>>

SendBody ==
  /\ pc = "body"
  /\ IF call.body # 0 THEN Write("post_data", call.body, {}, "response")
     ELSE pc' = "response" /\ UNCHANGED sent
  /\ pc' # "idle" => UNCHANGED held
  /\ UNCHANGED <<call, url, tls, announced, read_bytes, forgotten>>

SendField ==
  /\ pc = "fields"
  /\ IF Len(sent) <= call.fields THEN Write("field", 1, {"multipart_buf"}, "fields")
     ELSE pc' = "multipart" /\ UNCHANGED sent
  /\ pc' # "idle" => UNCHANGED held
  /\ UNCHANGED <<call, url, tls, announced, read_bytes, forgotten>>

SendMultipart ==
  /\ pc = "multipart"
  /\ Write("multipart", 1, {"multipart_buf"}, "header")
  /\ pc' # "idle" => held' = held \ {"multipart_buf"}
  /\ UNCHANGED <<call, url, tls, announced, read_bytes, forgotten>>

SendHeader ==
  /\ pc = "header"
  /\ IF call.file.hdr_size # 0 THEN Write("header", call.file.hdr_size, {}, "buffer")
     ELSE pc' = "buffer" /\ UNCHANGED sent
  /\ pc' # "idle" => UNCHANGED held
  /\ UNCHANGED <<call, url, tls, announced, read_bytes, forgotten>>

GetBuffer ==
  /\ pc = "buffer"
  /\ \/ held' = held \cup {"read_buf"} /\ pc' = "data"
     \/ "malloc" \in Failing /\ Exit(held)
  /\ UNCHANGED <<call, url, tls, announced, sent, read_bytes, forgotten>>

\* A piece is read from flash and sent; read_bytes starts at src_offset, which is 0.
SendData ==
  /\ pc = "data"
  /\ IF read_bytes < call.file.data_size
     THEN /\ \/ /\ Write("data", PIECE, {"read_buf"}, "data")
             \/ "read" \in Failing /\ Exit(held \ {"read_buf"}) /\ UNCHANGED sent
          /\ read_bytes' = read_bytes + PIECE
     ELSE pc' = "tail" /\ UNCHANGED <<sent, read_bytes>>
  /\ pc' # "idle" => UNCHANGED held
  /\ UNCHANGED <<call, url, tls, announced, forgotten>>

SendTail ==
  /\ pc = "tail"
  /\ Write("tail", 1, {"read_buf"}, "response")
  /\ pc' # "idle" => held' = held \ {"read_buf"}
  /\ UNCHANGED <<call, url, tls, announced, read_bytes, forgotten>>

\* http_tls_response() and the exit, whatever it returns.
Response ==
  /\ pc = "response"
  /\ Exit(held)
  /\ UNCHANGED <<call, url, tls, announced, sent, read_bytes, forgotten>>

RequestNext ==
  \/ \E uri \in Uris :
       \/ http_client("GET", uri, 0)
       \/ \E method \in {"POST", "PUT", "DELETE"}, body \in Bodies : http_client(method, uri, body)
       \/ \E fields \in FormFields, file \in Recordings : http_rest_post(uri, fields, file)
  \/ ConnectTo \/ Compose \/ SendHead \/ SendBody \/ SendField \/ SendMultipart
  \/ SendHeader \/ GetBuffer \/ SendData \/ SendTail \/ Response

RequestSpec == RequestInit /\ [][RequestNext]_requestVars

----------------------------------------------------------------------------
BytesSent == LET upTo[i \in 0..Len(sent)] == IF i = 0 THEN 0 ELSE upTo[i - 1] + sent[i].size
             IN upTo[Len(sent)]

\* The server is asked at the address that was meant, for the path that was meant with its
\* query, and with a recording it gets exactly as many bytes as it was told, whatever parts
\* the body has (http_client.c:216, 286), unless a write was cut short.
AsksAsMeant ==
  pc = "response" /\ (\A i \in 1..Len(sent) : sent[i].whole) =>
    /\ tls.host = call.uri.host
    /\ tls.port \in {call.uri.port, IF tls.secure THEN 443 ELSE 80} \ {0}
    /\ call.uri.port # 0 => tls.port = call.uri.port
    /\ sent[1].part.path = (IF call.uri.path = <<>> THEN <<"/">> ELSE call.uri.path)
                           \o (IF call.uri.query = <<>> THEN <<>> ELSE <<"?">> \o call.uri.query)
    /\ BytesSent = IF ByTask THEN announced ELSE call.body

\* A call gives back what it has taken wherever it fails, but for the two returns that
\* forgotten remembers: a refused connection (line 134) and a refused timeout (148, 233).
GivesBack == pc = "idle" /\ ~forgotten =>
               held = IF call # Nothing /\ ByTask THEN {"url"} ELSE {}

RequestWhole == AsksAsMeant /\ GivesBack
=============================================================================
