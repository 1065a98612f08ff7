----------------------------- MODULE HttpClient -----------------------------
(***************************************************************************)
(* UI/http_client.c over a connection of conn.c: one request, then a loop  *)
(* that reads until a whole response is there or the peer is gone.  str.c  *)
(* is modelled as far as it is used: a str_t is a sequence, a null pointer *)
(* the empty one.                                                          *)
(*                                                                         *)
(* Text is a sequence of pieces.  Of the response, byte i of the stream    *)
(* carries piece i: the pieces are what the parser can tell apart, so that *)
(* every place where a read may cut the response is between two of them.   *)
(***************************************************************************)
EXTENDS Conn

LOCAL INSTANCE SequencesExt

CONSTANTS
  Replies,    \* what the server may say: [code, announced, text]
  NoLength    \* value of "announced" in a reply without a Content-Length

ASSUME HttpAssumption ==
  /\ NoLength \notin Nat
  /\ Replies \subseteq [code : Nat, announced : Nat \cup {NoLength}, text : Nat]

VARIABLES
  hpc,        \* where http_client_send stands
  req,        \* the request: method, header and body (each a sequence)
  wbuf,       \* the text to send
  quit,       \* result of conn_read_all, which ends the loop
  rsp,        \* the response: errcode and body
  heap,       \* blocks that are allocated: "req", "wbuf", "rsp"
  reply       \* what the server says to this request

httpVars == <<hpc, req, wbuf, quit, rsp, heap, reply>>
allVars  == <<vars, httpVars>>

HttpPCs == {"idle", "open", "write", "read", "again", "clear", "close"}

NoReq == [method |-> <<>>, header |-> <<>>, body |-> <<>>]
NoRsp == [errcode |-> 0, body |-> <<>>]

-----------------------------------------------------------------------------
(* str_append: a null tail leaves the string, a null string takes it.      *)
str_append(s, tail) == s \o tail

http_client_make_req(method) == [NoReq EXCEPT !.method = str_append(@, <<method>>)]

http_client_add_header(q, header) == [q EXCEPT !.header = str_append(@, header)]

(* A GET takes no body: the function returns -1 and leaves the request.    *)
http_client_set_body(q, body) ==
  IF q.method = <<"GET">> THEN q ELSE [q EXCEPT !.body = str_append(@, body)]

(* The two requests of remote_server.c: the description, an action.        *)
Requests ==
  {http_client_make_req("GET"),
   http_client_set_body(
     http_client_add_header(http_client_make_req("POST"), <<"soapaction">>), <<"envelope">>)}

(* The header gets the length of the body, the text is put together; the   *)
(* body goes out with a POST only.                                         *)
RequestText(q) ==
  LET header == IF q.body = <<>> THEN q.header
                ELSE str_append(q.header, <<"length">>)
      text   == q.method \o <<"host">> \o header \o <<"blank">>
  IN  IF q.method = <<"POST">> THEN str_append(text, q.body) ELSE text

-----------------------------------------------------------------------------
(* The server (not under src/).  A status code of 0 stands for text that   *)
(* is not HTTP.  The two pieces of a status and of a length are its first  *)
(* digit and the rest; a length is announced in units of ten characters,   *)
(* each carried by one piece of text.                                      *)
Pieces(d) ==
  IF d.code = 0 THEN <<"junk">>
  ELSE <<"http", "code", "code">>
       \o (CASE d.announced = NoLength -> <<>>
             [] d.announced = 0        -> <<"name", "zero">>
             [] OTHER                  -> <<"name", "digit", "zero">>)
       \o <<"blank">> \o [i \in 1..d.text |-> "text"]

(* The server sends no more than its reply.                                *)
HttpPeer ==
  /\ Peer
  /\ arrived' <= Len(Pieces(reply))
  /\ UNCHANGED httpVars

-----------------------------------------------------------------------------
(* What the parser makes of the bytes in the buffer.                       *)

Content == [i \in 1..rbuf.len |-> Pieces(reply)[rbuf.mem[i]]]

At(text, piece) == SelectInSeq(text, LAMBDA c : c = piece)

(* sscanf "HTTP/1.%1d %3d": as many digits as are there.                   *)
Status(text) ==
  IF Len(text) < 2 \/ text[1] # "http" THEN 0
  ELSE IF Len(text) = 2 THEN reply.code \div 100 ELSE reply.code

(* strstr for the name, sscanf "%d" after it; -1: no number there.  It is  *)
(* in characters.                                                          *)
Announced(text) ==
  LET p == At(text, "name")
  IN  IF p = 0 \/ p = Len(text) THEN -1
      ELSE IF text[p + 1] = "zero" THEN 0
      ELSE IF p + 1 = Len(text) THEN reply.announced ELSE 10 * reply.announced

(* Mutant: no search for the blank line. *)
Rest_WithHead(text) == SubSeq(rbuf.mem, 1, rbuf.len)

(* What follows the blank line. *)
Rest(text) == SubSeq(rbuf.mem, At(text, "blank") + 1, rbuf.len)

HasBlank(text) == At(text, "blank") # 0

-----------------------------------------------------------------------------
(* http_client_send, up to conn_open. *)
Send(q) ==
  /\ hpc = "idle" /\ rsp = NoRsp /\ "rsp" \notin heap
  /\ req' = q /\ wbuf' = <<>> /\ quit' = 0 /\ rsp' = NoRsp
  /\ heap' = {"req"}
  /\ reply' \in Replies
  /\ conn_open("http")
  /\ hpc' = "open"

(* conn_open failed: the request is not freed.                             *)
OpenFailed ==
  /\ hpc = "open" /\ pc = "idle" /\ last.code # 0
  /\ hpc' = "idle"
  /\ UNCHANGED <<vars, req, wbuf, quit, rsp, heap, reply>>

(* The text is built, the request freed and the text written.              *)
Opened ==
  /\ hpc = "open" /\ pc = "idle" /\ last.code = 0
  /\ wbuf' = RequestText(req)
  /\ req' = NoReq
  /\ heap' = (heap \ {"req"}) \cup {"wbuf"}
  /\ conn_write(Len(wbuf'))
  /\ hpc' = "write"
  /\ UNCHANGED <<quit, rsp, reply>>

(* The result of conn_write is not looked at.                              *)
Written ==
  /\ hpc = "write" /\ pc = "idle"
  /\ heap' = heap \cup {"rsp"}
  /\ conn_read_all
  /\ hpc' = "read"
  /\ UNCHANGED <<req, wbuf, quit, rsp, reply>>

(* Mutants of Parse: the text is taken without comparing its length; the   *)
(* result of conn_read_all does not end the loop.                          *)
Parse_NotWhole ==
  /\ hpc = "read" /\ pc = "idle"
  /\ quit' = last.code
  /\ IF rbuf.len = 0
     THEN /\ hpc' = IF quit' = 0 THEN "again" ELSE "clear"
          /\ UNCHANGED <<rbuf, rsp>>
     ELSE LET text == Content
              done == Announced(text) >= 0 /\ HasBlank(text)
          IN  /\ rbuf' = buffer_append(rbuf, 1)
              /\ rsp' = [errcode |-> IF Status(text) = 0 THEN rsp.errcode ELSE Status(text),
                         body |-> IF done THEN Rest(text) ELSE rsp.body]
              /\ hpc' = IF done \/ quit' # 0 THEN "clear" ELSE "again"
  /\ UNCHANGED <<kernel, user, pc, r, len, select, mem, out, last, ghost,
                 req, wbuf, heap, reply>>

Parse_NoQuit ==
  /\ hpc = "read" /\ pc = "idle"
  /\ quit' = 0
  /\ rbuf' = buffer_append(rbuf, 1)
  /\ hpc' = "again"
  /\ UNCHANGED <<kernel, user, pc, r, len, select, mem, out, last, ghost,
                 req, wbuf, rsp, heap, reply>>

(* One round of the loop after conn_read_all returned.  Nothing read: look *)
(* at quit.  Otherwise a byte of room makes the buffer a string, and what  *)
(* is missing (status, name, number, blank line, text) sends the loop      *)
(* round again; an announced 0 ends it without a body.                     *)
Parse ==
  /\ hpc = "read" /\ pc = "idle"
  /\ quit' = last.code
  /\ IF rbuf.len = 0
     THEN /\ hpc' = IF quit' = 0 THEN "again" ELSE "clear"
          /\ UNCHANGED <<rbuf, rsp>>
     ELSE LET text  == Content
              n     == Announced(text)
              whole == n > 0 /\ HasBlank(text) /\ 10 * Len(Rest(text)) >= n
          IN  /\ rbuf' = buffer_append(rbuf, 1)
              /\ IF Status(text) = 0
                 THEN UNCHANGED rsp /\ hpc' = IF quit' = 0 THEN "again" ELSE "clear"
                 ELSE /\ rsp' = [errcode |-> Status(text),
                                 body |-> IF whole THEN str_append(rsp.body, Rest(text))
                                          ELSE rsp.body]
                      /\ hpc' = IF n = 0 \/ whole \/ quit' # 0 THEN "clear" ELSE "again"
  /\ UNCHANGED <<kernel, user, pc, r, len, select, mem, out, last, ghost,
                 req, wbuf, heap, reply>>

(* The head of the while loop. *)
ReadAgain ==
  /\ hpc = "again"
  /\ conn_read_all
  /\ hpc' = "read"
  /\ UNCHANGED <<req, wbuf, quit, rsp, heap, reply>>

(* Mutant: a response without a status stays allocated. *)
Clear_KeepsRsp ==
  /\ hpc = "clear"
  /\ heap' = heap \ {"wbuf"}
  /\ wbuf' = <<>>
  /\ rbuf' = buffer_clear
  /\ hpc' = "close"
  /\ UNCHANGED <<kernel, user, pc, r, len, select, mem, out, last, ghost,
                 req, quit, rsp, reply>>

(* After the loop: no status, no response; the text and the buffer go.     *)
Clear ==
  /\ hpc = "clear"
  /\ heap' = heap \ (IF rsp.errcode = 0 THEN {"rsp", "wbuf"} ELSE {"wbuf"})
  /\ wbuf' = <<>>
  /\ rbuf' = buffer_clear
  /\ hpc' = "close"
  /\ UNCHANGED <<kernel, user, pc, r, len, select, mem, out, last, ghost,
                 req, quit, rsp, reply>>

Close ==
  /\ hpc = "close"
  /\ conn_close
  /\ hpc' = "idle"
  /\ UNCHANGED <<req, wbuf, quit, rsp, heap, reply>>

(* http_client_free_rsp, by the caller. *)
http_client_free_rsp ==
  /\ hpc = "idle" /\ "rsp" \in heap
  /\ rsp' = NoRsp /\ heap' = heap \ {"rsp"}
  /\ UNCHANGED <<vars, hpc, req, wbuf, quit, reply>>

(* What http_client_get_errcode and http_client_get_body show the caller. *)
http_client_get_errcode == rsp.errcode
http_client_get_body    == rsp.body

-----------------------------------------------------------------------------
HttpInit ==
  /\ Init
  /\ hpc = "idle" /\ req = NoReq /\ wbuf = <<>> /\ quit = 0 /\ rsp = NoRsp
  /\ heap = {} /\ reply \in Replies

HttpCode ==
  \/ OpenFailed \/ Opened \/ Written \/ Parse \/ ReadAgain \/ Clear \/ Close

(* The steps of the calls of conn.c that http_client_send makes.           *)
HttpConn ==
  /\ \/ OpenSelect \/ AllSelect \/ AllSome \/ AllNone
     \/ WriteSelect \/ WriteSome \/ WriteNone
  /\ UNCHANGED httpVars

HttpNext ==
  \/ \E q \in Requests : Send(q)
  \/ HttpCode \/ HttpConn \/ HttpPeer \/ http_client_free_rsp

HttpSpec == HttpInit /\ [][HttpNext]_allVars

(* The calling thread runs, and a peer that is not gone reads.             *)
HttpFairSpec ==
  /\ HttpSpec
  /\ WF_allVars(HttpCode) /\ WF_allVars(HttpConn)
  /\ WF_allVars(PeerDrain /\ HttpPeer)

-----------------------------------------------------------------------------
HttpTypeOK ==
  /\ hpc \in HttpPCs
  /\ req \in [method : Seq({"GET", "POST"}), header : Seq({"soapaction"}),
              body : Seq({"envelope"})]
  /\ wbuf \in Seq({"GET", "POST", "host", "soapaction", "length", "blank", "envelope"})
  /\ quit \in -3..0
  /\ rsp \in [errcode : Nat, body : Seq(1..MaxBytes)]
  /\ heap \subseteq {"req", "wbuf", "rsp"}
  /\ reply \in Replies

(* A body is whole: whatever the fragments the response came in, and       *)
(* however often the loop parsed a part of it, the body handed out is the  *)
(* text after the blank line, from its first byte, without a gap or a      *)
(* repetition, and at least as long as announced; its status is complete.  *)
WholeBody ==
  LET head == Len(Pieces(reply)) - reply.text
  IN  rsp.body # <<>> =>
        /\ rsp.errcode = reply.code
        /\ Len(rsp.body) >= reply.announced
        /\ \A i \in 1..Len(rsp.body) : rsp.body[i] = head + i

(* Every way out of http_client_send (no connection, a failed write, a     *)
(* peer that is gone, a response without text, a whole one) leaves neither *)
(* socket, text nor receive buffer behind; the response is there if it has *)
(* a status.  The request of a failed conn_open is the one exception.      *)
NothingHeld ==
  hpc = "idle" =>
    /\ sk = "none" /\ rbuf = buffer_clear
    /\ heap \ {"req"} = IF rsp.errcode = 0 THEN {} ELSE {"rsp"}
    /\ "req" \in heap => last.op = "conn_open" /\ last.code # 0

(* What the server gets is a beginning of one well-framed request: a       *)
(* length is in the header exactly if a body follows the blank line.       *)
RequestFramed ==
  LET sent == [i \in 1..Len(out) |-> wbuf[out[i]]]
  IN  hpc \in {"write", "read", "again"} =>
        /\ "length" \in ToSet(wbuf) <=> wbuf[Len(wbuf)] # "blank"
        /\ IsPrefix(sent, wbuf)
        /\ (hpc # "write" /\ Len(sent) < Len(wbuf)) => (rst = "seen" \/ urgent)

(* The caller's view: http_client_send implements HttpExchange.            *)
Exchange == INSTANCE HttpExchange WITH
  busy   <- hpc # "idle",
  answer <- [code |-> IF hpc = "idle" THEN rsp.errcode ELSE 0,
             body |-> IF hpc = "idle" THEN Len(rsp.body) ELSE 0]
ImplementsExchange == Exchange!Spec

(* http_client_send returns once the peer is gone, or has sent all of a    *)
(* reply that announces a length its text has.  Without a length it waits  *)
(* for the end of the connection.                                          *)
Answered ==
  arrived = Len(Pieces(reply)) /\ reply.code # 0 /\ reply.announced # NoLength
  /\ reply.text >= reply.announced
SendReturns ==
  (hpc # "idle" /\ (fin \/ rst # "no" \/ Answered)) ~> hpc = "idle"
=============================================================================
