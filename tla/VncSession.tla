----------------------------- MODULE VncSession -----------------------------
(***************************************************************************)
(* CoreStack/vnc_session.c: the RFB/MirrorLink session that                *)
(* vnc_session_task runs on a connected socket, against a server.          *)
(*                                                                         *)
(* The server's byte stream is the sequence s2c of the protocol fields it  *)
(* wrote.  A field has its kind, its length in bytes and its value; the    *)
(* client consumes it with one conn_read.  An action of the client is the  *)
(* code from the return of one conn_read to the next call of conn_read.    *)
(*                                                                         *)
(* The client ignores every result of conn_read.  A read that does not     *)
(* complete, or that asks for another number of bytes than the field at    *)
(* the head of the stream has, leaves the client between two fields: from  *)
(* then on ("synced" is FALSE) it takes arbitrary bytes for headers.       *)
(***************************************************************************)
EXTENDS Integers, Sequences, FiniteSets

CONSTANTS
  Versions,    \* minor versions the server speaks, 0 for a version unknown here
  Sizes,       \* desktop sizes <<width, height>> the server uses
  PayloadLens, \* lengths of names, cut texts, extension payloads; run counts
  ConfigLens,  \* lengths of display and event configurations
  MaxRects,    \* bound: rectangles in one framebuffer update
  MaxMsgs,     \* bound: messages the server sends after the configuration
  MaxGarbled,  \* bound: reads served off the field boundary, or failed by urgent data
  ShortReads,  \* conn_read's indeterminate timeout may expire
  Strict,      \* the server keeps to the encodings the client declared
  BigEndian    \* byte order of the client's host

ASSUME VncAssumption ==
  /\ Versions \subseteq {0, 7, 8}
  /\ Sizes \subseteq Nat \X Nat /\ Sizes # {}
  /\ PayloadLens \subseteq Nat /\ 0 \in PayloadLens
  /\ ConfigLens \subseteq Nat
  /\ MaxRects \in Nat /\ MaxMsgs \in Nat /\ MaxGarbled \in Nat
  /\ ShortReads \in BOOLEAN /\ Strict \in BOOLEAN /\ BigEndian \in BOOLEAN

VARIABLES
  \* the connection
  s2c,      \* fields written by the server, not yet read by the client
  closed,   \* the server is gone
  sent,     \* every message the client has tried to write
  \* the client
  pc,       \* the field the client is about to read
  need,     \* for a payload: the number of bytes it asks for
  version,  \* minor version of the handshake
  status,   \* session->status: 0, 1 after display, 2 after event configuration,
            \* 3 for any other byte
  size,     \* <<session->rfb_width, session->rfb_height>>
  etype,    \* type of the extension message being read
  num,      \* rectangles left in the update being parsed
  upd, inc, \* fb_update and inc of fb_update_parse
  rows,     \* rows left in the run-length rectangle being parsed
  synced,   \* the client reads at a field boundary
  eof,      \* a conn_read has returned -3: so will every later one
  garbled,  \* reads counted against MaxGarbled
  \* the server
  srv,      \* what the server does next
  srvPos,   \* messages of the client it has read
  srvReq,   \* update requests it has not answered
  srvSize,  \* its desktop size
  srvLeft,  \* rectangles it has announced and not yet sent
  srvMsgs,  \* messages counted against MaxMsgs
  srvBye,   \* it has sent a ByeBye
  \* history, for the properties
  spilled,  \* a configuration was copied over session->status
  lowRle    \* the server sent a run-length rectangle lower than its screen

stream == <<s2c, synced, eof, garbled>>
parse  == <<num, upd, inc, rows>>
config == <<status, spilled>>
client == <<pc, need, version, config, size, etype, parse>>
server == <<srv, srvPos, srvReq, srvSize, srvLeft, srvMsgs, srvBye, lowRle>>
vars   == <<stream, closed, sent, client, server>>

-----------------------------------------------------------------------------
(* Fields, messages.                                                       *)

Field(k, n, v) == [f |-> k, n |-> n, v |-> v]
Data(n) == IF n = 0 THEN << >> ELSE << Field("data", n, 0) >>

(* First byte of a server message; 150 stands for the types the switch of  *)
(* vnc_session_doworks does not know, 255 for the initial value of         *)
(* msg_type.  5 stands for the extension messages that change nothing.     *)
MsgTypes == {0, 1, 2, 3, 128, 150, 255}
ExtTypes == {0, 1, 3, 5}
Encodings == {"raw", "context", "desktopsize", "rle", "other"}
Rects == [e : Encodings, x : Nat, y : Nat, w : Nat, h : Nat]
Exts  == [etype : ExtTypes, len : Nat]
Inits == [w : Nat, h : Nat, name : Nat]

MsgType(t)  == << Field("type", 1, t) >>
Cut(n)      == MsgType(3) \o << Field("cut", 7, n) >> \o Data(n)
ColourMap(n) == MsgType(1) \o << Field("cmap", 6, n) >> \o Data(6 * n)
Ext(e, n)   == MsgType(128) \o << Field("ext", 3, [etype |-> e, len |-> n]) >> \o Data(n)
FbHeader(n) == MsgType(0) \o << Field("fb", 3, n) >>

(* A rectangle header, followed by its payload: w*h 16-bit pixels, the     *)
(* context information, one row of runs for each line, or what an encoding *)
(* unknown to the client carries.                                          *)
RowsOf(h, m) == [i \in 1..(IF m = 0 THEN h ELSE 2 * h) |->
                   IF m = 0 \/ i % 2 = 1 THEN Field("row", 2, m)
                                         ELSE Field("data", 3 * m, 0)]
RectFields(q, m) ==
  << Field("rect", 12, q) >> \o
  CASE q.e = "raw"     -> Data(q.w * q.h * 2)
    [] q.e = "context" -> Data(20)
    [] q.e = "rle"     -> RowsOf(q.h, m)
    [] q.e = "other"   -> Data(m)
    [] OTHER           -> << >>

(* What the client writes, in the only order it may write it; all but the  *)
(* framebuffer update request at most once.                                *)
Rank == [version |-> 1, security |-> 2, clientinit |-> 3, encodings |-> 4,
         display |-> 5, event |-> 6, pixelformat |-> 7, request |-> 8, byebye |-> 9]
Out(m) == [m |-> m, inc |-> 0, size |-> <<0, 0>>]
Request(i, s) == [m |-> "request", inc |-> i, size |-> s]
OutMsgs == [m : DOMAIN Rank, inc : {0, 1}, size : Nat \X Nat]

Write(ms) == sent' = sent \o ms

(* A 4-byte integer of the stream as the code reads it without ntohl.      *)
HostOrder(v) == IF BigEndian THEN v ELSE v * 16777216

-----------------------------------------------------------------------------
(* conn_read, as the session sees it (external contract: StreamReader).    *)

(* Rectangles.  Only raw ones are tested against the screen, and of        *)
(* context information and unknown encodings nobody looks at the size.     *)
AnyRect ==
  {q \in [e : Encodings, x : {0}, y : {0, 1},
          w : {s[1] : s \in Sizes}, h : {s[2] : s \in Sizes}] :
     /\ q.e = "raw" \/ q.y = 0
     /\ q.e \in {"context", "other"} => \A s \in Sizes : q.w <= s[1] /\ q.h <= s[2]}

(* Values of a field of kind k that arbitrary bytes may show.              *)
Any(k) ==
  CASE k = "version"   -> Versions
    [] k = "secnum"    -> {0, 1, 2}
    [] k = "sectypes"  -> {0, 1}
    [] k = "result"    -> {0, 1}
    [] k = "init"      -> [w : {s[1] : s \in Sizes}, h : {s[2] : s \in Sizes}, name : PayloadLens]
    [] k = "type"      -> MsgTypes
    [] k \in {"fb"}    -> 0..MaxRects
    [] k = "rect"      -> AnyRect
    [] k = "ext"       -> [etype : ExtTypes, len : PayloadLens \cup ConfigLens]
    [] k \in {"length", "row", "cut", "cmap"} -> PayloadLens
    [] OTHER           -> {0}

AtField(k, n) == s2c # << >> /\ Head(s2c).f = k /\ Head(s2c).n = n

(* What the code finds in its variable after a read that brought nothing:  *)
(* the initialiser where there is one (num = 0, msg_type = 0xff,           *)
(* header = {0}, the calloc'ed buffer), otherwise an indeterminate value.  *)
Untouched(k) ==
  CASE k \in {"secnum", "fb", "cut", "cmap", "data"} -> {0}
    [] k = "type" -> {255}
    [] k = "ext"  -> {[etype |-> 0, len |-> 0]}
    [] k = "init" -> {[w |-> 0, h |-> 0, name |-> 0]}
    [] OTHER      -> Any(k)

(* After a read that failed, with the bytes that did arrive over it.       *)
Stale(k) ==
  Untouched(k) \cup
  CASE k = "ext"  -> [etype : ExtTypes, len : {0}]
    [] k = "init" -> {[v EXCEPT !.name = 0] : v \in Any("init")}
    [] OTHER      -> {}

(* The values the code may see in a field of kind k. *)
Seen(k) == Any(k) \cup Stale(k)

(* conn_read of n bytes where the code expects a field of kind k; v is     *)
(* what it then sees.  The disjuncts: an empty read; the field; bytes of   *)
(* other fields (a read that is longer than the field at the head needs    *)
(* the bytes of later ones); a read that timed out (a one-byte read waits  *)
(* for ever); one that finds urgent data and takes nothing; the first read *)
(* to meet the end of the stream; a later one.                             *)
Read(k, n, v) ==
  \/ n = 0 /\ v = 0 /\ UNCHANGED stream
  \/ /\ n > 0 /\ ~eof /\ synced /\ AtField(k, n)
     /\ v = Head(s2c).v /\ s2c' = Tail(s2c)
     /\ UNCHANGED <<synced, eof, garbled>>
  \/ /\ n > 0 /\ ~eof /\ garbled < MaxGarbled
     /\ \/ ~synced
        \/ s2c # << >> /\ ~AtField(k, n) /\ (n <= Head(s2c).n \/ Len(s2c) > 1)
     /\ v \in Any(k)
     /\ synced' = FALSE /\ garbled' = garbled + 1 /\ s2c' = << >> /\ UNCHANGED eof
  \/ /\ n > 1 /\ ~eof /\ ShortReads
     /\ v \in Stale(k)
     /\ synced' = FALSE /\ s2c' = << >> /\ UNCHANGED <<eof, garbled>>
  \/ /\ n > 0 /\ ~eof /\ ~Strict /\ garbled < MaxGarbled
     /\ v \in Untouched(k)
     /\ garbled' = garbled + 1 /\ UNCHANGED <<s2c, synced, eof>>
  \/ /\ n > 0 /\ ~eof /\ closed
     /\ s2c = << >> \/ (Len(s2c) = 1 /\ Head(s2c).n < n)
     /\ v \in Stale(k)
     /\ eof' = TRUE /\ s2c' = << >> /\ UNCHANGED <<synced, garbled>>
  \/ /\ n > 0 /\ eof
     /\ v \in Untouched(k)
     /\ UNCHANGED stream

-----------------------------------------------------------------------------
(* vnc_session_task: the handshake.                                        *)

Handshake == <<config, parse, etype>>
End == pc' = "ended" /\ need' = 0

(* conn_write(ClientInit), then the 24 bytes of ServerInit are awaited. *)
AwaitInit == pc' = "init" /\ need' = 24

ReadVersion ==
  /\ pc = "version"
  /\ \E v \in Seen("version") :
       /\ Read("version", 12, v)
       /\ version' = v
       /\ \/ v = 0 /\ End /\ UNCHANGED sent
          \/ v # 0 /\ Write(<<Out("version")>>) /\ pc' = "secnum" /\ need' = 1
  /\ UNCHANGED <<closed, size, Handshake, server>>

ReadSecNum ==
  /\ pc = "secnum"
  /\ \E v \in Seen("secnum") :
       /\ Read("secnum", 1, v)
       /\ IF v = 0 THEN pc' = "length" /\ need' = 4
                   ELSE pc' = "sectypes" /\ need' = v
  /\ UNCHANGED <<closed, sent, version, size, Handshake, server>>

(* The reason string of a refusal: read and dropped, then the task ends.   *)
ReadReasonLength ==
  /\ pc = "length"
  /\ \E v \in Seen("length") :
       /\ Read("length", 4, v)
       /\ pc' = "reason" /\ need' = HostOrder(v)
  /\ UNCHANGED <<closed, sent, version, size, Handshake, server>>

ReadReason ==
  /\ pc = "reason"
  /\ Read("data", need, 0)
  /\ End
  /\ UNCHANGED <<closed, sent, version, size, Handshake, server>>

(* 1 if security type None is among the types offered. *)
ReadSecTypes ==
  /\ pc = "sectypes"
  /\ \E v \in Seen("sectypes") :
       /\ Read("sectypes", need, v)
       /\ \/ v = 0 /\ End /\ UNCHANGED sent
          \/ /\ v = 1 /\ version = 8
             /\ Write(<<Out("security")>>) /\ pc' = "result" /\ need' = 4
          \/ /\ v = 1 /\ version # 8
             /\ Write(<<Out("security"), Out("clientinit")>>) /\ AwaitInit
  /\ UNCHANGED <<closed, version, size, Handshake, server>>

ReadSecResult ==
  /\ pc = "result"
  /\ \E v \in Seen("result") :
       /\ Read("result", 4, v)
       /\ \/ /\ HostOrder(v) = 0
             /\ Write(<<Out("clientinit")>>) /\ AwaitInit
          \/ HostOrder(v) = 1 /\ pc' = "length" /\ need' = 4 /\ UNCHANGED sent
          \/ HostOrder(v) \notin {0, 1} /\ End /\ UNCHANGED sent
  /\ UNCHANGED <<closed, version, size, Handshake, server>>

(* The size is taken from the first bytes of ServerInit. *)
ReadInit ==
  /\ pc = "init"
  /\ \E v \in Seen("init") :
       /\ Read("init", 24, v)
       /\ size' = <<v.w, v.h>>
       /\ pc' = "name" /\ need' = v.name
  /\ UNCHANGED <<closed, sent, version, Handshake, server>>

NextMessage == pc' = "type" /\ need' = 1

ReadName ==
  /\ pc = "name"
  /\ Read("data", need, 0)
  /\ Write(<<Out("encodings")>>)
  /\ NextMessage
  /\ UNCHANGED <<closed, version, size, Handshake, server>>

-----------------------------------------------------------------------------
(* vnc_session_doworks: one round of the message loop.                     *)

Kept == <<closed, version, server>>

(* A message type the switch does not know is skipped as a single byte. *)
ReadType ==
  /\ pc = "type"
  /\ \E v \in Seen("type") :
       /\ Read("type", 1, v)
       /\ \/ v = 0 /\ pc' = "fb" /\ need' = 3
          \/ v = 1 /\ pc' = "cmap" /\ need' = 6
          \/ v = 3 /\ pc' = "cut" /\ need' = 7
          \/ v = 128 /\ pc' = "ext" /\ need' = 3
          \/ v \notin {0, 1, 3, 128} /\ NextMessage
  /\ UNCHANGED <<Kept, sent, size, Handshake>>

(* Set Colour Map Entries and Server Cut Text are read and dropped. *)
ReadColourMap ==
  /\ pc = "cmap"
  /\ \E v \in Seen("cmap") :
       /\ Read("cmap", 6, v)
       /\ pc' = "skip" /\ need' = 6 * v
  /\ UNCHANGED <<Kept, sent, size, Handshake>>

ReadCutText ==
  /\ pc = "cut"
  /\ \E v \in Seen("cut") :
       /\ Read("cut", 7, v)
       /\ pc' = "skip" /\ need' = v
  /\ UNCHANGED <<Kept, sent, size, Handshake>>

ReadSkipped ==
  /\ pc = "skip"
  /\ Read("data", need, 0)
  /\ NextMessage
  /\ UNCHANGED <<Kept, sent, size, Handshake>>

ReadExtHeader ==
  /\ pc = "ext"
  /\ \E v \in Seen("ext") :
       /\ Read("ext", 3, v)
       /\ etype' = v.etype
       /\ pc' = "extbody" /\ need' = v.len
  /\ UNCHANGED <<Kept, sent, size, config, parse>>

(* The records the two configurations are copied into, the bytes from     *)
(* there to session->status, and to the end of the session's record on the *)
(* stack of vnc_session_task (on a 64-bit machine).                        *)
Room     == [display |-> 12, event |-> 28]
ToStatus == [display |-> 40, event |-> 28]
ToEnd    == [display |-> 56, event |-> 44]

Crash == pc' = "crashed" /\ need' = 0 /\ UNCHANGED sent

(* Mutants of ByeBye: the next case falls into it; the loop goes on after  *)
(* the reply.                                                              *)
ByeBye_FallThrough ==
  /\ etype \in {0, 5}
  /\ Write(<<Out("byebye")>>) /\ End /\ UNCHANGED config

ByeBye_NoReturn ==
  /\ etype = 0
  /\ Write(<<Out("byebye")>>) /\ NextMessage /\ UNCHANGED config

(* The switch of ex_message_parse. *)
ByeBye ==
  /\ etype = 0
  /\ Write(<<Out("byebye")>>) /\ End /\ UNCHANGED config

(* Mutants of DisplayConfiguration: a repeated message is answered again;  *)
(* the status is not advanced.                                             *)
DisplayConfiguration_NoGuard ==
  /\ etype = 1
  /\ status' = 1 /\ UNCHANGED spilled
  /\ Write(<<Out("display")>>) /\ NextMessage

DisplayConfiguration_NoStatus ==
  /\ etype = 1 /\ status = 0
  /\ UNCHANGED config
  /\ Write(<<Out("display")>>) /\ NextMessage

(* All the bytes of the message are copied into the record, whatever their *)
(* number: after the status was set they may replace it, by any byte, and  *)
(* past the end of the session's record the process may be ended.  What    *)
(* lies there is not used before vnc_session_task returns.                 *)
DisplayConfiguration ==
  /\ etype = 1 /\ status = 0
  /\ status' \in IF need > ToStatus.display THEN 0..3 ELSE {1}
  /\ spilled' = (spilled \/ need > ToStatus.display)
  /\ \/ Write(<<Out("display")>>) /\ NextMessage
     \/ need > ToEnd.display /\ Crash

(* Mutant: a repeated message is answered again. *)
EventConfiguration_NoGuard ==
  /\ etype = 3 /\ status > 0
  /\ status' = 2 /\ UNCHANGED spilled
  /\ Write(<<Out("event"), Out("pixelformat"), Request(0, size)>>) /\ NextMessage

(* Copied in the same way, but before the status is set.                   *)
EventConfiguration ==
  /\ etype = 3 /\ status = 1
  /\ status' = 2 /\ UNCHANGED spilled
  /\ \/ Write(<<Out("event"), Out("pixelformat"), Request(0, size)>>) /\ NextMessage
     \/ need > ToEnd.event /\ Crash

OtherExtension ==
  /\ \/ etype = 1 /\ status # 0
     \/ etype = 3 /\ status # 1
     \/ etype \notin {0, 1, 3}
  /\ NextMessage /\ UNCHANGED <<config, sent>>

(* ex_message_parse: the payload is read first, whatever the type. *)
ReadExtBody ==
  /\ pc = "extbody"
  /\ Read("data", need, 0)
  /\ ByeBye \/ DisplayConfiguration \/ EventConfiguration \/ OtherExtension
  /\ UNCHANGED <<Kept, size, etype, parse>>

-----------------------------------------------------------------------------
(* fb_update_parse.                                                        *)

(* Mutant: i <= num for i < num. *)
NextRect_OneMore(n, s, u, i) ==
  /\ num' = n /\ upd' = u /\ inc' = i /\ size' = s
  /\ IF n >= 0 THEN pc' = "rect" /\ need' = 12 /\ UNCHANGED sent
               ELSE /\ NextMessage
                    /\ IF u = 1 THEN Write(<<Request(i, s)>>) ELSE UNCHANGED sent

(* After a rectangle, with n left in the update, the size s and the flags  *)
(* u and i: the next rectangle, or the end of the function, which asks for *)
(* the next update of the whole screen if this one carried anything.       *)
NextRect(n, s, u, i) ==
  /\ num' = n /\ upd' = u /\ inc' = i /\ size' = s
  /\ IF n > 0 THEN pc' = "rect" /\ need' = 12 /\ UNCHANGED sent
              ELSE /\ NextMessage
                   /\ IF u = 1 THEN Write(<<Request(i, s)>>) ELSE UNCHANGED sent

ReadUpdateHeader ==
  /\ pc = "fb"
  /\ \E v \in Seen("fb") :
       /\ Read("fb", 3, v)
       /\ NextRect(v, size, 0, 1)
  /\ UNCHANGED <<Kept, config, etype, rows>>

(* Mutant: fb_update is not set for a rectangle with a payload. *)
Payload_NoUpdate(n) ==
  /\ pc' = "payload" /\ need' = n
  /\ UNCHANGED <<num, upd, inc, size, rows, sent>>

(* The n bytes of a rectangle's payload follow. *)
Payload(n) ==
  /\ pc' = "payload" /\ need' = n
  /\ upd' = 1 /\ UNCHANGED <<num, inc, size, rows, sent>>

(* Mutant: >= for > in the test against the screen's size. *)
Visible_Inner(q) ==
  /\ q.w # 0 /\ q.h # 0
  /\ q.x + q.w < size[1] /\ q.y + q.h < size[2]

Visible(q) ==
  /\ q.w # 0 /\ q.h # 0
  /\ q.x + q.w <= size[1] /\ q.y + q.h <= size[2]

(* A raw rectangle that is empty or exceeds the screen is skipped without  *)
(* reading its pixels; a desktop-size rectangle has no payload; the number *)
(* of rows of a run-length rectangle is the screen's height, not q.h.      *)
Raw(q) ==
  /\ q.e = "raw"
  /\ IF Visible(q) THEN Payload(q.w * q.h * 2)
                   ELSE NextRect(num - 1, size, 1, inc) /\ UNCHANGED rows

ContextInformation(q) == q.e = "context" /\ Payload(20)

(* Mutants of DesktopSize: the new size is not stored; no request follows. *)
DesktopSize_NotStored(q) ==
  /\ q.e = "desktopsize"
  /\ NextRect(num - 1, size, 1, 0) /\ UNCHANGED rows

DesktopSize_NoUpdate(q) ==
  /\ q.e = "desktopsize"
  /\ NextRect(num - 1, <<q.w, q.h>>, upd, 0) /\ UNCHANGED rows

DesktopSize(q) ==
  /\ q.e = "desktopsize"
  /\ NextRect(num - 1, <<q.w, q.h>>, 1, 0) /\ UNCHANGED rows

RunLength(q) ==
  /\ q.e = "rle"
  /\ rows' = size[2]
  /\ IF size[2] = 0
     THEN NextRect(num - 1, size, 1, inc)
     ELSE pc' = "row" /\ need' = 2 /\ upd' = 1 /\ UNCHANGED <<num, inc, size, sent>>

UnknownEncoding(q) ==
  /\ q.e = "other"
  /\ NextRect(num - 1, size, upd, inc) /\ UNCHANGED rows

ReadRect ==
  /\ pc = "rect"
  /\ \E q \in Seen("rect") :
       /\ Read("rect", 12, q)
       /\ Raw(q) \/ ContextInformation(q) \/ DesktopSize(q) \/ RunLength(q) \/ UnknownEncoding(q)
  /\ UNCHANGED <<Kept, config, etype>>

ReadPayload ==
  /\ pc = "payload"
  /\ Read("data", need, 0)
  /\ NextRect(num - 1, size, upd, inc)
  /\ UNCHANGED <<Kept, config, etype, rows>>

(* framebuffer_rle_parse: a row is a count of runs and the runs. *)
ReadRow ==
  /\ pc = "row"
  /\ \E m \in Seen("row") :
       /\ Read("row", 2, m)
       /\ pc' = "runs" /\ need' = 3 * m
  /\ UNCHANGED <<Kept, sent, config, etype, size, parse>>

ReadRuns ==
  /\ pc = "runs"
  /\ Read("data", need, 0)
  /\ rows' = rows - 1
  /\ IF rows > 1 THEN pc' = "row" /\ need' = 2 /\ UNCHANGED <<num, upd, inc, size, sent>>
                 ELSE NextRect(num - 1, size, upd, inc)
  /\ UNCHANGED <<Kept, config, etype>>

Client ==
  \/ ReadVersion \/ ReadSecNum \/ ReadReasonLength \/ ReadReason
  \/ ReadSecTypes \/ ReadSecResult \/ ReadInit \/ ReadName
  \/ ReadType \/ ReadColourMap \/ ReadCutText \/ ReadSkipped
  \/ ReadExtHeader \/ ReadExtBody
  \/ ReadUpdateHeader \/ ReadRect \/ ReadPayload \/ ReadRow \/ ReadRuns

-----------------------------------------------------------------------------
(* The server (not under src/): it follows the protocol as the client's    *)
(* code expects it.  With Strict it announces only non-empty updates, only *)
(* as answers to requests, with rectangles in the encodings the client     *)
(* declared, inside the screen, and configurations for which the client    *)
(* has room; otherwise it sends any message at any time.                   *)

Send(fs) == s2c' = IF synced THEN s2c \o fs ELSE s2c

(* The next message of the client that the server has not read. *)
Receives(m) ==
  /\ srvPos < Len(sent) /\ sent[srvPos + 1].m = m
  /\ srvPos' = srvPos + 1

Refusal == { << Field("length", 4, n) >> \o Data(n) : n \in PayloadLens }

SrvSecurity ==
  /\ srv = "version" /\ Receives("version")
  /\ \/ /\ srv' = "security"
        /\ \E n \in {1, 2}, t \in {0, 1} :
             Send(<< Field("secnum", 1, n), Field("sectypes", n, t) >>)
     \/ /\ srv' = "done"
        /\ \E q \in Refusal : Send(<< Field("secnum", 1, 0) >> \o q)
  /\ UNCHANGED <<srvReq, srvSize, srvLeft, srvMsgs, srvBye, lowRle>>

SrvResult ==
  /\ srv = "security" /\ Receives("security")
  /\ \/ srv' = "init" /\ Send(IF version = 8 THEN << Field("result", 4, 0) >> ELSE << >>)
     \/ /\ version = 8 /\ srv' = "done"
        /\ \E q \in Refusal : Send(<< Field("result", 4, 1) >> \o q)
  /\ UNCHANGED <<srvReq, srvSize, srvLeft, srvMsgs, srvBye, lowRle>>

SrvInit ==
  /\ srv = "init" /\ Receives("clientinit")
  /\ srv' = "open"
  /\ srvSize' \in Sizes
  /\ \E n \in PayloadLens :
       Send(<< Field("init", 24, [w |-> srvSize'[1], h |-> srvSize'[2], name |-> n]) >> \o Data(n))
  /\ UNCHANGED <<srvReq, srvLeft, srvMsgs, srvBye, lowRle>>

(* The server reads on: the configuration messages of the client in their  *)
(* turn, each answered by the server's next one; requests; a ByeBye.  A    *)
(* write of the client may have failed, with urgent data pending: nobody   *)
(* looks at the result, and the message is not there to be read.           *)
SrvReceive ==
  /\ \/ srv = "open" /\ Receives("encodings") /\ srv' = "display" /\ UNCHANGED srvReq
     \/ srv = "sentdisplay" /\ Receives("display") /\ srv' = "event" /\ UNCHANGED srvReq
     \/ srv = "run" /\ (Receives("event") \/ Receives("pixelformat")) /\ UNCHANGED <<srv, srvReq>>
     \/ Receives("request") /\ srvReq' = srvReq + 1 /\ UNCHANGED srv
     \/ Receives("byebye") /\ srv' = "done" /\ UNCHANGED srvReq
     \/ /\ ~Strict /\ srvPos < Len(sent) /\ srvPos' = srvPos + 1
        /\ UNCHANGED <<srv, srvReq>>
  /\ UNCHANGED <<s2c, srvSize, srvLeft, srvMsgs, srvBye, lowRle>>

(* The lengths of a display (e = 1) or event (e = 3) configuration.        *)
Lens(e) ==
  {n \in ConfigLens : Strict => n <= IF e = 1 THEN Room.display ELSE Room.event}

SrvConfigure ==
  /\ srvLeft = 0
  /\ \/ srv = "display" /\ srv' = "sentdisplay" /\ (\E n \in Lens(1) : Send(Ext(1, n)))
     \/ srv = "event" /\ srv' = "run" /\ (\E n \in Lens(3) : Send(Ext(3, n)))
  /\ UNCHANGED <<srvPos, srvReq, srvSize, srvLeft, srvMsgs, srvBye, lowRle>>

(* The configuration messages a server may (re)send. *)
Repeatable == IF Strict THEN (IF srv = "run" THEN {1, 3}
                              ELSE IF srv \in {"sentdisplay", "event"} THEN {1} ELSE {})
                        ELSE {1, 3}

SrvMessage ==
  /\ srv \in {"display", "sentdisplay", "event", "run"}
  /\ srvLeft = 0 /\ ~srvBye /\ srvMsgs < MaxMsgs
  /\ srvMsgs' = srvMsgs + 1
  /\ \/ /\ \/ Send(MsgType(2))
           \/ \E n \in PayloadLens :
                \/ Send(Cut(n)) \/ Send(Ext(5, n))
                \/ ~Strict /\ Send(ColourMap(n))
           \/ \E e \in Repeatable : \E n \in Lens(e) : Send(Ext(e, n))
           \/ ~Strict /\ Send(MsgType(150))
        /\ UNCHANGED <<srvReq, srvLeft, srvBye>>
     \/ Send(Ext(0, 0)) /\ srvBye' = TRUE /\ UNCHANGED <<srvReq, srvLeft>>
     \/ /\ srvReq > 0 \/ ~Strict
        /\ srvLeft' \in (IF Strict THEN 1 ELSE 0)..MaxRects
        /\ Send(FbHeader(srvLeft'))
        /\ srvReq' = IF srvReq > 0 THEN srvReq - 1 ELSE 0
        /\ UNCHANGED srvBye
  /\ UNCHANGED <<srv, srvPos, srvSize, lowRle>>

(* One rectangle of an announced update. *)
Proper(q) ==
  /\ q.e \in {"raw", "context", "rle"} =>
       q.x + q.w <= srvSize[1] /\ q.y + q.h <= srvSize[2] /\ q.w > 0 /\ q.h > 0
  /\ q.e = "desktopsize" => q.x = 0 /\ q.y = 0 /\ <<q.w, q.h>> \in Sizes
  /\ q.e # "other"

SrvRect ==
  /\ srvLeft > 0
  /\ srvLeft' = srvLeft - 1
  /\ \E q \in Any("rect"), m \in PayloadLens :
       /\ Strict => Proper(q)
       /\ Send(RectFields(q, m))
       /\ srvSize' = IF q.e = "desktopsize" THEN <<q.w, q.h>> ELSE srvSize
       /\ lowRle' = (lowRle \/ (q.e = "rle" /\ q.h # srvSize[2]))
  /\ UNCHANGED <<srv, srvPos, srvReq, srvMsgs, srvBye>>

Server ==
  /\ ~closed
  /\ SrvSecurity \/ SrvResult \/ SrvInit \/ SrvReceive \/ SrvConfigure \/ SrvMessage \/ SrvRect
  /\ UNCHANGED <<closed, synced, eof, garbled, sent, client>>

(* The server closes, or the link breaks: what has not arrived is lost,    *)
(* and the last field to arrive may be incomplete.                         *)
SrvClose ==
  /\ ~closed
  /\ closed' = TRUE
  /\ \E k \in 0..Len(s2c) :
       \/ s2c' = SubSeq(s2c, 1, k)
       \/ k > 0 /\ s2c[k].n > 1 /\ s2c' = [SubSeq(s2c, 1, k) EXCEPT ![k].n = @ - 1]
  /\ UNCHANGED <<synced, eof, garbled, sent, client, server>>

-----------------------------------------------------------------------------
Init ==
  /\ \E v \in Any("version") : s2c = << Field("version", 12, v) >>
  /\ closed = FALSE /\ synced = TRUE /\ eof = FALSE /\ garbled = 0
  /\ sent = << >>
  /\ pc = "version" /\ need = 12 /\ version = 0 /\ status = 0
  /\ size = <<0, 0>> /\ etype = 0
  /\ num = 0 /\ upd = 0 /\ inc = 1 /\ rows = 0
  /\ srv = "version" /\ srvPos = 0 /\ srvReq = 0 /\ srvSize = <<0, 0>>
  /\ srvLeft = 0 /\ srvMsgs = 0 /\ srvBye = FALSE
  /\ spilled = FALSE /\ lowRle = FALSE

Next == Client \/ Server \/ SrvClose

Spec == Init /\ [][Next]_vars

(* The session's thread keeps running; the server takes part in the        *)
(* protocol: it reads, configures and completes the updates it announced.  *)
FairSpec ==
  /\ Spec
  /\ WF_vars(Client)
  /\ WF_vars((SrvSecurity \/ SrvResult \/ SrvInit \/ SrvReceive \/ SrvConfigure \/ SrvRect) /\ Server)

-----------------------------------------------------------------------------
Pcs == {"version", "secnum", "length", "reason", "sectypes", "result", "init", "name",
        "type", "cmap", "cut", "skip", "ext", "extbody",
        "fb", "rect", "payload", "row", "runs", "ended", "crashed"}
Phases == {"version", "security", "init", "open", "display", "sentdisplay", "event", "run", "done"}

(* The session's variables keep to the ranges of vnc_session.h and of the  *)
(* locals of the parsers.                                                  *)
TypeOK ==
  /\ closed \in BOOLEAN /\ synced \in BOOLEAN /\ eof \in BOOLEAN
  /\ garbled \in 0..MaxGarbled
  /\ sent \in Seq(OutMsgs)
  /\ pc \in Pcs /\ need \in Nat
  /\ version \in {0, 7, 8} /\ status \in 0..3 /\ size \in Nat \X Nat
  /\ etype \in ExtTypes
  /\ num \in 0..MaxRects /\ upd \in {0, 1} /\ inc \in {0, 1} /\ rows \in Nat
  /\ srv \in Phases /\ srvPos \in 0..Len(sent) /\ srvReq \in Nat
  /\ srvSize \in Nat \X Nat /\ srvLeft \in 0..MaxRects
  /\ srvMsgs \in 0..MaxMsgs /\ srvBye \in BOOLEAN
  /\ spilled \in BOOLEAN /\ lowRle \in BOOLEAN

Wrote(m) == \E i \in 1..Len(sent) : sent[i].m = m

(* The messages that may be written again: requests, and once the guard    *)
(* against a repeated configuration was overwritten, its answers.          *)
Repeats(m) ==
  m = "request" \/ (spilled /\ m \in {"display", "event", "pixelformat"})

(* Whatever the server sends, repeats or truncates, and however the stream *)
(* is misread, the client writes its setup messages at most once and in    *)
(* the protocol's order, no update request before SetEncodings, and        *)
(* nothing after its ByeBye.  There is one exception: a display            *)
(* configuration of more than 40 bytes is copied over session->status, and *)
(* then the answers to configurations may be written again; but no message *)
(* of the handshake, and nothing after the ByeBye, even so.                *)
OrderedOutput ==
  \A i, j \in 1..Len(sent) : i < j =>
    IF Repeats(sent[i].m) THEN Rank[sent[j].m] > Rank["encodings"]
                          ELSE Rank[sent[i].m] < Rank[sent[j].m]

LastRequest(i) ==
  /\ i \in 1..Len(sent) /\ sent[i].m = "request"
  /\ \A j \in 1..Len(sent) : j > i => sent[j].m # "request"

(* Between two messages the last request the client sent is for the whole  *)
(* screen as it now is: no resize goes by without a request at the new     *)
(* size.                                                                   *)
RequestTracksSize ==
  pc \in {"type", "ended"} => \A i \in 1..Len(sent) : LastRequest(i) => sent[i].size = size

(* After a resize the client asks for a full update: two successive        *)
(* requests with different sizes, and the second is not incremental.       *)
FullAfterResize ==
  \A i, j \in 1..Len(sent) :
    (/\ i < j /\ sent[i].m = "request" /\ sent[j].m = "request"
     /\ \A k \in 1..Len(sent) : i < k /\ k < j => sent[k].m # "request"
     /\ sent[i].size # sent[j].size)
      => sent[j].inc = 0

(* The two together: what the client asks for fits the screen it has.      *)
RequestsFit == RequestTracksSize /\ FullAfterResize

(* Once in the message loop the session ends by writing a ByeBye and in no *)
(* other way; an end of the stream does not end it.                        *)
EndsOnlyByBye ==
  /\ Wrote("byebye") => pc = "ended"
  /\ pc = "ended" /\ Wrote("encodings") => Wrote("byebye")

(* vnc_session.c: "response byebye message with byebye."  The client       *)
(* writes ByeBye only if the server did, or the server is gone, or a low   *)
(* run-length rectangle made it lose the field boundary (see InSync).      *)
ByeIsResponse == Wrote("byebye") => srvBye \/ eof \/ lowRle

(* With a server that keeps to the declared encodings and reads that       *)
(* complete, one thing alone makes the parsers lose the field boundary,    *)
(* whatever the messages, their payload lengths and the resizes between    *)
(* them: a run-length rectangle lower than the screen, of which            *)
(* framebuffer_rle_parse reads as many rows as the screen has.  (The       *)
(* reason of a refused handshake is read with the length in host order:    *)
(* the session ends there.)                                                *)
InSync == synced \/ pc = "ended" \/ lowRle

Updating == pc \in {"rect", "payload", "row", "runs"}
Fields(k) == Cardinality({i \in 1..Len(s2c) : s2c[i].f = k})
Unread(m) == Cardinality({i \in (srvPos + 1)..Len(sent) : sent[i].m = m})

(* Flow control: from the configuration on there is exactly one update     *)
(* request or update in flight (unread by the server, waiting there, in    *)
(* the stream, or being parsed), and none before: requests neither pile up *)
(* nor run dry.                                                            *)
OneUpdateInFlight ==
  (~closed /\ synced /\ pc # "ended") =>
    Unread("request") + srvReq + Fields("fb") + (IF Updating THEN 1 ELSE 0)
      = IF status = 2 THEN 1 ELSE 0

(* When everything the server sent has been parsed the client knows the    *)
(* server's desktop size.                                                  *)
SizesAgree ==
  (~closed /\ synced /\ s2c = << >> /\ srvLeft = 0 /\ pc = "type") => size = srvSize

(* Every session is configured, unless it is refused, or ends, or the      *)
(* server goes away.                                                       *)
Configured == <>(status = 2 \/ srv = "done" \/ closed \/ pc = "ended")

(* An update the server has begun leads to the next request in the         *)
(* server's hands: the screen keeps being refreshed, unless the client     *)
(* waits for the rows a low run-length rectangle does not have.            *)
ScreenKeepsFlowing ==
  srvLeft > 0 ~> (srvReq > 0 \/ closed \/ pc = "ended" \/ lowRle)
=============================================================================
