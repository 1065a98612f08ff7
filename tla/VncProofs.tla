----------------------------- MODULE VncProofs ------------------------------
(***************************************************************************)
(* Proofs about VncSession, for every server (strict or not), every        *)
(* timing of the reads, and all bounds.                                    *)
(***************************************************************************)
EXTENDS VncSession, SequenceTheorems, TLAPS

-----------------------------------------------------------------------------
(* The values a read may leave in the client's variables.                  *)

LEMMA SizesType == \A s \in Sizes : s[1] \in Nat /\ s[2] \in Nat
  BY VncAssumption

LEMMA SeenTypes ==
  /\ Seen("version") \subseteq {0, 7, 8}
  /\ Seen("secnum") \subseteq {0, 1, 2}
  /\ Seen("length") \subseteq Nat
  /\ Seen("sectypes") \subseteq {0, 1}
  /\ Seen("result") \subseteq {0, 1}
  /\ Seen("init") \subseteq Inits
  /\ Seen("type") \subseteq MsgTypes
  /\ Seen("cmap") \subseteq Nat /\ Seen("cut") \subseteq Nat /\ Seen("row") \subseteq Nat
  /\ Seen("fb") \subseteq 0..MaxRects
  /\ Seen("rect") \subseteq Rects
  /\ Seen("ext") \subseteq Exts
<1> USE VncAssumption, SizesType
<1>1. Seen("version") \subseteq {0, 7, 8}
  BY DEF Seen, Any, Untouched, Stale
<1>2. Seen("secnum") \subseteq {0, 1, 2}
  BY DEF Seen, Any, Untouched, Stale
<1>3. Seen("length") \subseteq Nat /\ Seen("cmap") \subseteq Nat /\ Seen("cut") \subseteq Nat
      /\ Seen("row") \subseteq Nat
  BY DEF Seen, Any, Untouched, Stale
<1>4. Seen("sectypes") \subseteq {0, 1} /\ Seen("result") \subseteq {0, 1}
  BY DEF Seen, Any, Untouched, Stale
<1>5. Seen("init") \subseteq Inits
  BY DEF Seen, Any, Untouched, Stale, Inits
<1>6. Seen("type") \subseteq MsgTypes
  BY DEF Seen, Any, Untouched, Stale, MsgTypes
<1>7. Seen("fb") \subseteq 0..MaxRects
  BY DEF Seen, Any, Untouched, Stale
<1>8. Seen("rect") \subseteq Rects
  BY DEF Seen, Any, AnyRect, Untouched, Stale, Rects, Encodings
<1>9. Seen("ext") \subseteq Exts
  BY DEF Seen, Any, Untouched, Stale, Exts, ExtTypes
<1> QED
  BY <1>1, <1>2, <1>3, <1>4, <1>5, <1>6, <1>7, <1>8, <1>9

-----------------------------------------------------------------------------
(* The messages of the client.                                             *)

LEMMA RankDomain ==
  DOMAIN Rank = {"version", "security", "clientinit", "encodings", "display", "event",
                 "pixelformat", "request", "byebye"}
  BY DEF Rank

LEMMA OutType ==
  /\ \A m \in DOMAIN Rank : Out(m) \in OutMsgs /\ Out(m).m = m
  /\ \A i \in {0, 1}, s \in Nat \X Nat : Request(i, s) \in OutMsgs /\ Request(i, s).m = "request"
                                         /\ Request(i, s).inc = i /\ Request(i, s).size = s
  BY RankDomain DEF Out, Request, OutMsgs

LEMMA Extended ==
  ASSUME NEW s \in Seq(OutMsgs), NEW ms \in Seq(OutMsgs)
  PROVE  s \o ms \in Seq(OutMsgs) /\ Len(s \o ms) >= Len(s)
  OBVIOUS

-----------------------------------------------------------------------------
(* Type correctness.                                                       *)

ClientType ==
  /\ sent \in Seq(OutMsgs)
  /\ pc \in Pcs /\ need \in Nat
  /\ version \in {0, 7, 8} /\ status \in 0..3 /\ size \in Nat \X Nat
  /\ etype \in ExtTypes
  /\ num \in 0..MaxRects /\ upd \in {0, 1} /\ inc \in {0, 1} /\ rows \in Nat

(* Inside a rectangle the loop counters have not run out. *)
Parsing ==
  /\ pc \in {"rect", "payload", "row", "runs"} => num > 0
  /\ pc \in {"row", "runs"} => rows > 0

ClientInv == ClientType /\ Parsing

LEMMA NextRectType ==
  ASSUME ClientInv, NEW n \in 0..MaxRects, NEW s \in Nat \X Nat, NEW u \in {0, 1}, NEW i \in {0, 1},
         NextRect(n, s, u, i), rows' \in Nat, UNCHANGED <<version, status, etype>>
  PROVE  ClientInv' /\ Len(sent') >= Len(sent)
<1>1. /\ num' = n /\ upd' = u /\ inc' = i /\ size' = s
      /\ \/ n > 0 /\ pc' = "rect" /\ need' = 12 /\ sent' = sent
         \/ pc' = "type" /\ need' = 1 /\ sent' = sent
         \/ pc' = "type" /\ need' = 1 /\ Write(<<Request(i, s)>>)
  BY VncAssumption DEF NextRect, NextMessage
<1>2. <<Request(i, s)>> \in Seq(OutMsgs) /\ Len(<<Request(i, s)>>) = 1
  BY OutType
<1>3. sent' \in Seq(OutMsgs) /\ Len(sent') >= Len(sent)
  <2>1. CASE sent' = sent
    BY <2>1 DEF ClientInv, ClientType
  <2>2. CASE Write(<<Request(i, s)>>)
    BY <1>2, <2>2 DEF Write, ClientInv, ClientType
  <2> QED
    BY <1>1, <2>1, <2>2
<1> QED
  BY <1>1, <1>3, VncAssumption DEF ClientInv, ClientType, Parsing, Pcs

LEMMA ClientTypeStep ==
  ASSUME ClientInv, Client
  PROVE  ClientInv' /\ Len(sent') >= Len(sent)
<1> USE VncAssumption
<1> DEFINE Goal == ClientInv' /\ Len(sent') >= Len(sent)
<1>0. Len(sent) \in Nat
  BY DEF ClientInv, ClientType
<1>1. CASE ReadVersion
  <2>1. PICK v \in Seen("version") :
          /\ version' = v
          /\ \/ End /\ UNCHANGED sent
             \/ Write(<<Out("version")>>) /\ pc' = "secnum" /\ need' = 1
    BY <1>1 DEF ReadVersion
  <2>2. UNCHANGED <<size, status, num, upd, inc, rows, etype>>
    BY <1>1 DEF ReadVersion, Handshake, config, parse
  <2>3. <<Out("version")>> \in Seq(OutMsgs) /\ Len(<<Out("version")>>) = 1
    BY OutType, RankDomain
  <2>4. sent' \in Seq(OutMsgs) /\ Len(sent') >= Len(sent)
    <3>1. sent \in Seq(OutMsgs)
      BY DEF ClientInv, ClientType
    <3>2. CASE UNCHANGED sent
      BY <1>0, <3>1, <3>2
    <3>3. CASE sent' = sent \o <<Out("version")>>
      BY <2>3, <3>1, <3>3, Extended
    <3> QED
      BY <2>1, <3>2, <3>3 DEF Write
  <2> QED
    BY <2>1, <2>2, <2>4, SeenTypes DEF ClientInv, ClientType, Parsing, Pcs, End
<1>2. CASE ReadSecNum \/ ReadReasonLength
  <2>1. /\ pc' \in {"length", "sectypes", "reason"}
        /\ need' \in Nat
    BY <1>2, SeenTypes DEF ReadSecNum, ReadReasonLength, HostOrder
  <2>2. UNCHANGED <<sent, version, size, status, num, upd, inc, rows, etype>>
    BY <1>2 DEF ReadSecNum, ReadReasonLength, Handshake, config, parse
  <2> QED
    BY <1>0, <2>1, <2>2 DEF ClientInv, ClientType, Parsing, Pcs
<1>3. CASE ReadReason
  BY <1>0, <1>3 DEF ReadReason, Handshake, config, parse, End, ClientInv, ClientType, Parsing, Pcs
<1>4. CASE ReadSecTypes
  <2>1. \/ End /\ UNCHANGED sent
        \/ Write(<<Out("security")>>) /\ pc' = "result" /\ need' = 4
        \/ Write(<<Out("security"), Out("clientinit")>>) /\ AwaitInit
    BY <1>4 DEF ReadSecTypes
  <2>2. UNCHANGED <<version, size, status, num, upd, inc, rows, etype>>
    BY <1>4 DEF ReadSecTypes, Handshake, config, parse
  <2>3. /\ <<Out("security")>> \in Seq(OutMsgs) /\ Len(<<Out("security")>>) = 1
        /\ <<Out("security"), Out("clientinit")>> \in Seq(OutMsgs)
        /\ Len(<<Out("security"), Out("clientinit")>>) = 2
    BY OutType, RankDomain
  <2>4. sent' \in Seq(OutMsgs) /\ Len(sent') >= Len(sent)
    <3>0. sent \in Seq(OutMsgs)
      BY DEF ClientInv, ClientType
    <3>1. CASE UNCHANGED sent
      BY <1>0, <2>3, <3>0, <3>1 DEF Write
    <3>2. CASE Write(<<Out("security")>>)
      BY <1>0, <2>3, <3>0, <3>2, Extended DEF Write
    <3>3. CASE Write(<<Out("security"), Out("clientinit")>>)
      BY <1>0, <2>3, <3>0, <3>3, Extended DEF Write
    <3> QED
      BY <2>1, <3>1, <3>2, <3>3
  <2> QED
    BY <2>1, <2>2, <2>4 DEF ClientInv, ClientType, Parsing, Pcs, End, AwaitInit
<1>5. CASE ReadSecResult
  <2>1. \/ Write(<<Out("clientinit")>>) /\ AwaitInit
        \/ pc' = "length" /\ need' = 4 /\ UNCHANGED sent
        \/ End /\ UNCHANGED sent
    BY <1>5 DEF ReadSecResult
  <2>2. UNCHANGED <<version, size, status, num, upd, inc, rows, etype>>
    BY <1>5 DEF ReadSecResult, Handshake, config, parse
  <2>3. <<Out("clientinit")>> \in Seq(OutMsgs) /\ Len(<<Out("clientinit")>>) = 1
    BY OutType, RankDomain
  <2>4. sent' \in Seq(OutMsgs) /\ Len(sent') >= Len(sent)
    <3>0. sent \in Seq(OutMsgs)
      BY DEF ClientInv, ClientType
    <3>1. CASE UNCHANGED sent
      BY <1>0, <2>3, <3>0, <3>1 DEF Write
    <3>2. CASE Write(<<Out("clientinit")>>)
      BY <1>0, <2>3, <3>0, <3>2, Extended DEF Write
    <3> QED
      BY <2>1, <3>1, <3>2
  <2> QED
    BY <2>1, <2>2, <2>4 DEF ClientInv, ClientType, Parsing, Pcs, End, AwaitInit
<1>6. CASE ReadInit
  <2>1. PICK v \in Seen("init") : size' = <<v.w, v.h>> /\ pc' = "name" /\ need' = v.name
    BY <1>6 DEF ReadInit
  <2>2. v \in Inits
    BY SeenTypes
  <2>3. UNCHANGED <<sent, version, status, num, upd, inc, rows, etype>>
    BY <1>6 DEF ReadInit, Handshake, config, parse
  <2> QED
    BY <1>0, <2>1, <2>2, <2>3 DEF Inits, ClientInv, ClientType, Parsing, Pcs
<1>7. CASE ReadName
  <2>1. Write(<<Out("encodings")>>) /\ pc' = "type" /\ need' = 1
    BY <1>7 DEF ReadName, NextMessage
  <2>2. UNCHANGED <<version, size, status, num, upd, inc, rows, etype>>
    BY <1>7 DEF ReadName, Handshake, config, parse
  <2>3. <<Out("encodings")>> \in Seq(OutMsgs) /\ Len(<<Out("encodings")>>) = 1
    BY OutType, RankDomain
  <2>4. sent' \in Seq(OutMsgs) /\ Len(sent') >= Len(sent)
    BY <1>0, <2>1, <2>3 DEF Write, ClientInv, ClientType
  <2> QED
    BY <2>1, <2>2, <2>4 DEF ClientInv, ClientType, Parsing, Pcs
<1>8. CASE ReadType \/ ReadColourMap \/ ReadCutText \/ ReadSkipped
  <2>1. pc' \in {"type", "fb", "cmap", "cut", "ext", "skip"} /\ need' \in Nat
    <3>1. CASE ReadType
      BY <3>1 DEF ReadType, NextMessage
    <3>2. CASE ReadColourMap
      BY <3>2, SeenTypes DEF ReadColourMap
    <3>3. CASE ReadCutText
      BY <3>3, SeenTypes DEF ReadCutText
    <3>4. CASE ReadSkipped
      BY <3>4 DEF ReadSkipped, NextMessage
    <3> QED
      BY <1>8, <3>1, <3>2, <3>3, <3>4
  <2>2. UNCHANGED <<version, sent, size, status, num, upd, inc, rows, etype>>
    BY <1>8 DEF ReadType, ReadColourMap, ReadCutText, ReadSkipped, Kept, Handshake, config, parse
  <2> QED
    BY <1>0, <2>1, <2>2 DEF ClientInv, ClientType, Parsing, Pcs
<1>9. CASE ReadExtHeader
  <2>1. PICK v \in Seen("ext") : etype' = v.etype /\ pc' = "extbody" /\ need' = v.len
    BY <1>9 DEF ReadExtHeader
  <2>2. v \in Exts
    BY SeenTypes
  <2>3. UNCHANGED <<sent, version, size, status, num, upd, inc, rows>>
    BY <1>9 DEF ReadExtHeader, Kept, parse, config
  <2> QED
    BY <1>0, <2>1, <2>2, <2>3 DEF Exts, ClientInv, ClientType, Parsing, Pcs
<1>10. CASE ReadExtBody
  <2>1. UNCHANGED <<version, size, etype, num, upd, inc, rows>>
    BY <1>10 DEF ReadExtBody, Kept, parse
  <2>2. \/ Write(<<Out("byebye")>>) /\ End /\ status' \in 0..3
        \/ Write(<<Out("display")>>) /\ NextMessage /\ status' \in 0..3
        \/ /\ Write(<<Out("event"), Out("pixelformat"), Request(0, size)>>) /\ NextMessage
           /\ status' \in 0..3
        \/ Crash /\ status' \in 0..3
        \/ NextMessage /\ UNCHANGED sent /\ status' \in 0..3
    <3>1. status \in 0..3
      BY DEF ClientInv, ClientType
    <3>2. CASE ByeBye
      BY <3>1, <3>2 DEF ByeBye, config
    <3>3. CASE DisplayConfiguration
      BY <3>1, <3>3 DEF DisplayConfiguration
    <3>4. CASE EventConfiguration
      BY <3>1, <3>4 DEF EventConfiguration
    <3>5. CASE OtherExtension
      BY <3>1, <3>5 DEF OtherExtension, config
    <3> QED
      BY <1>10, <3>2, <3>3, <3>4, <3>5 DEF ReadExtBody
  <2>3. /\ <<Out("byebye")>> \in Seq(OutMsgs) /\ Len(<<Out("byebye")>>) = 1
        /\ <<Out("display")>> \in Seq(OutMsgs) /\ Len(<<Out("display")>>) = 1
        /\ <<Out("event"), Out("pixelformat"), Request(0, size)>> \in Seq(OutMsgs)
        /\ Len(<<Out("event"), Out("pixelformat"), Request(0, size)>>) = 3
    BY OutType, RankDomain DEF ClientInv, ClientType
  <2>4. sent' \in Seq(OutMsgs) /\ Len(sent') >= Len(sent)
    <3>0. sent \in Seq(OutMsgs)
      BY DEF ClientInv, ClientType
    <3>1. CASE UNCHANGED sent
      BY <1>0, <2>3, <3>0, <3>1 DEF Write
    <3>2. CASE Write(<<Out("byebye")>>)
      BY <1>0, <2>3, <3>0, <3>2, Extended DEF Write
    <3>3. CASE Write(<<Out("display")>>)
      BY <1>0, <2>3, <3>0, <3>3, Extended DEF Write
    <3>4. CASE Write(<<Out("event"), Out("pixelformat"), Request(0, size)>>)
      BY <1>0, <2>3, <3>0, <3>4, Extended DEF Write
    <3> QED
      BY <2>2, <3>1, <3>2, <3>3, <3>4 DEF Crash
  <2> QED
    BY <2>1, <2>2, <2>4 DEF ClientInv, ClientType, Parsing, Pcs, End, NextMessage, Crash
<1>11. CASE ReadUpdateHeader
  <2>1. PICK v \in Seen("fb") : NextRect(v, size, 0, 1)
    BY <1>11 DEF ReadUpdateHeader
  <2>2. UNCHANGED <<version, status, etype, rows>>
    BY <1>11 DEF ReadUpdateHeader, Kept, config
  <2>3. v \in 0..MaxRects /\ size \in Nat \X Nat /\ rows \in Nat
    BY SeenTypes DEF ClientInv, ClientType
  <2> QED
    BY <2>1, <2>2, <2>3, NextRectType
<1>12. CASE ReadRect
  <2>1. PICK q \in Seen("rect") :
          Raw(q) \/ ContextInformation(q) \/ DesktopSize(q) \/ RunLength(q) \/ UnknownEncoding(q)
    BY <1>12 DEF ReadRect
  <2>2. UNCHANGED <<version, status, etype>> /\ pc = "rect"
    BY <1>12 DEF ReadRect, Kept, config
  <2>3. /\ q \in Rects /\ <<q.w, q.h>> \in Nat \X Nat /\ q.w * q.h * 2 \in Nat
        /\ num - 1 \in 0..MaxRects /\ size \in Nat \X Nat /\ size[2] \in Nat
        /\ upd \in {0, 1} /\ inc \in {0, 1} /\ rows \in Nat /\ num > 0
    <3>1. q \in Rects
      BY SeenTypes
    <3>2. q.w \in Nat /\ q.h \in Nat
      BY <3>1 DEF Rects
    <3>3. q.w * q.h \in Nat
      BY <3>2
    <3>4. q.w * q.h * 2 \in Nat
      BY <3>3
    <3>5. num > 0 /\ num \in 0..MaxRects
      BY <2>2 DEF ClientInv, ClientType, Parsing
    <3> QED
      BY <3>1, <3>2, <3>4, <3>5 DEF ClientInv, ClientType
  <2>4. ASSUME NEW n \in Nat, Payload(n) PROVE Goal
    BY <1>0, <2>2, <2>3, <2>4 DEF Payload, ClientInv, ClientType, Parsing, Pcs
  <2>5. CASE Raw(q)
    <3>1. Payload(q.w * q.h * 2) \/ (NextRect(num - 1, size, 1, inc) /\ UNCHANGED rows)
      BY <2>5 DEF Raw
    <3> QED
      BY <2>2, <2>3, <2>4, <3>1, NextRectType
  <2>6. CASE ContextInformation(q)
    BY <2>4, <2>6 DEF ContextInformation
  <2>7. CASE DesktopSize(q)
    BY <2>2, <2>3, <2>7, NextRectType DEF DesktopSize
  <2>8. CASE RunLength(q)
    <3>1. CASE size[2] = 0
      BY <2>2, <2>3, <2>8, <3>1, NextRectType DEF RunLength
    <3>2. CASE size[2] # 0
      BY <1>0, <2>2, <2>3, <2>8, <3>2 DEF RunLength, ClientInv, ClientType, Parsing, Pcs
    <3> QED
      BY <3>1, <3>2
  <2>9. CASE UnknownEncoding(q)
    BY <2>2, <2>3, <2>9, NextRectType DEF UnknownEncoding
  <2> QED
    BY <2>1, <2>5, <2>6, <2>7, <2>8, <2>9
<1>13. CASE ReadPayload
  <2>1. NextRect(num - 1, size, upd, inc) /\ UNCHANGED <<version, status, etype, rows>> /\ pc = "payload"
    BY <1>13 DEF ReadPayload, Kept, config
  <2>2. num - 1 \in 0..MaxRects /\ size \in Nat \X Nat /\ upd \in {0, 1} /\ inc \in {0, 1} /\ rows \in Nat
    BY <2>1 DEF ClientInv, ClientType, Parsing
  <2> QED
    BY <2>1, <2>2, NextRectType
<1>14. CASE ReadRow
  <2>1. pc = "row" /\ pc' = "runs" /\ need' \in Nat
    BY <1>14, SeenTypes DEF ReadRow
  <2>2. UNCHANGED <<version, sent, size, status, num, upd, inc, rows, etype>>
    BY <1>14 DEF ReadRow, Kept, parse, config
  <2> QED
    BY <1>0, <2>1, <2>2 DEF ClientInv, ClientType, Parsing, Pcs
<1>15. CASE ReadRuns
  <2>1. /\ pc = "runs" /\ rows' = rows - 1
        /\ \/ rows > 1 /\ pc' = "row" /\ need' = 2 /\ UNCHANGED <<num, upd, inc, size, sent>>
           \/ NextRect(num - 1, size, upd, inc)
    BY <1>15 DEF ReadRuns
  <2>2. UNCHANGED <<version, status, etype>>
    BY <1>15 DEF ReadRuns, Kept, config
  <2>3. /\ num - 1 \in 0..MaxRects /\ size \in Nat \X Nat /\ upd \in {0, 1} /\ inc \in {0, 1}
        /\ rows' \in Nat /\ num > 0
    BY <2>1 DEF ClientInv, ClientType, Parsing
  <2>4. CASE rows > 1 /\ pc' = "row" /\ need' = 2 /\ UNCHANGED <<num, upd, inc, size, sent>>
    BY <1>0, <2>1, <2>2, <2>3, <2>4 DEF ClientInv, ClientType, Parsing, Pcs
  <2>5. CASE NextRect(num - 1, size, upd, inc)
    BY <2>2, <2>3, <2>5, NextRectType
  <2> QED
    BY <2>1, <2>4, <2>5
<1> QED
  BY <1>1, <1>2, <1>3, <1>4, <1>5, <1>6, <1>7, <1>8, <1>9, <1>10, <1>11, <1>12, <1>13, <1>14, <1>15
  DEF Client

(* The server's variables and the flags. *)
ServerType ==
  /\ srv \in Phases /\ srvPos \in 0..Len(sent) /\ srvReq \in Nat
  /\ srvSize \in Nat \X Nat /\ srvLeft \in 0..MaxRects /\ srvMsgs \in 0..MaxMsgs
  /\ garbled \in 0..MaxGarbled

Flags ==
  /\ closed \in BOOLEAN /\ synced \in BOOLEAN /\ eof \in BOOLEAN
  /\ srvBye \in BOOLEAN /\ lowRle \in BOOLEAN /\ spilled \in BOOLEAN

TypeInv == ClientInv /\ ServerType /\ Flags

(* Every step of the client is one read, and leaves the server alone. *)
LEMMA ClientReads ==
  ASSUME Client
  PROVE  (\E k, n, v : Read(k, n, v)) /\ UNCHANGED <<closed, server>>
<1>1. CASE ReadVersion
  BY <1>1 DEF ReadVersion
<1>2. CASE ReadSecNum
  BY <1>2 DEF ReadSecNum
<1>3. CASE ReadReasonLength
  BY <1>3 DEF ReadReasonLength
<1>4. CASE ReadReason
  BY <1>4 DEF ReadReason
<1>5. CASE ReadSecTypes
  BY <1>5 DEF ReadSecTypes
<1>6. CASE ReadSecResult
  BY <1>6 DEF ReadSecResult
<1>7. CASE ReadInit
  BY <1>7 DEF ReadInit
<1>8. CASE ReadName
  BY <1>8 DEF ReadName
<1>9. CASE ReadType
  BY <1>9 DEF ReadType, Kept
<1>10. CASE ReadColourMap
  BY <1>10 DEF ReadColourMap, Kept
<1>11. CASE ReadCutText
  BY <1>11 DEF ReadCutText, Kept
<1>12. CASE ReadSkipped
  BY <1>12 DEF ReadSkipped, Kept
<1>13. CASE ReadExtHeader
  BY <1>13 DEF ReadExtHeader, Kept
<1>14. CASE ReadExtBody
  BY <1>14 DEF ReadExtBody, Kept
<1>15. CASE ReadUpdateHeader
  BY <1>15 DEF ReadUpdateHeader, Kept, config
<1>16. CASE ReadRect
  BY <1>16 DEF ReadRect, Kept, config
<1>17. CASE ReadPayload
  BY <1>17 DEF ReadPayload, Kept, config
<1>18. CASE ReadRow
  BY <1>18 DEF ReadRow, Kept
<1>19. CASE ReadRuns
  BY <1>19 DEF ReadRuns, Kept, config
<1> QED
  BY <1>1, <1>2, <1>3, <1>4, <1>5, <1>6, <1>7, <1>8, <1>9, <1>10, <1>11, <1>12, <1>13,
     <1>14, <1>15, <1>16, <1>17, <1>18, <1>19 DEF Client

LEMMA ReadStream ==
  ASSUME NEW k, NEW n, NEW v, Read(k, n, v)
  PROVE  /\ garbled' = garbled \/ (garbled < MaxGarbled /\ garbled' = garbled + 1)
         /\ synced' = synced \/ synced' = FALSE
         /\ eof' = eof \/ eof' = TRUE
  BY Zenon DEF Read, stream

(* Whether a configuration was ever copied over the status. *)
LEMMA ClientSpills ==
  ASSUME Client
  PROVE  spilled' = spilled \/ spilled' = (spilled \/ need > ToStatus.display)
<1> USE DEF config, Handshake
<1>1. CASE ReadVersion \/ ReadSecNum \/ ReadReasonLength \/ ReadReason
  BY <1>1 DEF ReadVersion, ReadSecNum, ReadReasonLength, ReadReason
<1>2. CASE ReadSecTypes \/ ReadSecResult \/ ReadInit \/ ReadName
  BY <1>2 DEF ReadSecTypes, ReadSecResult, ReadInit, ReadName
<1>3. CASE ReadType \/ ReadColourMap \/ ReadCutText \/ ReadSkipped \/ ReadExtHeader
  BY <1>3 DEF ReadType, ReadColourMap, ReadCutText, ReadSkipped, ReadExtHeader
<1>4. CASE ReadExtBody
  BY <1>4 DEF ReadExtBody, ByeBye, DisplayConfiguration, EventConfiguration, OtherExtension
<1>5. CASE ReadUpdateHeader \/ ReadRect \/ ReadPayload \/ ReadRow \/ ReadRuns
  BY <1>5 DEF ReadUpdateHeader, ReadRect, ReadPayload, ReadRow, ReadRuns
<1> QED
  BY <1>1, <1>2, <1>3, <1>4, <1>5 DEF Client

LEMMA ClientServerType == TypeInv /\ Client => (ServerType /\ Flags)'
<1> SUFFICES ASSUME TypeInv, Client PROVE (ServerType /\ Flags)'
  OBVIOUS
<1>1. UNCHANGED <<closed, srv, srvPos, srvReq, srvSize, srvLeft, srvMsgs, srvBye, lowRle>>
  BY ClientReads DEF server
<1>2. /\ garbled' = garbled \/ (garbled < MaxGarbled /\ garbled' = garbled + 1)
      /\ synced' = synced \/ synced' = FALSE
      /\ eof' = eof \/ eof' = TRUE
  BY ClientReads, ReadStream
<1>3. Len(sent') >= Len(sent) /\ Len(sent) \in Nat /\ Len(sent') \in Nat
  BY ClientTypeStep DEF TypeInv, ClientInv, ClientType
<1>4. ServerType'
  BY <1>1, <1>2, <1>3, VncAssumption DEF TypeInv, ServerType
<1>5. spilled' \in BOOLEAN
  BY ClientSpills DEF TypeInv, Flags
<1>6. Flags'
  BY <1>1, <1>2, <1>5, Zenon DEF TypeInv, Flags
<1> QED
  BY <1>4, <1>6

LEMMA ServerTypeStep == TypeInv /\ Server => TypeInv'
<1> SUFFICES ASSUME TypeInv, Server PROVE TypeInv'
  OBVIOUS
<1> USE VncAssumption
<1>1. UNCHANGED <<closed, synced, eof, garbled, sent, pc, need, version, status, spilled, size,
                  etype, num, upd, inc, rows>>
  BY DEF Server, client, config, parse
<1>2. ClientInv'
  BY <1>1 DEF TypeInv, ClientInv, ClientType, Parsing
<1>3. Len(sent) \in Nat
  BY DEF TypeInv, ClientInv, ClientType
<1>4. ASSUME NEW m, Receives(m) PROVE srvPos' \in 0..Len(sent)
  BY <1>3, <1>4 DEF Receives, TypeInv, ServerType
<1>5. /\ srv' \in Phases /\ srvPos' \in 0..Len(sent) /\ srvReq' \in Nat
      /\ srvSize' \in Nat \X Nat /\ srvLeft' \in 0..MaxRects /\ srvMsgs' \in 0..MaxMsgs
  <2>0. /\ srv \in Phases /\ srvPos \in 0..Len(sent) /\ srvReq \in Nat
        /\ srvSize \in Nat \X Nat /\ srvLeft \in 0..MaxRects /\ srvMsgs \in 0..MaxMsgs
    BY DEF TypeInv, ServerType
  <2>1. CASE SrvSecurity
    BY <1>4, <2>0, <2>1 DEF SrvSecurity, Phases
  <2>2. CASE SrvResult
    BY <1>4, <2>0, <2>2 DEF SrvResult, Phases
  <2>3. CASE SrvInit
    BY <1>4, <2>0, <2>3 DEF SrvInit, Phases
  <2>4. CASE SrvReceive
    <3>0. srvPos < Len(sent) /\ srvPos' = srvPos + 1 => srvPos' \in 0..Len(sent)
      BY <1>3, <2>0
    <3>1. /\ srv' \in Phases /\ srvPos' \in 0..Len(sent) /\ (srvReq' = srvReq \/ srvReq' = srvReq + 1)
      BY <1>4, <2>0, <2>4, <3>0 DEF SrvReceive, Phases
    <3>2. UNCHANGED <<srvSize, srvLeft, srvMsgs>>
      BY <2>4 DEF SrvReceive
    <3> QED
      BY <2>0, <3>1, <3>2
  <2>5. CASE SrvConfigure
    BY <2>0, <2>5 DEF SrvConfigure, Phases
  <2>6. CASE SrvMessage
    <3>1. srvMsgs < MaxMsgs /\ srvMsgs' = srvMsgs + 1 /\ UNCHANGED <<srv, srvPos, srvSize>>
      BY <2>6 DEF SrvMessage
    <3>2. \/ UNCHANGED <<srvReq, srvLeft>>
          \/ /\ srvLeft' \in (IF Strict THEN 1 ELSE 0)..MaxRects
             /\ srvReq' = IF srvReq > 0 THEN srvReq - 1 ELSE 0
      BY <2>6, Zenon DEF SrvMessage
    <3> QED
      BY <2>0, <3>1, <3>2
  <2>7. CASE SrvRect
    <3>1. srvLeft > 0 /\ srvLeft' = srvLeft - 1 /\ UNCHANGED <<srv, srvPos, srvReq, srvMsgs>>
      BY <2>7 DEF SrvRect
    <3>2. PICK q \in Any("rect") : srvSize' = IF q.e = "desktopsize" THEN <<q.w, q.h>> ELSE srvSize
      BY <2>7 DEF SrvRect
    <3>3. q \in Rects
      BY SeenTypes DEF Seen
    <3> QED
      BY <2>0, <3>1, <3>2, <3>3 DEF Rects
  <2> QED
    BY <2>1, <2>2, <2>3, <2>4, <2>5, <2>6, <2>7 DEF Server
<1>6. srvBye' \in BOOLEAN /\ lowRle' \in BOOLEAN
  <2>1. srvBye' = srvBye \/ srvBye' = TRUE
    BY DEF Server, SrvSecurity, SrvResult, SrvInit, SrvReceive, SrvConfigure, SrvMessage, SrvRect
  <2>2. srvBye' \in BOOLEAN
    BY <2>1 DEF TypeInv, Flags
  <2>3. CASE SrvRect
    <3>1. PICK q \in Any("rect") : lowRle' = (lowRle \/ (q.e = "rle" /\ q.h # srvSize[2]))
      BY <2>3 DEF SrvRect
    <3> QED
      BY <2>2, <3>1
  <2>4. CASE lowRle' = lowRle
    BY <2>2, <2>4 DEF TypeInv, Flags
  <2> QED
    BY <2>3, <2>4 DEF Server, SrvSecurity, SrvResult, SrvInit, SrvReceive, SrvConfigure, SrvMessage
<1>7. ServerType'
  BY <1>1, <1>5 DEF TypeInv, ServerType
<1>8. Flags'
  BY <1>1, <1>6 DEF TypeInv, Flags
<1> QED
  BY <1>2, <1>7, <1>8 DEF TypeInv

LEMMA InitType == Init => TypeInv
<1> SUFFICES ASSUME Init PROVE TypeInv
  OBVIOUS
<1>1. ClientInv
  BY VncAssumption DEF Init, ClientInv, ClientType, Parsing, Pcs, ExtTypes
<1>2. ServerType
  BY VncAssumption DEF Init, ServerType, Phases
<1>3. Flags
  BY DEF Init, Flags
<1> QED
  BY <1>1, <1>2, <1>3 DEF TypeInv

LEMMA TypeNext == TypeInv /\ [Next]_vars => TypeInv'
<1> SUFFICES ASSUME TypeInv, [Next]_vars PROVE TypeInv'
  OBVIOUS
<1>1. CASE Client
  BY <1>1, ClientTypeStep, ClientServerType DEF TypeInv
<1>2. CASE Server
  BY <1>2, ServerTypeStep
<1>3. CASE SrvClose
  <2>1. closed' = TRUE /\ UNCHANGED <<synced, eof, garbled, sent, client, server>>
    BY <1>3 DEF SrvClose
  <2>2. ClientInv' /\ ServerType'
    BY <2>1 DEF client, config, parse, server, TypeInv, ClientInv, ClientType, Parsing, ServerType
  <2>3. Flags'
    BY <2>1, Zenon DEF client, config, server, TypeInv, Flags
  <2> QED
    BY <2>2, <2>3 DEF TypeInv
<1>4. CASE UNCHANGED vars
  <2>1. ClientInv' /\ ServerType'
    BY <1>4 DEF vars, stream, client, config, parse, server, TypeInv, ClientInv, ClientType, Parsing, ServerType
  <2>2. Flags'
    BY <1>4, Zenon DEF vars, stream, client, config, server, TypeInv, Flags
  <2> QED
    BY <2>1, <2>2 DEF TypeInv
<1> QED
  BY <1>1, <1>2, <1>3, <1>4 DEF Next

(* Whatever bytes arrive, the session's variables keep their ranges: in    *)
(* particular the rectangle and row counters never pass zero.              *)
THEOREM VncTypeOK == Spec => []TypeOK
<1>1. TypeInv => TypeOK
  BY DEF TypeInv, ClientInv, ClientType, ServerType, Flags, TypeOK
<1>2. Spec => []TypeInv
  BY InitType, TypeNext, PTL DEF Spec
<1> QED
  BY <1>1, <1>2, PTL

-----------------------------------------------------------------------------
(* The order of the client's messages.  The inductive invariant bounds the *)
(* rank of what has been written by the place the client has reached.      *)

(* Repeats, with p for "a configuration was copied over the status".       *)
Repeated(p, m) == m = "request" \/ (p /\ m \in {"display", "event", "pixelformat"})

Ordered(p, s, b) ==
  /\ \A i, j \in 1..Len(s) : i < j =>
       /\ Repeated(p, s[i].m) => Rank[s[j].m] > Rank["encodings"]
       /\ ~Repeated(p, s[i].m) => Rank[s[i].m] < Rank[s[j].m]
  /\ \A i \in 1..Len(s) : /\ Repeated(p, s[i].m) => b >= Rank["encodings"]
                          /\ ~Repeated(p, s[i].m) => Rank[s[i].m] <= b

Reached ==
  IF pc = "version" THEN 0
  ELSE IF pc \in {"secnum", "sectypes"} THEN 1
  ELSE IF pc \in {"length", "reason", "result"} THEN 2
  ELSE IF pc \in {"init", "name"} THEN 3
  ELSE IF pc = "ended" THEN 9
  ELSE IF spilled \/ status = 0 THEN 4
  ELSE IF status = 1 THEN 5 ELSE 7

OrderInv == Ordered(spilled, sent, Reached)

LEMMA RankValues ==
  /\ Rank["version"] = 1 /\ Rank["security"] = 2 /\ Rank["clientinit"] = 3 /\ Rank["encodings"] = 4
  /\ Rank["display"] = 5 /\ Rank["event"] = 6 /\ Rank["pixelformat"] = 7 /\ Rank["request"] = 8
  /\ Rank["byebye"] = 9
  /\ \A m \in DOMAIN Rank : Rank[m] \in 1..9
  BY RankDomain DEF Rank

LEMMA ReachedType == Reached \in 0..9
  BY DEF Reached

(* A setup message beyond the bound may follow. *)
LEMMA OrderedSetup ==
  ASSUME NEW p, NEW s \in Seq(OutMsgs), NEW b \in 0..9, Ordered(p, s, b),
         NEW x \in OutMsgs, ~Repeated(p, x.m), Rank[x.m] > b
  PROVE  Ordered(p, Append(s, x), Rank[x.m]) /\ Append(s, x) \in Seq(OutMsgs)
<1> DEFINE t == Append(s, x)
<1>1. t \in Seq(OutMsgs) /\ Len(t) = Len(s) + 1 /\ Len(s) \in Nat
      /\ t[Len(s) + 1] = x /\ \A i \in 1..Len(s) : t[i] = s[i]
  OBVIOUS
<1>2. \A y \in OutMsgs : Rank[y.m] \in 1..9
  BY RankValues DEF OutMsgs
<1> HIDE DEF t
<1>3. \A i \in 1..Len(t) : /\ Repeated(p, t[i].m) => Rank[x.m] >= Rank["encodings"]
                           /\ ~Repeated(p, t[i].m) => Rank[t[i].m] <= Rank[x.m]
  <2> SUFFICES ASSUME NEW i \in 1..Len(t)
               PROVE  /\ Repeated(p, t[i].m) => Rank[x.m] >= Rank["encodings"]
                      /\ ~Repeated(p, t[i].m) => Rank[t[i].m] <= Rank[x.m]
    OBVIOUS
  <2>1. Rank[x.m] \in 1..9 /\ Rank["encodings"] = 4
    BY <1>2, RankValues
  <2>2. CASE i \in 1..Len(s)
    <3>1. t[i] = s[i] /\ s[i] \in OutMsgs /\ Rank[s[i].m] \in 1..9
      BY <1>1, <1>2, <2>2
    <3>2. /\ Repeated(p, s[i].m) => b >= Rank["encodings"]
          /\ ~Repeated(p, s[i].m) => Rank[s[i].m] <= b
      BY <2>2 DEF Ordered
    <3>3. CASE Repeated(p, s[i].m)
      BY <2>1, <3>1, <3>2, <3>3
    <3>4. CASE ~Repeated(p, s[i].m)
      <4>1. Rank[s[i].m] <= b /\ b \in Int /\ Rank[x.m] \in Int /\ Rank[s[i].m] \in Int
        BY <2>1, <3>1, <3>2, <3>4
      <4>2. b < Rank[x.m]
        BY <4>1
      <4>3. Rank[s[i].m] <= Rank[x.m]
        BY <4>1, <4>2
      <4>4. t[i].m = s[i].m
        BY <3>1
      <4> QED
        BY <3>4, <4>3, <4>4
    <3> QED
      BY <3>3, <3>4
  <2>3. CASE i = Len(s) + 1
    BY <1>1, <2>1, <2>3
  <2> QED
    BY <1>1, <2>2, <2>3
<1>4. \A i, j \in 1..Len(t) : i < j =>
        /\ Repeated(p, t[i].m) => Rank[t[j].m] > Rank["encodings"]
        /\ ~Repeated(p, t[i].m) => Rank[t[i].m] < Rank[t[j].m]
  <2> SUFFICES ASSUME NEW i \in 1..Len(t), NEW j \in 1..Len(t), i < j
               PROVE  /\ Repeated(p, t[i].m) => Rank[t[j].m] > Rank["encodings"]
                      /\ ~Repeated(p, t[i].m) => Rank[t[i].m] < Rank[t[j].m]
    OBVIOUS
  <2>1. i \in 1..Len(s) /\ t[i] = s[i] /\ s[i] \in OutMsgs
    BY <1>1
  <2>2. CASE j \in 1..Len(s)
    BY <1>1, <2>1, <2>2 DEF Ordered
  <2>3. CASE j = Len(s) + 1
    <3>1. /\ Repeated(p, s[i].m) => b >= Rank["encodings"]
          /\ ~Repeated(p, s[i].m) => Rank[s[i].m] <= b
      BY <2>1 DEF Ordered
    <3>2. t[j] = x /\ Rank[x.m] \in 1..9 /\ Rank[s[i].m] \in 1..9 /\ Rank["encodings"] = 4
      BY <1>1, <1>2, <2>1, <2>3, RankValues
    <3>3. b \in Int /\ b < Rank[x.m] /\ Rank[x.m] \in Int /\ Rank[s[i].m] \in Int /\ t[i].m = s[i].m
      BY SMTT(30), <2>1, <3>2
    <3>4. Repeated(p, s[i].m) => Rank[x.m] > 4
      BY <3>1, <3>2, <3>3
    <3>5. ~Repeated(p, s[i].m) => Rank[s[i].m] < Rank[x.m]
      BY <3>1, <3>3
    <3> QED
      BY <3>2, <3>3, <3>4, <3>5
  <2> QED
    BY <1>1, <2>2, <2>3
<1>5. Ordered(p, t, Rank[x.m])
  BY <1>3, <1>4 DEF Ordered
<1> QED
  BY <1>1, <1>5 DEF t

(* So may a message that repeats, as long as no ByeBye has been written. *)
LEMMA OrderedRepeat ==
  ASSUME NEW p, NEW s \in Seq(OutMsgs), NEW b \in 4..7, Ordered(p, s, b),
         NEW x \in OutMsgs, Repeated(p, x.m), Rank[x.m] > b
  PROVE  Ordered(p, Append(s, x), b) /\ Append(s, x) \in Seq(OutMsgs)
<1> DEFINE t == Append(s, x)
<1>1. t \in Seq(OutMsgs) /\ Len(t) = Len(s) + 1 /\ Len(s) \in Nat
      /\ t[Len(s) + 1] = x /\ \A i \in 1..Len(s) : t[i] = s[i]
  OBVIOUS
<1>2. \A y \in OutMsgs : Rank[y.m] \in 1..9
  BY RankValues DEF OutMsgs
<1> HIDE DEF t
<1>3. \A i \in 1..Len(t) : /\ Repeated(p, t[i].m) => b >= Rank["encodings"]
                           /\ ~Repeated(p, t[i].m) => Rank[t[i].m] <= b
  BY <1>1, RankValues DEF Ordered
<1>4. \A i, j \in 1..Len(t) : i < j =>
        /\ Repeated(p, t[i].m) => Rank[t[j].m] > Rank["encodings"]
        /\ ~Repeated(p, t[i].m) => Rank[t[i].m] < Rank[t[j].m]
  <2> SUFFICES ASSUME NEW i \in 1..Len(t), NEW j \in 1..Len(t), i < j
               PROVE  /\ Repeated(p, t[i].m) => Rank[t[j].m] > Rank["encodings"]
                      /\ ~Repeated(p, t[i].m) => Rank[t[i].m] < Rank[t[j].m]
    OBVIOUS
  <2>1. i \in 1..Len(s) /\ t[i] = s[i] /\ s[i] \in OutMsgs
    BY <1>1
  <2>2. CASE j \in 1..Len(s)
    BY <1>1, <2>1, <2>2 DEF Ordered
  <2>3. CASE j = Len(s) + 1
    <3>1. ~Repeated(p, s[i].m) => Rank[s[i].m] <= b
      BY <2>1 DEF Ordered
    <3>2. t[j] = x /\ Rank[x.m] \in 1..9 /\ Rank[s[i].m] \in 1..9 /\ Rank["encodings"] = 4
      BY <1>1, <1>2, <2>1, <2>3, RankValues
    <3>3. Rank[x.m] > 4 /\ b \in Int /\ t[i].m = s[i].m
      BY <2>1, <3>2
    <3>4. ASSUME ~Repeated(p, s[i].m) PROVE Rank[s[i].m] < Rank[x.m]
      <4>1. Rank[s[i].m] <= b
        BY <3>1, <3>4
      <4>2. Rank[s[i].m] \in Int /\ Rank[x.m] \in Int /\ b \in Int /\ b < Rank[x.m]
        BY <3>2, <3>3
      <4> QED
        BY <4>1, <4>2
    <3> QED
      BY <3>2, <3>3, <3>4
  <2> QED
    BY <1>1, <2>2, <2>3
<1>5. Ordered(p, t, b)
  BY <1>3, <1>4 DEF Ordered
<1> QED
  BY <1>1, <1>5 DEF t

LEMMA OrderedWeaken ==
  ASSUME NEW p, NEW s \in Seq(OutMsgs), NEW b \in 0..9, NEW c \in 0..9, Ordered(p, s, b), b <= c
  PROVE  Ordered(p, s, c)
<1>1. ASSUME NEW i \in 1..Len(s)
      PROVE  /\ Repeated(p, s[i].m) => c >= Rank["encodings"]
             /\ ~Repeated(p, s[i].m) => Rank[s[i].m] <= c
  <2>1. /\ Repeated(p, s[i].m) => b >= Rank["encodings"]
        /\ ~Repeated(p, s[i].m) => Rank[s[i].m] <= b
    BY DEF Ordered
  <2>2. s[i] \in OutMsgs
    OBVIOUS
  <2>3. Rank[s[i].m] \in Int /\ Rank["encodings"] \in Int /\ b \in Int /\ c \in Int
    <3>1. \A y \in OutMsgs : Rank[y.m] \in 1..9
      BY RankValues DEF OutMsgs
    <3> QED
      BY <2>2, <3>1, RankValues
  <2>4. Repeated(p, s[i].m) => c >= Rank["encodings"]
    BY <2>1, <2>3
  <2>5. ~Repeated(p, s[i].m) => Rank[s[i].m] <= c
    BY <2>1, <2>3
  <2> QED
    BY <2>4, <2>5
<1> QED
  BY <1>1 DEF Ordered

(* Before the first display configuration nothing has been written that a  *)
(* spill would let repeat.                                                 *)
LEMMA OrderedSpill ==
  ASSUME NEW p, NEW s \in Seq(OutMsgs), Ordered(p, s, 4)
  PROVE  Ordered(TRUE, s, 4)
<1>1. ASSUME NEW i \in 1..Len(s)
      PROVE  /\ Repeated(p, s[i].m) => Repeated(TRUE, s[i].m)
             /\ ~Repeated(p, s[i].m) => ~Repeated(TRUE, s[i].m)
  <2>1. CASE Repeated(p, s[i].m)
    BY <2>1 DEF Repeated
  <2>2. CASE ~Repeated(p, s[i].m)
    <3>1. Rank[s[i].m] <= 4
      BY <2>2 DEF Ordered
    <3> QED
      BY <2>2, <3>1, RankValues DEF Repeated
  <2> QED
    BY <2>1, <2>2
<1> QED
  BY <1>1 DEF Ordered

(* Steps that write nothing, or one setup message, or a request. *)
LEMMA OrderQuiet ==
  ASSUME ClientInv, OrderInv, sent' = sent, UNCHANGED spilled, Reached <= Reached'
  PROVE  OrderInv'
<1>1. sent \in Seq(OutMsgs) /\ Reached \in 0..9 /\ Reached' \in 0..9
  BY DEF ClientInv, ClientType, Reached
<1>2. Ordered(spilled, sent, Reached')
  BY <1>1, OrderedWeaken DEF OrderInv
<1> QED
  BY <1>2 DEF OrderInv

LEMMA OrderSetup ==
  ASSUME ClientInv, OrderInv, UNCHANGED spilled,
         NEW m \in DOMAIN Rank, ~Repeated(spilled, m),
         Write(<<Out(m)>>), Reached < Rank[m], Rank[m] <= Reached'
  PROVE  OrderInv'
<1>1. sent \in Seq(OutMsgs) /\ Reached \in 0..9 /\ Reached' \in 0..9 /\ Rank[m] \in 0..9
  BY RankValues DEF ClientInv, ClientType, Reached
<1>2. Out(m) \in OutMsgs /\ Out(m).m = m
  BY OutType
<1>3. Ordered(spilled, Append(sent, Out(m)), Rank[m]) /\ Append(sent, Out(m)) \in Seq(OutMsgs)
  BY <1>1, <1>2, OrderedSetup DEF OrderInv
<1>4. sent' = Append(sent, Out(m))
  BY <1>1, <1>2 DEF Write
<1>5. Ordered(spilled', sent', Reached')
  BY <1>1, <1>3, <1>4, OrderedWeaken
<1> QED
  BY <1>5 DEF OrderInv

LEMMA OrderRequest ==
  ASSUME ClientInv, OrderInv, UNCHANGED spilled, NEW i \in {0, 1}, NEW s \in Nat \X Nat,
         Write(<<Request(i, s)>>), Reached \in 4..7, Reached' = Reached
  PROVE  OrderInv'
<1>1. sent \in Seq(OutMsgs)
  BY DEF ClientInv, ClientType
<1>2. Request(i, s) \in OutMsgs /\ Request(i, s).m = "request"
  BY OutType
<1>3. Repeated(spilled, Request(i, s).m) /\ Rank[Request(i, s).m] = 8
  BY <1>2, RankValues DEF Repeated
<1>4. Ordered(spilled, Append(sent, Request(i, s)), Reached)
  BY <1>1, <1>2, <1>3, OrderedRepeat DEF OrderInv
<1>5. sent' = Append(sent, Request(i, s))
  BY <1>1, <1>2 DEF Write
<1> QED
  BY <1>4, <1>5 DEF OrderInv

LEMMA OrderNextRect ==
  ASSUME ClientInv, OrderInv, NEW n, NEW s \in Nat \X Nat, NEW u, NEW i \in {0, 1},
         NextRect(n, s, u, i), UNCHANGED config, pc \in {"fb", "rect", "payload", "row", "runs"}
  PROVE  OrderInv'
<1>1. \/ pc' = "rect" /\ sent' = sent
      \/ pc' = "type" /\ sent' = sent
      \/ pc' = "type" /\ Write(<<Request(i, s)>>)
  BY DEF NextRect, NextMessage
<1>2. Reached \in 4..7 /\ Reached' = Reached
  BY <1>1 DEF Reached, ClientInv, ClientType, config
<1>3. CASE sent' = sent
  BY <1>2, <1>3, OrderQuiet DEF config
<1>4. CASE Write(<<Request(i, s)>>)
  BY <1>2, <1>4, OrderRequest DEF config
<1> QED
  BY <1>1, <1>3, <1>4

LEMMA OrderStep == TypeInv /\ OrderInv /\ Client => OrderInv'
<1> SUFFICES ASSUME ClientInv, spilled \in BOOLEAN, OrderInv, Client PROVE OrderInv'
  BY DEF TypeInv, Flags
<1> USE RankDomain DEF Repeated
<1>0. status \in 0..3 /\ size \in Nat \X Nat /\ inc \in {0, 1} /\ sent \in Seq(OutMsgs)
  BY DEF ClientInv, ClientType
<1>1. CASE ReadVersion
  <2>1. /\ pc = "version" /\ UNCHANGED spilled
        /\ \/ pc' = "ended" /\ sent' = sent
           \/ Write(<<Out("version")>>) /\ pc' = "secnum"
    BY <1>1 DEF ReadVersion, End, Handshake, config
  <2>2. CASE pc' = "ended" /\ sent' = sent
    <3>1. Reached <= Reached'
      BY <2>1, <2>2 DEF Reached
    <3> QED
      BY <2>1, <2>2, <3>1, OrderQuiet
  <2>3. CASE Write(<<Out("version")>>) /\ pc' = "secnum"
    <3>1. Reached < Rank["version"] /\ Rank["version"] <= Reached'
      BY <2>1, <2>3, RankValues DEF Reached
    <3> QED
      BY <2>1, <2>3, <3>1, OrderSetup
  <2> QED
    BY <2>1, <2>2, <2>3
<1>2. CASE ReadSecNum \/ ReadReasonLength \/ ReadReason
  <2>1. /\ sent' = sent /\ UNCHANGED spilled
        /\ \/ pc = "secnum" /\ pc' \in {"length", "sectypes"}
           \/ pc = "length" /\ pc' = "reason"
           \/ pc = "reason" /\ pc' = "ended"
    BY <1>2 DEF ReadSecNum, ReadReasonLength, ReadReason, End, Handshake, config
  <2>2. Reached <= Reached'
    BY <2>1 DEF Reached
  <2> QED
    BY <2>1, <2>2, OrderQuiet
<1>3. CASE ReadSecTypes
  <2>1. /\ pc = "sectypes" /\ UNCHANGED spilled
        /\ \/ pc' = "ended" /\ sent' = sent
           \/ Write(<<Out("security")>>) /\ pc' = "result"
           \/ Write(<<Out("security"), Out("clientinit")>>) /\ pc' = "init"
    BY <1>3 DEF ReadSecTypes, End, AwaitInit, Handshake, config
  <2>2. CASE pc' = "ended" /\ sent' = sent
    <3>1. Reached <= Reached'
      BY <2>1, <2>2 DEF Reached
    <3> QED
      BY <2>1, <2>2, <3>1, OrderQuiet
  <2>3. CASE Write(<<Out("security")>>) /\ pc' = "result"
    <3>1. Reached < Rank["security"] /\ Rank["security"] <= Reached'
      BY <2>1, <2>3, RankValues DEF Reached
    <3> QED
      BY <2>1, <2>3, <3>1, OrderSetup
  <2>4. CASE Write(<<Out("security"), Out("clientinit")>>) /\ pc' = "init"
    <3> DEFINE a == Out("security")
               c == Out("clientinit")
               s1 == Append(sent, a)
    <3>1. a \in OutMsgs /\ a.m = "security" /\ c \in OutMsgs /\ c.m = "clientinit"
      BY OutType
    <3>2. Reached = 1 /\ Reached' = 3 /\ Rank["security"] = 2 /\ Rank["clientinit"] = 3
      BY <2>1, <2>4, RankValues DEF Reached
    <3>3. sent' = sent \o <<a, c>>
      BY <2>4 DEF Write
    <3> HIDE DEF a, c
    <3>4. Ordered(spilled, s1, 2) /\ s1 \in Seq(OutMsgs)
      BY <1>0, <3>1, <3>2, OrderedSetup DEF OrderInv
    <3>5. sent' = Append(s1, c)
      BY <1>0, <3>1, <3>3
    <3> HIDE DEF s1
    <3>6. 2 \in 0..9 /\ Rank[c.m] > 2 /\ ~Repeated(spilled, c.m) /\ Rank[c.m] = 3
      BY <3>1, <3>2
    <3>7. Ordered(spilled, Append(s1, c), Rank[c.m])
      BY <3>1, <3>4, <3>6, OrderedSetup
    <3> QED
      BY <2>1, <3>2, <3>5, <3>6, <3>7 DEF OrderInv
  <2> QED
    BY <2>1, <2>2, <2>3, <2>4
<1>4. CASE ReadSecResult
  <2>1. /\ pc = "result" /\ UNCHANGED spilled
        /\ \/ Write(<<Out("clientinit")>>) /\ pc' = "init"
           \/ pc' \in {"length", "ended"} /\ sent' = sent
    BY <1>4 DEF ReadSecResult, AwaitInit, End, Handshake, config
  <2>2. CASE Write(<<Out("clientinit")>>) /\ pc' = "init"
    <3>1. Reached < Rank["clientinit"] /\ Rank["clientinit"] <= Reached'
      BY <2>1, <2>2, RankValues DEF Reached
    <3> QED
      BY <2>1, <2>2, <3>1, OrderSetup
  <2>3. CASE pc' \in {"length", "ended"} /\ sent' = sent
    <3>1. Reached <= Reached'
      BY <2>1, <2>3 DEF Reached
    <3> QED
      BY <2>1, <2>3, <3>1, OrderQuiet
  <2> QED
    BY <2>1, <2>2, <2>3
<1>5. CASE ReadInit
  <2>1. sent' = sent /\ pc = "init" /\ pc' = "name" /\ UNCHANGED spilled
    BY <1>5 DEF ReadInit, Handshake, config
  <2>2. Reached <= Reached'
    BY <2>1 DEF Reached
  <2> QED
    BY <2>1, <2>2, OrderQuiet
<1>6. CASE ReadName
  <2>1. pc = "name" /\ Write(<<Out("encodings")>>) /\ pc' = "type" /\ UNCHANGED config
    BY <1>6 DEF ReadName, NextMessage, Handshake, config
  <2>2. Reached < Rank["encodings"] /\ Rank["encodings"] <= Reached'
    BY <1>0, <2>1, RankValues DEF Reached, config
  <2> QED
    BY <2>1, <2>2, OrderSetup DEF config
<1>7. CASE ReadType \/ ReadColourMap \/ ReadCutText \/ ReadSkipped \/ ReadExtHeader \/ ReadRow
  <2>1. /\ sent' = sent /\ UNCHANGED <<status, spilled>>
        /\ pc \in {"type", "cmap", "cut", "skip", "ext", "row"}
        /\ pc' \in {"type", "fb", "cmap", "cut", "ext", "skip", "extbody", "runs"}
    BY <1>7 DEF ReadType, ReadColourMap, ReadCutText, ReadSkipped, ReadExtHeader, ReadRow,
                NextMessage, Handshake, config
  <2>2. Reached <= Reached'
    BY <1>0, <2>1 DEF Reached
  <2> QED
    BY <2>1, <2>2, OrderQuiet
<1>8. CASE ReadExtBody
  <2>1. pc = "extbody" /\ (ByeBye \/ DisplayConfiguration \/ EventConfiguration \/ OtherExtension)
    BY <1>8 DEF ReadExtBody
  <2>2. CASE ByeBye
    <3>1. Write(<<Out("byebye")>>) /\ pc' = "ended" /\ UNCHANGED spilled
      BY <2>2 DEF ByeBye, End, config
    <3>2. Reached < Rank["byebye"] /\ Rank["byebye"] <= Reached'
      BY <2>1, <3>1, RankValues DEF Reached
    <3> QED
      BY <3>1, <3>2, OrderSetup
  <2>3. CASE DisplayConfiguration
    <3> DEFINE d == Out("display")
    <3>1. /\ status = 0 /\ Reached = 4
          /\ (Write(<<d>>) /\ NextMessage) \/ Crash
      BY <2>1, <2>3 DEF DisplayConfiguration, Reached
    <3>2. d \in OutMsgs /\ d.m = "display"
      BY OutType
    <3> HIDE DEF d
    <3>3. CASE need > ToStatus.display
      <4>1. spilled' = TRUE
        BY <2>3, <3>3 DEF DisplayConfiguration
      <4>2. Ordered(TRUE, sent, 4)
        BY <1>0, <3>1, OrderedSpill DEF OrderInv
      <4>3. CASE Write(<<d>>) /\ NextMessage
        <5>1. sent' = Append(sent, d)
          BY <1>0, <3>2, <4>3 DEF Write
        <5>2. Reached' = 4
          BY <4>1, <4>3 DEF NextMessage, Reached
        <5>3. Repeated(TRUE, d.m) /\ Rank[d.m] > 4 /\ 4 \in 4..7
          BY <3>2, RankValues
        <5> HIDE DEF Repeated
        <5>4. Ordered(TRUE, Append(sent, d), 4)
          BY <1>0, <3>2, <4>2, <5>3, OrderedRepeat
        <5> QED
          BY <4>1, <5>1, <5>2, <5>4 DEF OrderInv
      <4>4. CASE Crash
        <5>1. sent' = sent /\ Reached' = 4
          BY <4>1, <4>4 DEF Crash, Reached
        <5> QED
          BY <4>1, <4>2, <5>1 DEF OrderInv
      <4> QED
        BY <3>1, <4>3, <4>4
    <3>4. CASE ~(need > ToStatus.display)
      <4>1. need \in Nat
        BY DEF ClientInv, ClientType
      <4>2. ~(need > ToEnd.display)
        BY <3>4, <4>1 DEF ToStatus, ToEnd
      <4>3. /\ Write(<<d>>) /\ pc' = "type" /\ status' = 1
            /\ spilled' = (spilled \/ need > ToStatus.display)
        BY <2>3, <3>4, <4>2 DEF DisplayConfiguration, NextMessage, d
      <4>4. spilled' = spilled
        BY <3>4, <4>3, Zenon
      <4>5. CASE spilled
        <5>1. sent' = Append(sent, d)
          BY <1>0, <3>2, <4>3 DEF Write
        <5>2. Reached' = 4
          BY <4>3, <4>4, <4>5 DEF Reached
        <5>3. Repeated(spilled, d.m) /\ Rank[d.m] > 4 /\ 4 \in 4..7
          BY <3>2, <4>5, RankValues
        <5>4. Ordered(spilled, sent, 4)
          BY <3>1 DEF OrderInv
        <5> HIDE DEF Repeated
        <5>5. Ordered(spilled, Append(sent, d), 4)
          BY <1>0, <3>2, <5>3, <5>4, OrderedRepeat
        <5> QED
          BY <4>4, <5>1, <5>2, <5>5 DEF OrderInv
      <4>6. CASE ~spilled
        <5>1. Reached' = 5
          BY <4>3, <4>4, <4>6 DEF Reached
        <5>2. Reached < Rank["display"] /\ Rank["display"] <= Reached'
          BY <3>1, <5>1, RankValues
        <5>3. ~Repeated(spilled, "display")
          BY <4>6
        <5> QED
          BY <4>3, <4>4, <5>2, <5>3, OrderSetup DEF d
      <4> QED
        BY <4>5, <4>6
    <3> QED
      BY <3>3, <3>4
  <2>4. CASE EventConfiguration
    <3> DEFINE a == Out("event")
               c == Out("pixelformat")
               d == Request(0, size)
               s1 == Append(sent, a)
               s2 == Append(s1, c)
    <3>1. /\ status = 1 /\ status' = 2 /\ UNCHANGED spilled
          /\ \/ pc' = "type" /\ sent' = sent \o <<a, c, d>>
             \/ Crash
      BY <2>4 DEF EventConfiguration, NextMessage, Write
    <3>2. /\ a \in OutMsgs /\ a.m = "event" /\ c \in OutMsgs /\ c.m = "pixelformat"
          /\ d \in OutMsgs /\ d.m = "request"
      BY <1>0, OutType
    <3> HIDE DEF a, c, d
    <3>3. CASE Crash
      <4>1. sent' = sent /\ Reached <= Reached'
        BY <2>1, <3>1, <3>3 DEF Crash, Reached
      <4> QED
        BY <3>1, <4>1, OrderQuiet
    <3>4. CASE pc' = "type" /\ sent' = sent \o <<a, c, d>> /\ ~spilled
      <4>1. Reached = 5 /\ Reached' = 7 /\ Rank["event"] = 6 /\ Rank["pixelformat"] = 7
        BY <2>1, <3>1, <3>4, RankValues DEF Reached
      <4>2. sent' = Append(s2, d)
        BY <1>0, <3>2, <3>4
      <4>3. ~Repeated(spilled, a.m) /\ ~Repeated(spilled, c.m) /\ Repeated(spilled, d.m)
        BY <3>2, <3>4
      <4>4. Ordered(spilled, s1, 6) /\ s1 \in Seq(OutMsgs)
        BY <1>0, <3>2, <4>1, <4>3, OrderedSetup DEF OrderInv
      <4> HIDE DEF s1
      <4>5. 6 \in 0..9 /\ Rank[c.m] > 6 /\ Rank[c.m] = 7 /\ Rank[d.m] = 8
        BY <3>2, <4>1, RankValues
      <4>6. Ordered(spilled, s2, Rank[c.m]) /\ s2 \in Seq(OutMsgs)
        BY <3>2, <4>3, <4>4, <4>5, OrderedSetup
      <4> HIDE DEF s2
      <4>7. Ordered(spilled, s2, 7) /\ 7 \in 4..7 /\ Rank[d.m] > 7
        BY <4>5, <4>6
      <4>8. Ordered(spilled, Append(s2, d), 7)
        BY <3>2, <4>3, <4>6, <4>7, OrderedRepeat
      <4> QED
        BY <3>1, <4>1, <4>2, <4>8 DEF OrderInv
    <3>5. CASE pc' = "type" /\ sent' = sent \o <<a, c, d>> /\ spilled
      <4>1. Reached = 4 /\ Reached' = 4 /\ 4 \in 4..7
        BY <2>1, <3>1, <3>5 DEF Reached
      <4>2. sent' = Append(s2, d)
        BY <1>0, <3>2, <3>5
      <4>3. /\ Repeated(spilled, a.m) /\ Repeated(spilled, c.m) /\ Repeated(spilled, d.m)
            /\ Rank[a.m] > 4 /\ Rank[c.m] > 4 /\ Rank[d.m] > 4
        BY <3>2, <3>5, RankValues
      <4>4. Ordered(spilled, s1, 4) /\ s1 \in Seq(OutMsgs)
        BY <1>0, <3>2, <4>1, <4>3, OrderedRepeat DEF OrderInv
      <4> HIDE DEF s1
      <4>5. Ordered(spilled, s2, 4) /\ s2 \in Seq(OutMsgs)
        BY <3>2, <4>1, <4>3, <4>4, OrderedRepeat
      <4> HIDE DEF s2
      <4>6. Ordered(spilled, Append(s2, d), 4)
        BY <3>2, <4>1, <4>3, <4>5, OrderedRepeat
      <4> QED
        BY <3>1, <4>1, <4>2, <4>6 DEF OrderInv
    <3> QED
      BY <3>1, <3>3, <3>4, <3>5
  <2>5. CASE OtherExtension
    <3>1. sent' = sent /\ UNCHANGED <<status, spilled>> /\ pc' = "type"
      BY <2>5 DEF OtherExtension, NextMessage, config
    <3>2. Reached <= Reached'
      BY <1>0, <2>1, <3>1 DEF Reached
    <3> QED
      BY <3>1, <3>2, OrderQuiet
  <2> QED
    BY <2>1, <2>2, <2>3, <2>4, <2>5
<1>9. CASE ReadUpdateHeader
  <2>1. PICK v \in Seen("fb") : NextRect(v, size, 0, 1)
    BY <1>9 DEF ReadUpdateHeader
  <2>2. pc = "fb" /\ UNCHANGED config
    BY <1>9 DEF ReadUpdateHeader
  <2> QED
    BY <1>0, <2>1, <2>2, OrderNextRect
<1>10. CASE ReadRect
  <2>1. PICK q \in Seen("rect") :
          Raw(q) \/ ContextInformation(q) \/ DesktopSize(q) \/ RunLength(q) \/ UnknownEncoding(q)
    BY <1>10 DEF ReadRect
  <2>2. pc = "rect" /\ UNCHANGED config
    BY <1>10 DEF ReadRect
  <2>3. <<q.w, q.h>> \in Nat \X Nat
    <3>1. q \in Rects
      BY SeenTypes
    <3> QED
      BY <3>1 DEF Rects
  <2>4. \/ sent' = sent /\ pc' \in {"payload", "row"}
        \/ NextRect(num - 1, size, 1, inc)
        \/ NextRect(num - 1, <<q.w, q.h>>, 1, 0)
        \/ NextRect(num - 1, size, upd, inc)
    BY <2>1 DEF Raw, ContextInformation, DesktopSize, RunLength, UnknownEncoding, Payload
  <2>5. CASE sent' = sent /\ pc' \in {"payload", "row"}
    <3>1. Reached <= Reached'
      BY <1>0, <2>2, <2>5 DEF Reached, config
    <3> QED
      BY <2>2, <2>5, <3>1, OrderQuiet DEF config
  <2>6. CASE NextRect(num - 1, size, 1, inc) \/ NextRect(num - 1, size, upd, inc)
    BY <1>0, <2>2, <2>6, OrderNextRect
  <2>7. CASE NextRect(num - 1, <<q.w, q.h>>, 1, 0)
    BY <2>2, <2>3, <2>7, OrderNextRect
  <2> QED
    BY <2>4, <2>5, <2>6, <2>7
<1>11. CASE ReadPayload
  <2>1. pc = "payload" /\ NextRect(num - 1, size, upd, inc) /\ UNCHANGED config
    BY <1>11 DEF ReadPayload
  <2> QED
    BY <1>0, <2>1, OrderNextRect
<1>12. CASE ReadRuns
  <2>1. /\ pc = "runs" /\ UNCHANGED config
        /\ NextRect(num - 1, size, upd, inc) \/ (pc' = "row" /\ sent' = sent)
    BY <1>12 DEF ReadRuns
  <2>2. CASE NextRect(num - 1, size, upd, inc)
    BY <1>0, <2>1, <2>2, OrderNextRect
  <2>3. CASE pc' = "row" /\ sent' = sent
    <3>1. Reached <= Reached'
      BY <1>0, <2>1, <2>3 DEF Reached, config
    <3> QED
      BY <2>1, <2>3, <3>1, OrderQuiet DEF config
  <2> QED
    BY <2>1, <2>2, <2>3
<1> QED
  BY <1>1, <1>2, <1>3, <1>4, <1>5, <1>6, <1>7, <1>8, <1>9, <1>10, <1>11, <1>12 DEF Client

(* For every server and every timing of the reads, the client writes its   *)
(* setup messages at most once and in order, asks for no update before     *)
(* SetEncodings, and writes nothing after its ByeBye; the answers to       *)
(* configurations can repeat once a configuration has been copied over the *)
(* status, and nothing else can.                                           *)
THEOREM VncOrderedOutput == Spec => []OrderedOutput
<1>1. Init => OrderInv
  BY DEF Init, OrderInv, Ordered
<1>2. TypeInv /\ OrderInv /\ [Next]_vars => OrderInv'
  <2> SUFFICES ASSUME TypeInv, OrderInv, [Next]_vars PROVE OrderInv'
    OBVIOUS
  <2>1. CASE Client
    BY <2>1, OrderStep
  <2>2. CASE Server \/ SrvClose \/ UNCHANGED vars
    <3>1. UNCHANGED <<sent, pc, status, spilled>>
      BY <2>2 DEF Server, SrvClose, vars, client, config
    <3> QED
      BY <3>1 DEF OrderInv, Ordered, Reached
  <2> QED
    BY <2>1, <2>2 DEF Next
<1>3. OrderInv => OrderedOutput
  <2>1. \A m : Repeats(m) <=> Repeated(spilled, m)
    BY DEF Repeats, Repeated
  <2> QED
    BY <2>1 DEF OrderInv, Ordered, OrderedOutput
<1>4. Spec => []TypeInv
  BY InitType, TypeNext, PTL DEF Spec
<1> QED
  BY <1>1, <1>2, <1>3, <1>4, PTL DEF Spec
-----------------------------------------------------------------------------
(* What a step of the client does to its output, as far as the properties  *)
(* about requests and the ByeBye can tell.                                 *)

Setup == {"version", "secnum", "length", "reason", "sectypes", "result", "init", "name"}
Loop  == {"type", "cmap", "cut", "skip", "ext", "extbody", "fb", "rect", "payload", "row", "runs"}
Inner == {"rect", "payload", "row", "runs"}

Has(s, m) == \E i \in 1..Len(s) : s[i].m = m

(* The handshake before ServerInit's name was read. *)
Shakes ==
  /\ pc \in Setup /\ pc' \in Setup \cup {"ended"}
  /\ \E ms \in Seq(OutMsgs) :
       /\ sent' = sent \o ms
       /\ \A j \in 1..Len(ms) : ms[j].m \in {"version", "security", "clientinit"}

(* A configuration runs over the end of the session's record. *)
Crashes == pc \in Loop \ Inner /\ pc' = "crashed" /\ size' = size /\ sent' = sent

Declares == pc = "name" /\ pc' = "type" /\ sent' = Append(sent, Out("encodings"))

(* Anything of the message loop but an update, a ByeBye, and the request   *)
(* that follows the configuration.                                         *)
Works ==
  /\ pc \in Loop /\ pc' \in Loop /\ size' = size /\ upd' = upd /\ inc' = inc
  /\ pc \in Inner => pc' \in Inner
  /\ sent' = sent \/ sent' = Append(sent, Out("display"))

Leaves == pc \in Loop \ Inner /\ pc' = "ended" /\ size' = size /\ sent' = Append(sent, Out("byebye"))

Starts ==
  /\ pc \in Loop \ Inner /\ pc' = "type" /\ size' = size
  /\ sent' = Append(Append(Append(sent, Out("event")), Out("pixelformat")), Request(0, size))

(* Inside an update, with the new size s and flags u and i: the request is *)
(* full if there was a resize.                                             *)
Flows(s, u, i) ==
  \/ pc \in Inner /\ s = size /\ i = inc /\ u \in {upd, 1}
  \/ pc \in Inner /\ u = 1 /\ i = 0
  \/ pc = "fb" /\ s = size /\ u = 0

Within == pc' \in Inner /\ sent' = sent /\ Flows(size', upd', inc')

Finishes ==
  /\ pc' = "type" /\ Flows(size', upd', inc')
  /\ IF upd' = 1 THEN sent' = Append(sent, Request(inc', size')) ELSE sent' = sent

LEMMA NextRectMoves ==
  ASSUME ClientInv, NEW n, NEW s \in Nat \X Nat, NEW u, NEW i \in {0, 1},
         NextRect(n, s, u, i), Flows(s, u, i)
  PROVE  Within \/ Finishes
<1>1. size' = s /\ upd' = u /\ inc' = i
  BY DEF NextRect
<1>2. \/ pc' = "rect" /\ sent' = sent
      \/ pc' = "type" /\ IF u = 1 THEN sent' = sent \o <<Request(i, s)>> ELSE sent' = sent
  BY DEF NextRect, NextMessage, Write
<1>3. sent \o <<Request(i, s)>> = Append(sent, Request(i, s))
  <2>1. sent \in Seq(OutMsgs) /\ Request(i, s) \in OutMsgs
    BY OutType DEF ClientInv, ClientType
  <2> QED
    BY <2>1
<1>4. CASE pc' = "rect" /\ sent' = sent
  BY <1>1, <1>4 DEF Within, Inner
<1>5. CASE pc' = "type" /\ IF u = 1 THEN sent' = sent \o <<Request(i, s)>> ELSE sent' = sent
  BY <1>1, <1>3, <1>5 DEF Finishes
<1> QED
  BY <1>2, <1>4, <1>5

LEMMA ClientMoves ==
  ASSUME ClientInv, Client
  PROVE  Shakes \/ Declares \/ Works \/ Leaves \/ Starts \/ Crashes \/ Within \/ Finishes
<1> USE RankDomain DEF Setup, Loop, Inner
<1>0. /\ sent \in Seq(OutMsgs) /\ size \in Nat \X Nat /\ inc \in {0, 1}
      /\ \A x \in OutMsgs : sent \o <<x>> = Append(sent, x)
  BY DEF ClientInv, ClientType
<1>a. /\ << >> \in Seq(OutMsgs) /\ sent = sent \o << >> /\ Len(<< >>) = 0
      /\ \A x \in OutMsgs : <<x>> \in Seq(OutMsgs) /\ Len(<<x>>) = 1 /\ <<x>>[1] = x
      /\ \A x, y \in OutMsgs : <<x, y>> \in Seq(OutMsgs) /\ Len(<<x, y>>) = 2
                               /\ <<x, y>>[1] = x /\ <<x, y>>[2] = y
  BY <1>0
<1>b. /\ Out("version") \in OutMsgs /\ Out("version").m = "version"
      /\ Out("security") \in OutMsgs /\ Out("security").m = "security"
      /\ Out("clientinit") \in OutMsgs /\ Out("clientinit").m = "clientinit"
      /\ Out("encodings") \in OutMsgs /\ Out("display") \in OutMsgs /\ Out("byebye") \in OutMsgs
      /\ Out("event") \in OutMsgs /\ Out("pixelformat") \in OutMsgs
      /\ Request(0, size) \in OutMsgs
  BY <1>0, OutType
<1>1. CASE ReadVersion \/ ReadSecNum \/ ReadReasonLength \/ ReadReason \/ ReadSecTypes
           \/ ReadSecResult \/ ReadInit
  <2>1. /\ pc \in Setup /\ pc' \in Setup \cup {"ended"}
        /\ \/ sent' = sent
           \/ sent' = sent \o <<Out("version")>>
           \/ sent' = sent \o <<Out("security")>>
           \/ sent' = sent \o <<Out("clientinit")>>
           \/ sent' = sent \o <<Out("security"), Out("clientinit")>>
    <3>1. CASE ReadVersion
      BY <3>1 DEF ReadVersion, End, Write
    <3>2. CASE ReadSecNum \/ ReadReasonLength \/ ReadReason
      BY <3>2 DEF ReadSecNum, ReadReasonLength, ReadReason, End
    <3>3. CASE ReadSecTypes
      BY <3>3 DEF ReadSecTypes, End, AwaitInit, Write
    <3>4. CASE ReadSecResult
      BY <3>4 DEF ReadSecResult, End, AwaitInit, Write
    <3>5. CASE ReadInit
      BY <3>5 DEF ReadInit
    <3> QED
      BY <1>1, <3>1, <3>2, <3>3, <3>4, <3>5
  <2> DEFINE Early(ms) == /\ ms \in Seq(OutMsgs)
                          /\ \A j \in 1..Len(ms) : ms[j].m \in {"version", "security", "clientinit"}
  <2>2. Early(<< >>) /\ Early(<<Out("version")>>) /\ Early(<<Out("security")>>)
        /\ Early(<<Out("clientinit")>>)
    BY <1>a, <1>b
  <2>3. Early(<<Out("security"), Out("clientinit")>>)
    BY <1>a, <1>b
  <2>4. \E ms : sent' = sent \o ms /\ Early(ms)
    <3> HIDE DEF Early
    <3> QED
      BY <1>a, <2>1, <2>2, <2>3
  <2> QED
    BY <2>1, <2>4 DEF Shakes
<1>2. CASE ReadName
  <2>1. pc = "name" /\ pc' = "type" /\ sent' = sent \o <<Out("encodings")>>
    BY <1>2 DEF ReadName, NextMessage, Write
  <2> QED
    BY <1>0, <1>b, <2>1 DEF Declares
<1>3. CASE ReadType \/ ReadColourMap \/ ReadCutText \/ ReadSkipped \/ ReadExtHeader \/ ReadRow
  <2>1. /\ sent' = sent /\ size' = size /\ upd' = upd /\ inc' = inc
        /\ \/ pc \in {"type", "cmap", "cut", "skip", "ext"}
              /\ pc' \in {"type", "fb", "cmap", "cut", "ext", "skip", "extbody"}
           \/ pc = "row" /\ pc' = "runs"
    BY <1>3 DEF ReadType, ReadColourMap, ReadCutText, ReadSkipped, ReadExtHeader, ReadRow,
                NextMessage, Handshake, config, parse
  <2> QED
    BY <2>1 DEF Works
<1>4. CASE ReadExtBody
  <2>1. /\ pc = "extbody" /\ size' = size /\ upd' = upd /\ inc' = inc
        /\ ByeBye \/ DisplayConfiguration \/ EventConfiguration \/ OtherExtension
    BY <1>4 DEF ReadExtBody, parse
  <2>2. CASE ByeBye
    <3>1. sent' = sent \o <<Out("byebye")>> /\ pc' = "ended"
      BY <2>2 DEF ByeBye, End, Write
    <3> QED
      BY <1>0, <1>b, <2>1, <3>1 DEF Leaves
  <2>3. CASE DisplayConfiguration
    <3>1. (sent' = sent \o <<Out("display")>> /\ pc' = "type") \/ Crash
      BY <2>3 DEF DisplayConfiguration, NextMessage, Write
    <3>2. CASE Crash
      BY <2>1, <3>2 DEF Crash, Crashes
    <3> QED
      BY <1>0, <1>b, <2>1, <3>1, <3>2 DEF Works
  <2>4. CASE EventConfiguration
    <3> DEFINE a == Out("event")
               c == Out("pixelformat")
               d == Request(0, size)
    <3>1. (sent' = sent \o <<a, c, d>> /\ pc' = "type") \/ Crash
      BY <2>4 DEF EventConfiguration, NextMessage, Write
    <3>2. a \in OutMsgs /\ c \in OutMsgs /\ d \in OutMsgs
      BY <1>b
    <3> HIDE DEF a, c, d
    <3>3. sent \o <<a, c, d>> = Append(Append(Append(sent, a), c), d)
      BY <1>0, <3>2
    <3>4. CASE Crash
      BY <2>1, <3>4 DEF Crash, Crashes
    <3> QED
      BY <2>1, <3>1, <3>3, <3>4 DEF Starts, a, c, d
  <2>5. CASE OtherExtension
    BY <2>1, <2>5 DEF OtherExtension, NextMessage, Works
  <2> QED
    BY <2>1, <2>2, <2>3, <2>4, <2>5
<1>5. CASE ReadUpdateHeader
  <2>1. PICK v \in Seen("fb") : NextRect(v, size, 0, 1)
    BY <1>5 DEF ReadUpdateHeader
  <2>2. Flows(size, 0, 1)
    BY <1>5 DEF ReadUpdateHeader, Flows
  <2> QED
    BY <1>0, <2>1, <2>2, NextRectMoves
<1>6. CASE ReadRect
  <2>1. PICK q \in Seen("rect") :
          Raw(q) \/ ContextInformation(q) \/ DesktopSize(q) \/ RunLength(q) \/ UnknownEncoding(q)
    BY <1>6 DEF ReadRect
  <2>2. pc = "rect"
    BY <1>6 DEF ReadRect
  <2>3. <<q.w, q.h>> \in Nat \X Nat
    <3>1. q \in Rects
      BY SeenTypes
    <3> QED
      BY <3>1 DEF Rects
  <2>4. \/ sent' = sent /\ pc' \in {"payload", "row"} /\ size' = size /\ inc' = inc /\ upd' = 1
        \/ NextRect(num - 1, size, 1, inc)
        \/ NextRect(num - 1, <<q.w, q.h>>, 1, 0)
        \/ NextRect(num - 1, size, upd, inc)
    BY <2>1 DEF Raw, ContextInformation, DesktopSize, RunLength, UnknownEncoding, Payload
  <2>5. Flows(size, 1, inc) /\ Flows(size, upd, inc) /\ Flows(<<q.w, q.h>>, 1, 0)
    BY <2>2 DEF Flows
  <2>6. CASE sent' = sent /\ pc' \in {"payload", "row"} /\ size' = size /\ inc' = inc /\ upd' = 1
    BY <2>5, <2>6 DEF Within
  <2>7. CASE NextRect(num - 1, size, 1, inc)
    BY <1>0, <2>5, <2>7, NextRectMoves
  <2>8. CASE NextRect(num - 1, <<q.w, q.h>>, 1, 0)
    BY <2>3, <2>5, <2>8, NextRectMoves
  <2>9. CASE NextRect(num - 1, size, upd, inc)
    BY <1>0, <2>5, <2>9, NextRectMoves
  <2> QED
    BY <2>4, <2>6, <2>7, <2>8, <2>9
<1>7. CASE ReadPayload \/ ReadRuns
  <2>1. /\ pc \in {"payload", "runs"}
        /\ \/ NextRect(num - 1, size, upd, inc)
           \/ pc' = "row" /\ sent' = sent /\ size' = size /\ upd' = upd /\ inc' = inc
    BY <1>7 DEF ReadPayload, ReadRuns
  <2>2. Flows(size, upd, inc)
    BY <2>1 DEF Flows
  <2>3. CASE NextRect(num - 1, size, upd, inc)
    BY <1>0, <2>2, <2>3, NextRectMoves
  <2>4. CASE pc' = "row" /\ sent' = sent /\ size' = size /\ upd' = upd /\ inc' = inc
    BY <2>2, <2>4 DEF Within
  <2> QED
    BY <2>1, <2>3, <2>4
<1> QED
  BY <1>1, <1>2, <1>3, <1>4, <1>5, <1>6, <1>7 DEF Client
-----------------------------------------------------------------------------
(* The session ends, once it was configured to any degree, by its ByeBye   *)
(* and in no other way.                                                    *)

LEMMA HasJoined ==
  ASSUME NEW s \in Seq(OutMsgs), NEW ms \in Seq(OutMsgs), NEW m
  PROVE  Has(s \o ms, m) <=> Has(s, m) \/ Has(ms, m)
<1> DEFINE t == s \o ms
<1>1. /\ Len(s) \in Nat /\ Len(ms) \in Nat /\ Len(t) = Len(s) + Len(ms)
      /\ \A i \in 1..(Len(s) + Len(ms)) : t[i] = IF i <= Len(s) THEN s[i] ELSE ms[i - Len(s)]
  BY ConcatProperties
<1> HIDE DEF t
<1>2. ASSUME Has(t, m) PROVE Has(s, m) \/ Has(ms, m)
  <2>1. PICK i \in 1..Len(t) : t[i].m = m
    BY <1>2 DEF Has
  <2>2. CASE i <= Len(s)
    BY <1>1, <2>1, <2>2 DEF Has
  <2>3. CASE ~(i <= Len(s))
    <3>1. i - Len(s) \in 1..Len(ms) /\ ms[i - Len(s)].m = m
      BY <1>1, <2>1, <2>3
    <3> QED
      BY <3>1 DEF Has
  <2> QED
    BY <2>2, <2>3
<1>3. ASSUME Has(s, m) PROVE Has(t, m)
  <2>1. PICK i \in 1..Len(s) : s[i].m = m
    BY <1>3 DEF Has
  <2>2. i \in 1..Len(t) /\ t[i] = s[i]
    BY <1>1
  <2> QED
    BY <2>1, <2>2 DEF Has
<1>4. ASSUME Has(ms, m) PROVE Has(t, m)
  <2>1. PICK j \in 1..Len(ms) : ms[j].m = m
    BY <1>4 DEF Has
  <2>2. Len(s) + j \in 1..Len(t) /\ t[Len(s) + j] = ms[j]
    BY <1>1
  <2> QED
    BY <2>1, <2>2 DEF Has
<1> QED
  BY <1>2, <1>3, <1>4 DEF t

LEMMA HasAppended ==
  ASSUME NEW s \in Seq(OutMsgs), NEW x \in OutMsgs, NEW m
  PROVE  (Has(Append(s, x), m) <=> Has(s, m) \/ x.m = m) /\ Append(s, x) \in Seq(OutMsgs)
<1>1. <<x>> \in Seq(OutMsgs) /\ Append(s, x) = s \o <<x>> /\ Append(s, x) \in Seq(OutMsgs)
  OBVIOUS
<1>2. Has(<<x>>, m) <=> x.m = m
  BY DEF Has
<1>3. Has(s \o <<x>>, m) <=> Has(s, m) \/ Has(<<x>>, m)
  BY <1>1, HasJoined
<1>4. Has(Append(s, x), m) <=> Has(s \o <<x>>, m)
  BY <1>1
<1> QED
  BY <1>1, <1>2, <1>3, <1>4

ByeInv ==
  /\ pc \in Setup => ~Has(sent, "encodings") /\ ~Has(sent, "byebye")
  /\ pc \in Loop \cup {"crashed"} => Has(sent, "encodings") /\ ~Has(sent, "byebye")
  /\ pc = "ended" => (Has(sent, "encodings") <=> Has(sent, "byebye"))

LEMMA ByeStep == ClientInv /\ ByeInv /\ Client => ByeInv'
<1> SUFFICES ASSUME ClientInv, ByeInv, Client PROVE ByeInv'
  OBVIOUS
<1> USE RankDomain
<1>0. sent \in Seq(OutMsgs)
  BY DEF ClientInv, ClientType
<1>1. CASE Shakes
  <2>1. PICK ms \in Seq(OutMsgs) :
          /\ sent' = sent \o ms
          /\ \A j \in 1..Len(ms) : ms[j].m \in {"version", "security", "clientinit"}
    BY <1>1 DEF Shakes
  <2>2. ~Has(ms, "encodings") /\ ~Has(ms, "byebye")
    BY <2>1 DEF Has
  <2>3. ~Has(sent', "encodings") /\ ~Has(sent', "byebye")
    BY <1>0, <1>1, <2>1, <2>2, HasJoined DEF Shakes, ByeInv
  <2> QED
    BY <1>1, <2>3 DEF Shakes, ByeInv, Setup, Loop
<1>2. CASE Declares
  <2>1. Out("encodings") \in OutMsgs /\ Out("encodings").m = "encodings"
    BY OutType
  <2>2. Has(sent', "encodings") /\ ~Has(sent', "byebye")
    BY <1>0, <1>2, <2>1, HasAppended DEF Declares, ByeInv, Setup
  <2> QED
    BY <1>2, <2>2 DEF Declares, ByeInv, Setup, Loop
<1>3. CASE Leaves
  <2>1. Out("byebye") \in OutMsgs /\ Out("byebye").m = "byebye"
    BY OutType
  <2>2. Has(sent', "encodings") /\ Has(sent', "byebye")
    BY <1>0, <1>3, <2>1, HasAppended DEF Leaves, ByeInv
  <2> QED
    BY <1>3, <2>2 DEF Leaves, ByeInv, Setup, Loop
<1>4. ASSUME pc \in Loop, pc' \in Loop,
             Has(sent', "encodings") <=> Has(sent, "encodings"),
             Has(sent', "byebye") <=> Has(sent, "byebye")
      PROVE  ByeInv'
  BY <1>4 DEF ByeInv, Setup, Loop
<1>5. CASE Works
  <2>1. Out("display") \in OutMsgs /\ Out("display").m = "display"
    BY OutType
  <2>2. /\ Has(Append(sent, Out("display")), "encodings") <=> Has(sent, "encodings")
        /\ Has(Append(sent, Out("display")), "byebye") <=> Has(sent, "byebye")
    BY <1>0, <2>1, HasAppended
  <2> QED
    BY <1>4, <1>5, <2>2 DEF Works
<1>9. CASE Crashes
  BY <1>9 DEF Crashes, ByeInv, Setup, Loop, Has
<1>6. CASE Starts
  <2> DEFINE a == Out("event")
             c == Out("pixelformat")
             d == Request(0, size)
             s1 == Append(sent, a)
             s2 == Append(s1, c)
  <2>1. /\ a \in OutMsgs /\ a.m = "event" /\ c \in OutMsgs /\ c.m = "pixelformat"
        /\ d \in OutMsgs /\ d.m = "request"
    BY OutType DEF ClientInv, ClientType
  <2>2. sent' = Append(s2, d)
    BY <1>6 DEF Starts
  <2> HIDE DEF a, c, d
  <2>3. s1 \in Seq(OutMsgs) /\ \A m \in {"encodings", "byebye"} : Has(s1, m) <=> Has(sent, m)
    BY <1>0, <2>1, HasAppended
  <2> HIDE DEF s1
  <2>4. s2 \in Seq(OutMsgs) /\ \A m \in {"encodings", "byebye"} : Has(s2, m) <=> Has(s1, m)
    BY <2>1, <2>3, HasAppended
  <2> HIDE DEF s2
  <2>5. \A m \in {"encodings", "byebye"} : Has(sent', m) <=> Has(s2, m)
    BY <2>1, <2>2, <2>4, HasAppended
  <2> QED
    BY <1>4, <1>6, <2>3, <2>4, <2>5 DEF Starts, Loop
<1>7. CASE Within
  BY <1>4, <1>7 DEF Within, Flows, Inner, Loop
<1>8. CASE Finishes
  <2>1. inc' \in {0, 1} /\ size' \in Nat \X Nat
    BY ClientTypeStep DEF ClientInv, ClientType
  <2>2. Request(inc', size') \in OutMsgs /\ Request(inc', size').m = "request"
    BY <2>1, OutType
  <2>3. /\ Has(Append(sent, Request(inc', size')), "encodings") <=> Has(sent, "encodings")
        /\ Has(Append(sent, Request(inc', size')), "byebye") <=> Has(sent, "byebye")
    BY <1>0, <2>2, HasAppended
  <2>4. pc \in Loop /\ pc' \in Loop
    BY <1>8 DEF Finishes, Flows, Inner, Loop
  <2>5. sent' = Append(sent, Request(inc', size')) \/ sent' = sent
    BY <1>8 DEF Finishes
  <2> QED
    BY <1>4, <2>3, <2>4, <2>5
<1> QED
  BY <1>1, <1>2, <1>3, <1>5, <1>6, <1>7, <1>8, <1>9, ClientMoves

(* For every server and every failure of the reads: after SetEncodings the *)
(* session ends exactly when it has written its ByeBye.                    *)
THEOREM VncEndsOnlyByBye == Spec => []EndsOnlyByBye
<1>1. Init => ByeInv
  BY DEF Init, ByeInv, Has, Setup, Loop
<1>2. TypeInv /\ ByeInv /\ [Next]_vars => ByeInv'
  <2> SUFFICES ASSUME TypeInv, ByeInv, [Next]_vars PROVE ByeInv'
    OBVIOUS
  <2>1. CASE Client
    BY <2>1, ByeStep DEF TypeInv
  <2>2. CASE Server \/ SrvClose \/ UNCHANGED vars
    <3>1. UNCHANGED <<sent, pc>>
      BY <2>2 DEF Server, SrvClose, vars, client, config
    <3> QED
      BY <3>1 DEF ByeInv, Has
  <2> QED
    BY <2>1, <2>2 DEF Next
<1>3. TypeInv /\ ByeInv => EndsOnlyByBye
  <2> SUFFICES ASSUME TypeInv, ByeInv PROVE EndsOnlyByBye
    OBVIOUS
  <2>1. pc \in Setup \cup Loop \cup {"crashed", "ended"}
    BY DEF TypeInv, ClientInv, ClientType, Pcs, Setup, Loop
  <2>2. \A m : Wrote(m) <=> Has(sent, m)
    BY DEF Wrote, Has
  <2> QED
    BY <2>1, <2>2 DEF ByeInv, EndsOnlyByBye
<1>4. Spec => []TypeInv
  BY InitType, TypeNext, PTL DEF Spec
<1> QED
  BY <1>1, <1>2, <1>3, <1>4, PTL DEF Spec
-----------------------------------------------------------------------------
(* The requests.  The last request is for the screen's size, unless a      *)
(* resize is pending: then the parser is inside an update that will ask    *)
(* for the next one in full.                                               *)

LastIn(s, i) ==
  /\ i \in 1..Len(s) /\ s[i].m = "request"
  /\ \A j \in 1..Len(s) : j > i => s[j].m # "request"

FullIn(s) ==
  \A i, j \in 1..Len(s) :
    (/\ i < j /\ s[i].m = "request" /\ s[j].m = "request"
     /\ \A k \in 1..Len(s) : i < k /\ k < j => s[k].m # "request"
     /\ s[i].size # s[j].size)
      => s[j].inc = 0

Pending(p, u, i) == p \in Inner /\ u = 1 /\ i = 0

RequestInv ==
  /\ pc \in Setup => ~Has(sent, "request")
  /\ FullIn(sent)
  /\ \A i : LastIn(sent, i) => sent[i].size = size \/ Pending(pc, upd, inc)

LEMMA NoRequests ==
  ASSUME NEW s, ~Has(s, "request")
  PROVE  FullIn(s) /\ \A i : ~LastIn(s, i)
  BY DEF Has, FullIn, LastIn

LEMMA OtherAppended ==
  ASSUME NEW s \in Seq(OutMsgs), NEW x \in OutMsgs, x.m # "request", FullIn(s)
  PROVE  /\ FullIn(Append(s, x)) /\ Append(s, x) \in Seq(OutMsgs)
         /\ \A i : LastIn(Append(s, x), i) => LastIn(s, i) /\ Append(s, x)[i] = s[i]
<1> DEFINE t == Append(s, x)
<1>1. t \in Seq(OutMsgs) /\ Len(t) = Len(s) + 1 /\ Len(s) \in Nat
      /\ t[Len(s) + 1] = x /\ \A i \in 1..Len(s) : t[i] = s[i]
  OBVIOUS
<1> HIDE DEF t
<1>2. FullIn(t)
  <2> SUFFICES ASSUME NEW i \in 1..Len(t), NEW j \in 1..Len(t), i < j,
                      t[i].m = "request", t[j].m = "request",
                      \A k \in 1..Len(t) : i < k /\ k < j => t[k].m # "request",
                      t[i].size # t[j].size
               PROVE  t[j].inc = 0
    BY DEF FullIn
  <2>1. i \in 1..Len(s) /\ j \in 1..Len(s) /\ t[i] = s[i] /\ t[j] = s[j]
    BY <1>1
  <2>2. \A k \in 1..Len(s) : i < k /\ k < j => s[k].m # "request"
    BY <1>1
  <2> QED
    BY <2>1, <2>2 DEF FullIn
<1>3. ASSUME NEW i, LastIn(t, i) PROVE LastIn(s, i) /\ t[i] = s[i]
  <2>1. i \in 1..Len(s) /\ t[i] = s[i] /\ s[i].m = "request"
    BY <1>1, <1>3 DEF LastIn
  <2>2. \A j \in 1..Len(s) : j > i => s[j].m # "request"
    BY <1>1, <1>3 DEF LastIn
  <2> QED
    BY <2>1, <2>2 DEF LastIn
<1> QED
  BY <1>1, <1>2, <1>3 DEF t

LEMMA RequestAppended ==
  ASSUME NEW s \in Seq(OutMsgs), NEW x \in OutMsgs, x.m = "request", FullIn(s),
         \A i : LastIn(s, i) => s[i].size = x.size \/ x.inc = 0
  PROVE  /\ FullIn(Append(s, x))
         /\ \A i : LastIn(Append(s, x), i) => Append(s, x)[i] = x
<1> DEFINE t == Append(s, x)
<1>1. t \in Seq(OutMsgs) /\ Len(t) = Len(s) + 1 /\ Len(s) \in Nat
      /\ t[Len(s) + 1] = x /\ \A i \in 1..Len(s) : t[i] = s[i]
  OBVIOUS
<1> HIDE DEF t
<1>2. FullIn(t)
  <2> SUFFICES ASSUME NEW i \in 1..Len(t), NEW j \in 1..Len(t), i < j,
                      t[i].m = "request", t[j].m = "request",
                      \A k \in 1..Len(t) : i < k /\ k < j => t[k].m # "request",
                      t[i].size # t[j].size
               PROVE  t[j].inc = 0
    BY DEF FullIn
  <2>1. i \in 1..Len(s) /\ t[i] = s[i]
    BY <1>1
  <2>2. CASE j \in 1..Len(s)
    <3>1. \A k \in 1..Len(s) : i < k /\ k < j => s[k].m # "request"
      BY <1>1
    <3>2. t[j] = s[j]
      BY <1>1, <2>2
    <3> QED
      BY <2>1, <2>2, <3>1, <3>2 DEF FullIn
  <2>3. CASE j = Len(s) + 1
    <3>1. \A k \in 1..Len(s) : k > i => s[k].m # "request"
      BY <1>1, <2>1, <2>3
    <3>2. LastIn(s, i)
      BY <2>1, <3>1 DEF LastIn
    <3>3. t[j] = x
      BY <1>1, <2>3
    <3> QED
      BY <2>1, <3>2, <3>3
  <2> QED
    BY <1>1, <2>2, <2>3
<1>3. ASSUME NEW i, LastIn(t, i) PROVE t[i] = x
  <2>1. i \in 1..Len(t) /\ \A j \in 1..Len(t) : j > i => t[j].m # "request"
    BY <1>3 DEF LastIn
  <2>2. i = Len(s) + 1
    BY <1>1, <2>1
  <2> QED
    BY <1>1, <2>2
<1> QED
  BY <1>2, <1>3 DEF t

(* In an update: what the flags say of the last request before the step    *)
(* they say after it.                                                      *)
LEMMA FlowsPending ==
  ASSUME ClientInv, RequestInv, Flows(size', upd', inc')
  PROVE  \A i : LastIn(sent, i) => sent[i].size = size' \/ (upd' = 1 /\ inc' = 0)
<1> TAKE i
<1> HAVE LastIn(sent, i)
<1>1. sent[i].size = size \/ Pending(pc, upd, inc)
  BY DEF RequestInv
<1>2. CASE pc \in Inner /\ size' = size /\ inc' = inc /\ upd' \in {upd, 1}
  BY <1>1, <1>2 DEF Pending
<1>3. CASE pc \in Inner /\ upd' = 1 /\ inc' = 0
  BY <1>3
<1>4. CASE pc = "fb" /\ size' = size /\ upd' = 0
  BY <1>1, <1>4 DEF Pending, Inner
<1> QED
  BY <1>2, <1>3, <1>4 DEF Flows

LEMMA RequestStep == ClientInv /\ RequestInv /\ Client => RequestInv'
<1> SUFFICES ASSUME ClientInv, RequestInv, Client PROVE RequestInv'
  OBVIOUS
<1> USE RankDomain
<1>0. sent \in Seq(OutMsgs) /\ size \in Nat \X Nat /\ inc' \in {0, 1} /\ size' \in Nat \X Nat
  BY ClientTypeStep DEF ClientInv, ClientType
<1>1. CASE Shakes
  <2>1. PICK ms \in Seq(OutMsgs) :
          /\ sent' = sent \o ms
          /\ \A j \in 1..Len(ms) : ms[j].m \in {"version", "security", "clientinit"}
    BY <1>1 DEF Shakes
  <2>2. ~Has(ms, "request")
    BY <2>1 DEF Has
  <2>3. ~Has(sent', "request")
    BY <1>0, <1>1, <2>1, <2>2, HasJoined DEF Shakes, RequestInv
  <2> QED
    BY <2>3, NoRequests DEF RequestInv
<1>2. CASE Declares
  <2>1. Out("encodings") \in OutMsgs /\ Out("encodings").m = "encodings"
    BY OutType
  <2>2. ~Has(sent', "request")
    BY <1>0, <1>2, <2>1, HasAppended DEF Declares, RequestInv, Setup
  <2> QED
    BY <2>2, NoRequests DEF RequestInv
<1>3. ASSUME NEW x \in OutMsgs, x.m # "request", sent' = sent \/ sent' = Append(sent, x),
             pc \in Loop, pc' \notin Setup, size' = size, upd' = upd, inc' = inc,
             pc \in Inner => pc' \in Inner
      PROVE  RequestInv'
  <2>1. FullIn(sent')
    BY <1>0, <1>3, OtherAppended DEF RequestInv
  <2>2. ASSUME NEW i, LastIn(sent', i) PROVE LastIn(sent, i) /\ sent'[i] = sent[i]
    <3>1. \A k : LastIn(Append(sent, x), k) => LastIn(sent, k) /\ Append(sent, x)[k] = sent[k]
      BY <1>0, <1>3, OtherAppended DEF RequestInv
    <3>2. CASE sent' = sent
      BY <2>2, <3>2
    <3>3. CASE sent' = Append(sent, x)
      BY <2>2, <3>1, <3>3
    <3> QED
      BY <1>3, <3>2, <3>3
  <2>3. ASSUME NEW i, LastIn(sent', i) PROVE sent'[i].size = size' \/ Pending(pc', upd', inc')
    BY <1>3, <2>2, <2>3 DEF RequestInv, Pending
  <2> QED
    BY <1>3, <2>1, <2>3 DEF RequestInv
<1>4. CASE Works
  <2>1. Out("display") \in OutMsgs /\ Out("display").m = "display"
    BY OutType
  <2> QED
    BY <1>3, <1>4, <2>1 DEF Works, Loop, Setup
<1>5. CASE Leaves
  <2>1. Out("byebye") \in OutMsgs /\ Out("byebye").m = "byebye"
    BY OutType
  <2>2. FullIn(sent') /\ \A i : LastIn(sent', i) => LastIn(sent, i) /\ sent'[i] = sent[i]
    BY <1>0, <1>5, <2>1, OtherAppended DEF RequestInv, Leaves
  <2>3. \A i : LastIn(sent', i) => sent'[i].size = size'
    BY <1>5, <2>2 DEF RequestInv, Leaves, Pending
  <2> QED
    BY <1>5, <2>2, <2>3 DEF RequestInv, Leaves, Setup
<1>9. CASE Crashes
  <2>1. UNCHANGED <<sent, size>> /\ pc \notin Setup \cup Inner /\ pc' \notin Setup \cup Inner
    BY <1>9 DEF Crashes, Setup, Loop, Inner
  <2> QED
    BY <2>1 DEF RequestInv, Pending
<1>6. CASE Starts
  <2> DEFINE a == Out("event")
             c == Out("pixelformat")
             d == Request(0, size)
             s1 == Append(sent, a)
             s2 == Append(s1, c)
  <2>1. /\ a \in OutMsgs /\ a.m = "event" /\ c \in OutMsgs /\ c.m = "pixelformat"
        /\ d \in OutMsgs /\ d.m = "request" /\ d.inc = 0 /\ d.size = size
    BY <1>0, OutType
  <2>2. sent' = Append(s2, d)
    BY <1>6 DEF Starts
  <2> HIDE DEF a, c, d
  <2>3. s1 \in Seq(OutMsgs) /\ FullIn(s1)
    BY <1>0, <2>1, OtherAppended DEF RequestInv
  <2> HIDE DEF s1
  <2>4. s2 \in Seq(OutMsgs) /\ FullIn(s2)
    BY <2>1, <2>3, OtherAppended
  <2> HIDE DEF s2
  <2>5. FullIn(sent') /\ \A i : LastIn(sent', i) => sent'[i] = d
    BY <2>1, <2>2, <2>4, RequestAppended
  <2> QED
    BY <1>6, <2>1, <2>5 DEF RequestInv, Starts, Setup
<1>7. CASE Within
  <2>1. \A i : LastIn(sent, i) => sent[i].size = size' \/ (upd' = 1 /\ inc' = 0)
    BY <1>7, FlowsPending DEF Within
  <2> QED
    BY <1>7, <2>1 DEF Within, RequestInv, Pending, Inner, Setup
<1>8. CASE Finishes
  <2>1. \A i : LastIn(sent, i) => sent[i].size = size' \/ (upd' = 1 /\ inc' = 0)
    BY <1>8, FlowsPending DEF Finishes
  <2> DEFINE d == Request(inc', size')
  <2>2. d \in OutMsgs /\ d.m = "request" /\ d.inc = inc' /\ d.size = size'
    BY <1>0, OutType
  <2> HIDE DEF d
  <2>3. CASE upd' = 1
    <3>1. sent' = Append(sent, d)
      BY <1>8, <2>3 DEF Finishes, d
    <3>2. FullIn(sent') /\ \A i : LastIn(sent', i) => sent'[i] = d
      BY <1>0, <2>1, <2>2, <3>1, RequestAppended DEF RequestInv
    <3> QED
      BY <1>8, <2>2, <3>2 DEF RequestInv, Finishes, Setup
  <2>4. CASE upd' # 1
    BY <1>8, <2>1, <2>4 DEF RequestInv, Finishes, Setup
  <2> QED
    BY <2>3, <2>4
<1> QED
  BY <1>1, <1>2, <1>4, <1>5, <1>6, <1>7, <1>8, <1>9, ClientMoves

(* For every server and every misreading of the stream: between two        *)
(* messages the last request is for the screen as it is, and a request     *)
(* with another size than the one before it is a full one.                 *)
THEOREM VncRequestsFit == Spec => []RequestsFit
<1>1. Init => RequestInv
  BY DEF Init, RequestInv, Has, FullIn, LastIn
<1>2. TypeInv /\ RequestInv /\ [Next]_vars => RequestInv'
  <2> SUFFICES ASSUME TypeInv, RequestInv, [Next]_vars PROVE RequestInv'
    OBVIOUS
  <2>1. CASE Client
    BY <2>1, RequestStep DEF TypeInv
  <2>2. CASE Server \/ SrvClose \/ UNCHANGED vars
    <3>1. UNCHANGED <<sent, pc, size, upd, inc>>
      BY <2>2 DEF Server, SrvClose, vars, client, config, parse
    <3> QED
      BY <3>1 DEF RequestInv, Has, FullIn, LastIn, Pending
  <2> QED
    BY <2>1, <2>2 DEF Next
<1>3. RequestInv => RequestsFit
  <2> SUFFICES ASSUME RequestInv PROVE RequestTracksSize /\ FullAfterResize
    BY DEF RequestsFit
  <2>1. FullAfterResize
    BY DEF RequestInv, FullIn, FullAfterResize
  <2>2. RequestTracksSize
    BY DEF RequestInv, RequestTracksSize, LastRequest, LastIn, Pending, Inner
  <2> QED
    BY <2>1, <2>2
<1>4. Spec => []TypeInv
  BY InitType, TypeNext, PTL DEF Spec
<1> QED
  BY <1>1, <1>2, <1>3, <1>4, PTL DEF Spec
=============================================================================
