----------------------------- MODULE HttpProofs -----------------------------
(***************************************************************************)
(* Proofs about HttpClient, for every reply of the server, every chunk and *)
(* send buffer, and every behaviour of the connection.                     *)
(***************************************************************************)
EXTENDS HttpClient, ConnProofs

LOCAL INSTANCE SequencesExt
LOCAL INSTANCE FiniteSetsExt

-----------------------------------------------------------------------------
(* What is held at each place of http_client_send: the socket, the text,   *)
(* the receive buffer, the response.                                       *)

Opening ==
  /\ pc \in {"open", "idle"}
  /\ rbuf = buffer_clear /\ heap = {"req"} /\ rsp = NoRsp
  /\ pc = "idle" => /\ sk \in {"none", "up"}
                    /\ last.op = "conn_open" /\ (last.code = 0 <=> sk = "up")

AtRest ==
  /\ pc = "idle" /\ sk = "none" /\ rbuf = buffer_clear
  /\ heap \ {"req"} = IF rsp.errcode = 0 THEN {} ELSE {"rsp"}
  /\ "req" \in heap => last.op = "conn_open" /\ last.code # 0

HeldInv ==
  /\ hpc \in HttpPCs
  /\ hpc = "idle" => AtRest
  /\ hpc = "open" => Opening
  /\ hpc = "write" => pc \in {"write", "writable", "idle"} /\ sk = "up" /\ heap = {"wbuf"}
  /\ hpc = "read" => pc \in {"all", "allread", "idle"} /\ sk = "up" /\ heap = {"wbuf", "rsp"}
  /\ hpc \in {"again", "clear"} => pc = "idle" /\ sk = "up" /\ heap = {"wbuf", "rsp"}
  /\ hpc = "close" => /\ pc = "idle" /\ sk = "up" /\ rbuf = buffer_clear
                      /\ heap = IF rsp.errcode = 0 THEN {} ELSE {"rsp"}

LEMMA EmptyBuffer == buffer_init(0) = buffer_clear
<1>1. [i \in 1..0 |-> 0] = << >>
  OBVIOUS
<1> QED
  BY <1>1 DEF buffer_init, buffer_clear

(* The peer changes none of this once the connection is up or closed.      *)
LEMMA PeerHeld == HeldInv /\ HttpPeer => HeldInv'
<1> SUFFICES ASSUME HeldInv, HttpPeer PROVE HeldInv'
  OBVIOUS
<1>1. UNCHANGED <<hpc, heap, rsp, pc, rbuf, last>> /\ (sk # "connecting" => sk' = sk)
  BY DEF HttpPeer, httpVars, Peer, PeerConnect, PeerSend, PeerClose, PeerReset, PeerUrgent, PeerDrain
<1> QED
  BY <1>1 DEF HeldInv, AtRest, Opening

LEMMA SendHeld ==
  ASSUME HeldInv, NEW q, Send(q)
  PROVE  HeldInv'
<1>1. hpc' = "open" /\ rbuf' = buffer_clear /\ heap' = {"req"} /\ rsp' = NoRsp
  BY EmptyBuffer DEF Send, conn_open
<1>2. \/ pc' = "open"
      \/ pc' = "idle" /\ sk' = "none" /\ last' = [op |-> "conn_open", code |-> -1]
      \/ pc' = "idle" /\ sk' = "up" /\ last' = [op |-> "conn_open", code |-> 0]
  BY DEF Send, conn_open, FailRet, Return
<1> QED
  BY <1>1, <1>2 DEF HeldInv, Opening, HttpPCs

LEMMA CodeHeld == HeldInv /\ HttpCode => HeldInv'
<1> SUFFICES ASSUME HeldInv, HttpCode PROVE HeldInv'
  OBVIOUS
<1> USE DEF HttpPCs
<1>1. CASE OpenFailed
  BY <1>1 DEF OpenFailed, HeldInv, Opening, AtRest, NoRsp, vars, kernel
<1>2. CASE Opened
  <2>1. hpc = "open" /\ hpc' = "write" /\ sk = "up" /\ sk' = sk /\ heap' = (heap \ {"req"}) \cup {"wbuf"}
        /\ pc' \in {"idle", "write"}
    BY <1>2 DEF Opened, conn_write, Return, kernel
  <2> QED
    BY <2>1 DEF HeldInv, Opening
<1>3. CASE Written \/ ReadAgain
  <2>1. /\ hpc \in {"write", "again"} /\ hpc' = "read" /\ pc' = "all" /\ sk' = sk
        /\ heap' = heap \cup {"rsp"} \/ (heap' = heap /\ hpc = "again")
    BY <1>3 DEF Written, ReadAgain, conn_read_all, kernel
  <2> QED
    BY <2>1 DEF HeldInv
<1>4. CASE Parse
  <2>1. /\ hpc = "read" /\ pc = "idle" /\ UNCHANGED <<pc, sk, heap>>
        /\ hpc' \in {"again", "clear"}
    BY <1>4 DEF Parse, kernel
  <2> QED
    BY <2>1 DEF HeldInv
<1>5. CASE Clear
  <2>1. /\ hpc = "clear" /\ hpc' = "close" /\ UNCHANGED <<pc, sk, rsp>> /\ rbuf' = buffer_clear
        /\ heap' = heap \ (IF rsp.errcode = 0 THEN {"rsp", "wbuf"} ELSE {"wbuf"})
    BY <1>5 DEF Clear, kernel
  <2> QED
    BY <2>1 DEF HeldInv
<1>6. CASE Close
  <2>1. /\ hpc = "close" /\ hpc' = "idle" /\ pc' = "idle" /\ sk' = "none" /\ UNCHANGED <<rbuf, rsp, heap>>
    BY <1>6 DEF Close, conn_close, Return
  <2> QED
    BY <2>1 DEF HeldInv, AtRest
<1> QED
  BY <1>1, <1>2, <1>3, <1>4, <1>5, <1>6 DEF HttpCode

LEMMA ConnHeld == HeldInv /\ HttpConn => HeldInv'
<1> SUFFICES ASSUME HeldInv, HttpConn PROVE HeldInv'
  OBVIOUS
<1>1. UNCHANGED <<hpc, heap, rsp>>
  BY DEF HttpConn, httpVars
<1>2. CASE OpenSelect
  <2>1. /\ pc = "open" /\ pc' = "idle" /\ rbuf' = rbuf
        /\ \/ sk' = "none" /\ last' = [op |-> "conn_open", code |-> -1]
           \/ sk' = "up" /\ last' = [op |-> "conn_open", code |-> 0]
    BY <1>2 DEF OpenSelect, FailRet, Return
  <2> QED
    BY <1>1, <2>1 DEF HeldInv, AtRest, Opening, HttpPCs
<1>3. CASE AllSelect \/ AllSome \/ AllNone
  <2>1. pc \in {"all", "allread"} /\ pc' \in {"all", "allread", "idle"} /\ sk' = sk
    BY <1>3 DEF AllSelect, AllSome, AllNone, Return, kernel
  <2> QED
    BY <1>1, <2>1 DEF HeldInv, AtRest, Opening, HttpPCs
<1>4. CASE WriteSelect \/ WriteSome \/ WriteNone
  <2>1. pc \in {"write", "writable"} /\ pc' \in {"write", "writable", "idle"} /\ sk' = sk
    BY <1>4 DEF WriteSelect, WriteSome, WriteNone, Return, kernel
  <2> QED
    BY <1>1, <2>1 DEF HeldInv, AtRest, Opening, HttpPCs
<1> QED
  BY <1>2, <1>3, <1>4 DEF HttpConn

LEMMA HeldNext == HeldInv /\ [HttpNext]_allVars => HeldInv'
<1> SUFFICES ASSUME HeldInv, [HttpNext]_allVars PROVE HeldInv'
  OBVIOUS
<1>1. CASE http_client_free_rsp
  BY <1>1 DEF http_client_free_rsp, vars, kernel, HeldInv, AtRest, NoRsp
<1>2. CASE UNCHANGED allVars
  BY <1>2 DEF allVars, httpVars, vars, kernel, HeldInv, AtRest, Opening
<1> QED
  BY <1>1, <1>2, PeerHeld, SendHeld, CodeHeld, ConnHeld DEF HttpNext

(* Every way out of http_client_send leaves neither socket, text nor       *)
(* receive buffer behind, and a response exactly if it has a status.       *)
THEOREM HttpNothingHeld == HttpSpec => []NothingHeld
<1>1. HttpInit => HeldInv
  BY DEF HttpInit, Init, HeldInv, AtRest, HttpPCs, NoRsp
<1>2. HeldInv => NothingHeld
  BY DEF HeldInv, AtRest, NothingHeld
<1> QED
  BY <1>1, <1>2, HeldNext, PTL DEF HttpSpec

-----------------------------------------------------------------------------
(* Where the parser finds a piece: nowhere, or at its only place.          *)

Piece == {"junk", "http", "code", "name", "digit", "zero", "blank", "text"}

LEMMA AtNone ==
  ASSUME NEW text \in Seq(Piece), NEW piece, \A i \in 1..Len(text) : text[i] # piece
  PROVE  At(text, piece) = 0
  BY DEF At, SelectInSeq

LEMMA AtOnly ==
  ASSUME NEW text \in Seq(Piece), NEW piece, NEW k \in 1..Len(text),
         text[k] = piece, \A i \in 1..Len(text) : text[i] = piece => i = k
  PROVE  At(text, piece) = k
<1> DEFINE I == {i \in 1..Len(text) : text[i] = piece}
<1>1. I = {k}
  OBVIOUS
<1>2. At(text, piece) = Min(I)
  BY <1>1 DEF At, SelectInSeq
<1>3. Min({k}) = k
  BY DEF Min
<1> QED
  BY <1>1, <1>2, <1>3

(* A reply with a status: three pieces of it, the length if there is one,  *)
(* the blank line, the text.                                               *)
Extra(d) == IF d.announced = NoLength THEN 0 ELSE IF d.announced = 0 THEN 2 ELSE 3

LEMMA Shape ==
  ASSUME NEW d \in Replies, d.code # 0
  PROVE  /\ Pieces(d) \in Seq(Piece)
         /\ Len(Pieces(d)) = 4 + Extra(d) + d.text
         /\ \A i \in 1..Len(Pieces(d)) : Pieces(d)[i] = "http" <=> i = 1
         /\ \A i \in 1..Len(Pieces(d)) : Pieces(d)[i] = "name" <=> i = 4 /\ Extra(d) # 0
         /\ \A i \in 1..Len(Pieces(d)) : Pieces(d)[i] = "blank" <=> i = 4 + Extra(d)
         /\ Extra(d) = 2 => Pieces(d)[5] = "zero"
<1> DEFINE status == <<"http", "code", "code">>
           length == CASE d.announced = NoLength -> << >>
                       [] d.announced = 0        -> <<"name", "zero">>
                       [] OTHER                  -> <<"name", "digit", "zero">>
           text == [i \in 1..d.text |-> "text"]
<1>1. d.text \in Nat /\ Extra(d) \in {0, 2, 3} /\ NoLength # 0
  BY HttpAssumption DEF Extra
<1>2. status \in Seq(Piece) /\ Len(status) = 3
      /\ status[1] = "http" /\ status[2] = "code" /\ status[3] = "code"
  BY DEF Piece
<1>3. /\ length \in Seq(Piece) /\ Len(length) = Extra(d)
      /\ Extra(d) = 2 => length[1] = "name" /\ length[2] = "zero"
      /\ Extra(d) = 3 => length[1] = "name" /\ length[2] = "digit" /\ length[3] = "zero"
  <2>1. CASE d.announced = NoLength
    <3>1. length = << >> /\ Extra(d) = 0
      BY <1>1, <2>1 DEF Extra
    <3> HIDE DEF length
    <3> QED
      BY <3>1
  <2>2. CASE d.announced = 0
    <3>1. length = <<"name", "zero">> /\ Extra(d) = 2
      BY <1>1, <2>2 DEF Extra
    <3> HIDE DEF length
    <3> QED
      BY <3>1 DEF Piece
  <2>3. CASE d.announced # NoLength /\ d.announced # 0
    <3>1. length = <<"name", "digit", "zero">> /\ Extra(d) = 3
      BY <2>3 DEF Extra
    <3> HIDE DEF length
    <3> QED
      BY <3>1 DEF Piece
  <2> QED
    BY <2>1, <2>2, <2>3
<1>4. text \in Seq(Piece) /\ Len(text) = d.text /\ \A i \in 1..d.text : text[i] = "text"
  BY <1>1 DEF Piece
<1>5. <<"blank">> \in Seq(Piece) /\ Len(<<"blank">>) = 1 /\ <<"blank">>[1] = "blank"
  BY DEF Piece
<1>6. Pieces(d) = status \o length \o <<"blank">> \o text
  BY Zenon DEF Pieces
<1> HIDE DEF status, length, text
<1> DEFINE a == status \o length
           b == a \o <<"blank">>
           p == b \o text
<1>7. /\ a \in Seq(Piece) /\ Len(a) = 3 + Extra(d)
      /\ \A i \in 1..(3 + Extra(d)) : a[i] = IF i <= 3 THEN status[i] ELSE length[i - 3]
  <2>1. /\ status \o length \in Seq(Piece)
        /\ Len(status \o length) = Len(status) + Len(length)
        /\ \A i \in 1..(Len(status) + Len(length)) :
              (status \o length)[i] = IF i <= Len(status) THEN status[i] ELSE length[i - Len(status)]
    <3>1. status \in Seq(Piece) /\ length \in Seq(Piece)
      BY <1>2, <1>3
    <3> QED
      BY <3>1, ConcatProperties
  <2>2. Len(status) = 3 /\ Len(length) = Extra(d)
    BY <1>2, <1>3
  <2> QED
    BY <2>1, <2>2
<1>8. /\ b \in Seq(Piece) /\ Len(b) = 4 + Extra(d)
      /\ \A i \in 1..(4 + Extra(d)) :
            b[i] = IF i <= 3 + Extra(d) THEN a[i] ELSE <<"blank">>[i - (3 + Extra(d))]
  <2> HIDE DEF a
  <2> QED
    BY <1>1, <1>5, <1>7, ConcatProperties
<1>9. /\ p \in Seq(Piece) /\ Len(p) = 4 + Extra(d) + d.text
      /\ \A i \in 1..(4 + Extra(d) + d.text) :
            p[i] = IF i <= 4 + Extra(d) THEN b[i] ELSE text[i - (4 + Extra(d))]
  <2> HIDE DEF b
  <2> QED
    BY SMTT(30), <1>1, <1>4, <1>8, ConcatProperties
<1> HIDE DEF a, b
<1>10. \A i \in 1..(3 + Extra(d)) :
          a[i] = CASE i = 1 -> "http" [] i \in {2, 3} -> "code" [] i = 4 -> "name"
                   [] i = 5 -> (IF Extra(d) = 2 THEN "zero" ELSE "digit") [] OTHER -> "zero"
  BY SMTT(30), <1>1, <1>2, <1>3, <1>7
<1>11. \A i \in 1..(4 + Extra(d)) :
          b[i] = IF i <= 3 + Extra(d) THEN a[i] ELSE "blank"
  BY <1>1, <1>5, <1>8
<1>12. \A i \in 1..(4 + Extra(d) + d.text) :
          p[i] = IF i <= 4 + Extra(d) THEN b[i] ELSE "text"
  BY <1>1, <1>4, <1>9
<1>13. Pieces(d) = p
  BY <1>6 DEF a, b
<1> HIDE DEF p
<1> QED
  BY SMTT(30), <1>1, <1>9, <1>10, <1>11, <1>12, <1>13

(* The bytes in the buffer, read as text, are a beginning of the reply.    *)
LEMMA Text ==
  ASSUME NEW d \in Replies, d = reply,
         rbuf \in BufferType(Bytes), Whole(rbuf, rbuf.len), rbuf.len <= Len(Pieces(d)),
         Pieces(d) \in Seq(Piece)
  PROVE  /\ Content \in Seq(Piece) /\ Len(Content) = rbuf.len
         /\ \A i \in 1..rbuf.len : Content[i] = Pieces(d)[i]
<1>1. rbuf.len \in Nat
  BY DEF BufferType
<1>2. \A i \in 1..rbuf.len : Pieces(d)[rbuf.mem[i]] = Pieces(d)[i] /\ Pieces(d)[i] \in Piece
  BY <1>1 DEF Whole
<1> DEFINE P(i) == Pieces(reply)[rbuf.mem[i]]
<1>3. Content = [i \in 1..rbuf.len |-> P(i)] /\ \A i \in 1..rbuf.len : P(i) \in Piece
  BY <1>2 DEF Content
<1>4. \A i \in 1..rbuf.len : P(i) = Pieces(d)[i]
  BY <1>2
<1> HIDE DEF P
<1> QED
  BY <1>1, <1>3, <1>4

(* What the parser finds in it: a status that is the reply's or its first  *)
(* digit, and, if the text counts as whole, a body that is.                *)
Good(a, d) ==
  /\ a.errcode \in {0, d.code \div 100, d.code}
  /\ a.body # << >> =>
       /\ a.errcode = d.code
       /\ d.announced \in Nat /\ Len(a.body) >= d.announced /\ Len(a.body) <= d.text
       /\ \A i \in 1..Len(a.body) : a.body[i] = Len(Pieces(d)) - d.text + i

LEMMA Parsed ==
  ASSUME NEW d \in Replies, d = reply,
         rbuf \in BufferType(Bytes), Whole(rbuf, rbuf.len),
         rbuf.len <= Len(Pieces(d)), rbuf.len # 0, Status(Content) # 0
  PROVE  /\ Status(Content) \in {d.code \div 100, d.code}
         /\ (Announced(Content) > 0 /\ HasBlank(Content)
             /\ 10 * Len(Rest(Content)) >= Announced(Content))
              => /\ Good([errcode |-> Status(Content), body |-> Rest(Content)], d)
                 /\ Rest(Content) \in Seq(Bytes)
<1>0. rbuf.len \in Nat /\ rbuf.mem \in Seq(Bytes) /\ d.code \in Nat /\ d.text \in Nat
      /\ d.announced \in Nat \cup {NoLength} /\ rbuf.len <= Len(rbuf.mem)
  BY HttpAssumption DEF BufferType, Whole, size
<1>1. d.code # 0
  <2> SUFFICES ASSUME d.code = 0 PROVE FALSE
    OBVIOUS
  <2>1. Pieces(d) = <<"junk">>
    BY DEF Pieces
  <2>2. rbuf.len <= 1
    BY <2>1
  <2>3. Len(Content) < 2
    BY <1>0, <2>2 DEF Content
  <2> QED
    BY <2>3 DEF Status
<1> DEFINE c == Content
           h == 4 + Extra(d)
<1>2. Extra(d) \in {0, 2, 3} /\ (Extra(d) # 0 => d.announced \in Nat)
  BY <1>0 DEF Extra
<1>3. /\ c \in Seq(Piece) /\ Len(c) = rbuf.len
      /\ \A i \in 1..rbuf.len : c[i] = Pieces(d)[i]
  BY <1>1, Shape, Text
<1> HIDE DEF c
<1>6. \A i \in 1..Len(c) : (c[i] = "blank" <=> i = h) /\ (c[i] = "name" <=> (i = 4 /\ Extra(d) # 0))
  <2>1. Len(Pieces(d)) \in Nat /\ \A i \in 1..Len(c) : i \in 1..Len(Pieces(d))
    BY <1>0, <1>1, <1>3, Shape
  <2> QED
    BY <1>1, <1>3, <2>1, Shape
<1>4. Status(c) \in {d.code \div 100, d.code} /\ (Len(c) # 2 => Status(c) = d.code)
  BY <1>0 DEF Status, c
<1>5. ASSUME Announced(c) > 0, HasBlank(c), 10 * Len(Rest(c)) >= Announced(c)
      PROVE  Good([errcode |-> Status(c), body |-> Rest(c)], d) /\ Rest(c) \in Seq(Bytes)
  <2>1. \A i \in 1..Len(c) : c[i] = "blank" => i = h
    BY <1>6
  <2>2. h \in 1..Len(c) /\ c[h] = "blank"
    <3>1. \E i \in 1..Len(c) : c[i] = "blank"
      BY <1>3, <1>5, AtNone DEF HasBlank
    <3> QED
      BY <2>1, <3>1
  <2>3. At(c, "blank") = h
    BY <1>3, <2>1, <2>2, AtOnly
  <2>4. Rest(c) = SubSeq(rbuf.mem, h + 1, rbuf.len)
    BY <2>3 DEF Rest
  <2>5. h + 1 \in Int /\ rbuf.len \in Int /\ h <= rbuf.len
    BY <1>0, <1>2, <1>3, <2>2
  <2>6. \A i \in (h + 1)..rbuf.len : rbuf.mem[i] \in Bytes
    BY <1>0, <1>2
  <2>7. Rest(c) \in Seq(Bytes)
    BY <2>4, <2>5, <2>6, SubSeqProperties
  <2>8. /\ Len(Rest(c)) = rbuf.len - h
        /\ \A i \in 1..Len(Rest(c)) : Rest(c)[i] = h + i
    <3>1. /\ Len(Rest(c)) = rbuf.len - h
          /\ \A i \in 1..Len(Rest(c)) : Rest(c)[i] = rbuf.mem[h + i]
      <4>3. Len(Rest(c)) = IF h + 1 <= rbuf.len THEN rbuf.len - (h + 1) + 1 ELSE 0
        BY <2>4, <2>5, <2>6, SubSeqProperties
      <4>4. Len(Rest(c)) = rbuf.len - h
        BY SMTT(30), <1>0, <1>2, <2>5, <4>3
      <4>5. \A i \in 1..(rbuf.len - (h + 1) + 1) : Rest(c)[i] = rbuf.mem[(h + 1) + i - 1]
        BY <2>4, <2>5, <2>6, SubSeqProperties
      <4>6. \A i \in 1..Len(Rest(c)) : /\ i \in 1..(rbuf.len - (h + 1) + 1)
                                       /\ (h + 1) + i - 1 = h + i
        BY SMTT(30), <1>2, <2>5, <4>4
      <4> QED
        BY <4>4, <4>5, <4>6
    <3>2. \A i \in 1..Len(Rest(c)) : h + i \in 1..rbuf.len
      BY <1>0, <1>2, <3>1
    <3> QED
      BY <3>1, <3>2 DEF Whole
  <2>9. Len(Pieces(d)) = h + d.text
    BY <1>1, Shape
  <2>10. Status(c) = d.code
    BY <1>2, <1>3, <1>4, <2>2
  <2>11. d.announced \in Nat /\ Announced(c) = 10 * d.announced
    <3>1. CASE Extra(d) = 0
      <4>1. \A i \in 1..Len(c) : c[i] # "name"
        BY <1>6, <3>1
      <4> QED
        BY <1>3, <1>5, <4>1, AtNone DEF Announced
    <3>2. CASE Extra(d) # 0
      <4>1. 4 \in 1..Len(c) /\ 5 \in 1..Len(c) /\ Len(c) > 5
        BY <1>2, <1>3, <1>0, <2>2, <3>2
      <4>2. c[4] = "name" /\ \A i \in 1..Len(c) : c[i] = "name" => i = 4
        BY <1>6, <3>2, <4>1
      <4>3. At(c, "name") = 4
        BY <1>3, <4>1, <4>2, AtOnly
      <4>4. c[5] # "zero"
        BY <1>5, <4>1, <4>3 DEF Announced
      <4>5. Announced(c) = 10 * reply.announced
        BY <4>1, <4>3, <4>4 DEF Announced
      <4> QED
        BY <1>2, <3>2, <4>5
    <3> QED
      BY <3>1, <3>2
  <2>12. Len(Rest(c)) >= d.announced /\ Len(Rest(c)) <= d.text
    BY SMTT(30), <1>0, <1>2, <1>5, <2>8, <2>9, <2>11
  <2> QED
    BY SMTT(30), <1>0, <1>2, <2>7, <2>8, <2>9, <2>10, <2>11, <2>12 DEF Good
<1> QED
  BY <1>4, <1>5 DEF c

-----------------------------------------------------------------------------
(* The stream in the buffer while http_client_send reads it, and what its  *)
(* parser has made of it.                                                  *)

Receiving == {"open", "write", "read", "again"}

StreamInv ==
  hpc \in Receiving =>
    /\ arrived \in Bytes /\ consumed \in Nat /\ consumed <= arrived
    /\ arrived <= Len(Pieces(reply))
    /\ rbuf \in BufferType(Bytes) /\ Whole(rbuf, consumed)

BodyInv ==
  /\ reply \in Replies
  /\ hpc \in HttpPCs
  /\ Good(rsp, reply) /\ rsp.body \in Seq(Bytes)
  /\ hpc \in Receiving => rsp.body = << >>

LEMMA PiecesLen == ASSUME NEW d \in Replies PROVE Len(Pieces(d)) \in Nat
<1>1. CASE d.code = 0
  <2>1. Pieces(d) = <<"junk">>
    BY <1>1 DEF Pieces
  <2> QED
    BY <2>1
<1>2. CASE d.code # 0
  BY <1>2, Shape, LenProperties
<1> QED
  BY <1>1, <1>2

LEMMA NoResponse == ASSUME NEW d PROVE Good(NoRsp, d) /\ NoRsp.body \in Seq(Bytes)
  BY DEF Good, NoRsp

(* The steps of conn.c and of the peer. *)
LEMMA ConnStream == StreamInv /\ HttpConn => StreamInv'
<1> SUFFICES ASSUME StreamInv, HttpConn, hpc' \in Receiving
             PROVE  /\ arrived' \in Bytes /\ consumed' \in Nat /\ consumed' <= arrived'
                    /\ arrived' <= Len(Pieces(reply'))
                    /\ rbuf' \in BufferType(Bytes) /\ Whole(rbuf', consumed')
  BY DEF StreamInv
<1>1. UNCHANGED <<hpc, reply>>
  BY DEF HttpConn, httpVars
<1>2. /\ arrived \in Bytes /\ consumed \in Nat /\ consumed <= arrived
      /\ arrived <= Len(Pieces(reply))
      /\ rbuf \in BufferType(Bytes) /\ Whole(rbuf, consumed)
  BY <1>1 DEF StreamInv
<1>3. CASE OpenSelect \/ AllSelect \/ WriteSelect \/ WriteSome \/ WriteNone
  <2>1. UNCHANGED <<arrived, consumed, rbuf>>
    BY <1>3 DEF OpenSelect, AllSelect, WriteSelect, WriteSome, WriteNone, kernel
  <2> QED
    BY <1>1, <1>2, <2>1
<1>4. CASE AllSome
  <2>1. PICK t \in 1..Chunk :
          /\ t <= arrived - consumed
          /\ consumed' = consumed + t
          /\ rbuf' = Deliver(buffer_append(rbuf, Chunk), t, consumed + 1)
    BY <1>4 DEF AllSome, Queued
  <2>2. arrived' = arrived
    BY <1>4 DEF AllSome
  <2> DEFINE b == buffer_append(rbuf, Chunk)
  <2>3. b \in BufferType(Bytes) /\ size(b) >= consumed + Chunk /\ Whole(b, consumed)
    BY <1>2, WholeAppend, ConnAssumption
  <2> HIDE DEF b
  <2>4. size(b) \in Nat /\ b.len = consumed
    BY <2>3 DEF size, BufferType, Whole
  <2>5. /\ t \in Nat /\ consumed + t <= size(b) /\ consumed + t <= MaxBytes
        /\ consumed + t <= arrived /\ consumed + t \in Nat
    BY <1>2, <2>1, <2>3, <2>4, ConnAssumption DEF Bytes
  <2>6. Whole(Deliver(b, t, consumed + 1), consumed + t)
    BY <1>2, <2>3, <2>5, WholeDeliver
  <2>7. Deliver(b, t, consumed + 1) \in BufferType(Bytes)
    <3>1. consumed + 1 \in Nat /\ \A j \in 0..(t - 1) : consumed + 1 + j \in Bytes
      BY <1>2, <2>5, ConnAssumption DEF Bytes
    <3> QED
      BY <2>3, <2>4, <2>5, <3>1, DeliverType
  <2> QED
    BY <1>1, <1>2, <2>1, <2>2, <2>5, <2>6, <2>7 DEF b
<1>5. CASE AllNone
  <2>1. UNCHANGED <<arrived, consumed>> /\ rbuf' = buffer_append(rbuf, Chunk)
    BY <1>5 DEF AllNone
  <2> QED
    BY <1>1, <1>2, <2>1, WholeAppend, ConnAssumption
<1> QED
  BY <1>3, <1>4, <1>5 DEF HttpConn

LEMMA PeerStream == StreamInv /\ BodyInv /\ HttpPeer => StreamInv'
<1> SUFFICES ASSUME StreamInv, BodyInv, HttpPeer, hpc' \in Receiving
             PROVE  /\ arrived' \in Bytes /\ consumed' \in Nat /\ consumed' <= arrived'
                    /\ arrived' <= Len(Pieces(reply'))
                    /\ rbuf' \in BufferType(Bytes) /\ Whole(rbuf', consumed')
  BY DEF StreamInv
<1>1. UNCHANGED <<hpc, reply, rbuf, consumed>> /\ arrived' <= Len(Pieces(reply))
  BY DEF HttpPeer, httpVars, Peer, PeerConnect, PeerSend, PeerClose, PeerReset, PeerUrgent, PeerDrain
<1>2. arrived' = arrived \/ arrived' \in (arrived + 1)..MaxBytes
  BY DEF HttpPeer, Peer, PeerConnect, PeerSend, PeerClose, PeerReset, PeerUrgent, PeerDrain
<1>3. /\ arrived \in Bytes /\ consumed \in Nat /\ consumed <= arrived
      /\ rbuf \in BufferType(Bytes) /\ Whole(rbuf, consumed)
  BY <1>1 DEF StreamInv
<1>4. arrived' \in Bytes /\ consumed <= arrived'
  BY <1>2, <1>3, ConnAssumption DEF Bytes
<1> QED
  BY <1>1, <1>3, <1>4

(* A request begins with an empty buffer and no response. *)
LEMMA SendStream ==
  ASSUME NEW q, Send(q)
  PROVE  StreamInv' /\ BodyInv'
<1>1. /\ hpc' = "open" /\ rsp' = NoRsp /\ reply' \in Replies
      /\ rbuf' = buffer_init(0) /\ arrived' = 0 /\ consumed' = 0
  BY DEF Send, conn_open, NewSocket
<1>2. Len(Pieces(reply')) \in Nat
  BY <1>1, PiecesLen
<1>3. 0 \in Bytes
  BY ConnAssumption DEF Bytes
<1>4. Whole(buffer_init(0), 0)
  BY ZeroBuffer, EmptyBuffer DEF Whole, ZeroTail, buffer_clear, size
<1>5. StreamInv'
  BY <1>1, <1>2, <1>3, <1>4, ZeroBuffer DEF StreamInv
<1>6. BodyInv'
  BY <1>1, NoResponse DEF BodyInv, HttpPCs, NoRsp
<1> QED
  BY <1>5, <1>6

(* What a round of the loop does to the response. *)
LEMMA ParseBody == StreamInv /\ BodyInv /\ Parse => StreamInv' /\ BodyInv'
<1> SUFFICES ASSUME StreamInv, BodyInv, Parse PROVE StreamInv' /\ BodyInv'
  OBVIOUS
<1>1. /\ hpc = "read" /\ hpc' \in {"again", "clear"}
      /\ UNCHANGED <<arrived, consumed, reply>>
      /\ rbuf' = rbuf \/ rbuf' = buffer_append(rbuf, 1)
  BY DEF Parse, kernel
<1>2. /\ arrived \in Bytes /\ consumed \in Nat /\ consumed <= arrived
      /\ arrived <= Len(Pieces(reply))
      /\ rbuf \in BufferType(Bytes) /\ Whole(rbuf, consumed)
  BY <1>1 DEF StreamInv, Receiving
<1>3. reply \in Replies /\ rsp.body = << >> /\ Good(rsp, reply) /\ rsp.body \in Seq(Bytes)
  BY <1>1 DEF BodyInv, Receiving
<1>4. StreamInv'
  <2>1. rbuf' \in BufferType(Bytes) /\ Whole(rbuf', consumed)
    BY <1>1, <1>2, WholeAppend
  <2> QED
    BY <1>1, <1>2, <2>1 DEF StreamInv
<1> DEFINE whole == Announced(Content) > 0 /\ HasBlank(Content)
                    /\ 10 * Len(Rest(Content)) >= Announced(Content)
<1>5. \/ rsp' = rsp /\ hpc' \in {"again", "clear"}
      \/ /\ rbuf.len # 0 /\ Status(Content) # 0
         /\ \/ rsp' = [errcode |-> Status(Content), body |-> rsp.body] /\ ~whole
            \/ /\ rsp' = [errcode |-> Status(Content), body |-> rsp.body \o Rest(Content)]
               /\ whole /\ hpc' = "clear"
  <2>1. CASE rbuf.len = 0
    BY <1>1, <2>1 DEF Parse
  <2>2. CASE rbuf.len # 0
    <3>1. IF Status(Content) = 0
          THEN rsp' = rsp
          ELSE /\ rsp' = [errcode |-> Status(Content),
                          body |-> IF whole THEN rsp.body \o Rest(Content) ELSE rsp.body]
               /\ whole => hpc' = "clear"
      BY <2>2 DEF Parse, str_append
    <3> HIDE DEF whole
    <3> QED
      BY <1>1, <2>2, <3>1
  <2> QED
    BY <2>1, <2>2
<1> HIDE DEF whole
<1>6. CASE rsp' = rsp
  BY <1>1, <1>3, <1>4, <1>6 DEF BodyInv, HttpPCs, Receiving
<1>7. CASE rbuf.len # 0 /\ Status(Content) # 0
  <2>1. rbuf.len = consumed /\ Whole(rbuf, rbuf.len) /\ rbuf.len <= Len(Pieces(reply))
    <3>1. rbuf.len = consumed
      BY <1>2 DEF Whole
    <3>2. Len(Pieces(reply)) \in Nat
      BY <1>3, PiecesLen
    <3> QED
      BY <1>2, <3>1, <3>2 DEF Bytes
  <2>2. /\ Status(Content) \in {reply.code \div 100, reply.code}
        /\ whole => /\ Good([errcode |-> Status(Content), body |-> Rest(Content)], reply)
                    /\ Rest(Content) \in Seq(Bytes)
    BY <1>2, <1>3, <1>7, <2>1, Parsed DEF whole
  <2>3. CASE rsp' = [errcode |-> Status(Content), body |-> rsp.body]
    <3>1. Good(rsp', reply)
      BY <1>3, <2>2, <2>3 DEF Good
    <3> QED
      BY <1>1, <1>3, <1>4, <2>3, <3>1 DEF BodyInv, HttpPCs, Receiving
  <2>4. CASE /\ rsp' = [errcode |-> Status(Content), body |-> rsp.body \o Rest(Content)]
             /\ whole /\ hpc' = "clear"
    <3>1. rsp' = [errcode |-> Status(Content), body |-> Rest(Content)]
      BY <1>3, <2>2, <2>4, ConcatEmptySeq
    <3>2. Good(rsp', reply)
      BY <2>2, <2>4, <3>1
    <3> QED
      BY <1>1, <1>3, <1>4, <2>2, <2>4, <3>1, <3>2 DEF BodyInv, HttpPCs, Receiving
  <2> QED
    BY <1>5, <1>6, <2>3, <2>4, <1>4
<1> QED
  BY <1>4, <1>5, <1>6, <1>7

LEMMA CodeBody == StreamInv /\ BodyInv /\ HttpCode => StreamInv' /\ BodyInv'
<1> SUFFICES ASSUME StreamInv, BodyInv, HttpCode PROVE StreamInv' /\ BodyInv'
  OBVIOUS
<1>1. CASE OpenFailed \/ Clear \/ Close
  <2>1. hpc' \in {"idle", "close"} /\ UNCHANGED <<rsp, reply>>
    BY <1>1 DEF OpenFailed, Clear, Close
  <2> QED
    BY <2>1 DEF StreamInv, BodyInv, Receiving, HttpPCs
<1>2. CASE Opened \/ Written \/ ReadAgain
  <2>1. /\ hpc \in Receiving /\ hpc' \in {"write", "read"}
        /\ UNCHANGED <<rsp, reply, arrived, consumed, rbuf>>
    BY <1>2 DEF Opened, Written, ReadAgain, conn_write, conn_read_all, kernel, Receiving
  <2> QED
    BY <2>1 DEF StreamInv, BodyInv, Receiving, HttpPCs
<1> QED
  BY <1>1, <1>2, ParseBody DEF HttpCode

LEMMA BodyNext == StreamInv /\ BodyInv /\ [HttpNext]_allVars => StreamInv' /\ BodyInv'
<1> SUFFICES ASSUME StreamInv, BodyInv, [HttpNext]_allVars PROVE StreamInv' /\ BodyInv'
  OBVIOUS
<1>1. CASE HttpConn \/ HttpPeer
  <2>1. UNCHANGED httpVars
    BY <1>1 DEF HttpConn, HttpPeer
  <2>2. BodyInv'
    BY <2>1 DEF httpVars, BodyInv
  <2> QED
    BY <1>1, <2>2, ConnStream, PeerStream
<1>2. CASE http_client_free_rsp
  <2>1. hpc' = "idle" /\ rsp' = NoRsp /\ reply' = reply
    BY <1>2 DEF http_client_free_rsp
  <2> QED
    BY <2>1, NoResponse DEF StreamInv, BodyInv, Receiving, HttpPCs
<1>3. CASE UNCHANGED allVars
  BY <1>3 DEF allVars, httpVars, vars, kernel, StreamInv, BodyInv
<1> QED
  BY <1>1, <1>2, <1>3, SendStream, CodeBody DEF HttpNext

LEMMA BodyInit == HttpInit => StreamInv /\ BodyInv
  BY NoResponse DEF HttpInit, StreamInv, BodyInv, Receiving, HttpPCs

(* However the reply is cut into reads, and however often the loop parses  *)
(* a part of it, the body handed out is the text after the blank line from *)
(* its first byte, as long as announced, and its status is complete.       *)
THEOREM HttpWholeBody == HttpSpec => []WholeBody
<1>1. BodyInv => WholeBody
  BY DEF BodyInv, Good, WholeBody
<1> QED
  BY <1>1, BodyInit, BodyNext, PTL DEF HttpSpec

-----------------------------------------------------------------------------
(* The exchange. *)

(* What the caller is given, from the moment hpc is idle again. *)
answer == [code |-> IF hpc = "idle" THEN rsp.errcode ELSE 0,
           body |-> IF hpc = "idle" THEN Len(rsp.body) ELSE 0]

LEMMA GoodAnswer ==
  ASSUME NEW a, NEW d \in Replies, Good(a, d), a.body \in Seq(Bytes)
  PROVE  [code |-> a.errcode, body |-> Len(a.body)] \in Exchange!Answers(d)
<1>1. CASE a.body = << >>
  <2>1. Len(a.body) = 0
    BY <1>1
  <2> QED
    BY <2>1 DEF Good, Exchange!Answers, Exchange!Nothing
<1>2. CASE a.body # << >>
  <2>1. /\ a.errcode = d.code /\ d.announced \in Nat
        /\ Len(a.body) >= d.announced /\ Len(a.body) <= d.text
    BY <1>2 DEF Good
  <2>2. d.announced # NoLength /\ d.text \in Nat /\ Len(a.body) \in Nat
    BY <2>1, HttpAssumption
  <2>3. Len(a.body) \in d.announced..d.text
    BY <2>1, <2>2
  <2> QED
    BY <2>1, <2>2, <2>3 DEF Exchange!Answers
<1> QED
  BY <1>1, <1>2

LEMMA ExchangeInit == HttpInit => Exchange!Init
<1> SUFFICES ASSUME HttpInit PROVE Exchange!Init
  OBVIOUS
<1>1. hpc = "idle" /\ rsp = NoRsp /\ reply \in Replies
  BY DEF HttpInit
<1>2. answer = [code |-> 0, body |-> 0]
  BY <1>1 DEF answer, NoRsp
<1> QED
  BY <1>1, <1>2 DEF Exchange!Init, Exchange!Nothing, answer

(* Each step asks, returns or frees, or the caller does not see it. *)
LEMMA ExchangeNext == BodyInv /\ [HttpNext]_allVars => [Exchange!Next]_(<<hpc # "idle", reply, answer>>)
<1> SUFFICES ASSUME BodyInv, [HttpNext]_allVars
             PROVE  Exchange!Next \/ UNCHANGED <<hpc # "idle", reply, answer>>
  OBVIOUS
<1>1. ASSUME NEW q, Send(q) PROVE Exchange!Ask
  <2>1. hpc = "idle" /\ hpc' = "open" /\ reply' \in Replies
    BY <1>1 DEF Send
  <2>2. answer' = [code |-> 0, body |-> 0]
    BY <2>1 DEF answer
  <2> QED
    BY <2>1, <2>2 DEF Exchange!Ask, Exchange!Nothing, answer
<1>2. CASE OpenFailed \/ Close
  <2>1. hpc # "idle" /\ hpc' = "idle" /\ UNCHANGED <<rsp, reply>>
    BY <1>2 DEF OpenFailed, Close
  <2>2. reply \in Replies /\ Good(rsp, reply) /\ rsp.body \in Seq(Bytes)
    BY DEF BodyInv
  <2>3. answer' = [code |-> rsp.errcode, body |-> Len(rsp.body)]
    BY <2>1 DEF answer
  <2>4. answer' \in Exchange!Answers(reply)
    BY <2>2, <2>3, GoodAnswer
  <2> QED
    BY <2>1, <2>4 DEF Exchange!Next, Exchange!Return, answer
<1>3. CASE Opened \/ Written \/ Parse \/ ReadAgain \/ Clear
  <2>1. hpc # "idle" /\ hpc' # "idle" /\ reply' = reply
    BY <1>3 DEF Opened, Written, Parse, ReadAgain, Clear
  <2> QED
    BY <2>1 DEF answer
<1>4. CASE HttpConn \/ HttpPeer \/ UNCHANGED allVars
  <2>1. UNCHANGED <<hpc, rsp, reply>>
    BY <1>4 DEF HttpConn, HttpPeer, httpVars, allVars
  <2> QED
    BY <2>1 DEF answer
<1>5. CASE http_client_free_rsp
  <2>1. hpc = "idle" /\ hpc' = "idle" /\ reply' = reply /\ rsp' = NoRsp
    BY <1>5 DEF http_client_free_rsp
  <2>2. answer' = [code |-> 0, body |-> 0]
    BY <2>1 DEF answer, NoRsp
  <2> QED
    BY <2>1, <2>2 DEF Exchange!Next, Exchange!Free, Exchange!Nothing, answer
<1> QED
  BY <1>1, <1>2, <1>3, <1>4, <1>5 DEF HttpNext, HttpCode, Exchange!Next

(* http_client_send implements HttpExchange: the caller gets nothing, a    *)
(* status, or a status with a body no shorter than announced.              *)
THEOREM HttpImplementsExchange == HttpSpec => ImplementsExchange
<1>1. HttpInit /\ [][HttpNext]_allVars => [](BodyInv /\ StreamInv)
  BY BodyInit, BodyNext, PTL
<1> QED
  BY <1>1, ExchangeInit, ExchangeNext, PTL DEF HttpSpec, ImplementsExchange, Exchange!Spec, answer

-----------------------------------------------------------------------------
(* The request. *)

Word == {"GET", "POST", "host", "soapaction", "length", "blank", "envelope"}

LEMMA OneMore ==
  ASSUME NEW s \in Seq(Word), NEW x \in Word
  PROVE  /\ s \o <<x>> \in Seq(Word) /\ Len(s \o <<x>>) = Len(s) + 1
         /\ \A i \in 1..Len(s) : (s \o <<x>>)[i] = s[i]
         /\ (s \o <<x>>)[Len(s) + 1] = x
<1>1. <<x>> \in Seq(Word) /\ Len(<<x>>) = 1 /\ <<x>>[1] = x
  OBVIOUS
<1>2. /\ s \o <<x>> \in Seq(Word) /\ Len(s \o <<x>>) = Len(s) + 1
      /\ \A i \in 1..(Len(s) + 1) : (s \o <<x>>)[i] = IF i <= Len(s) THEN s[i] ELSE <<x>>[i - Len(s)]
  BY <1>1, ConcatProperties
<1>3. Len(s) \in Nat
  OBVIOUS
<1> QED
  BY <1>1, <1>2, <1>3

(* The two requests are framed. *)
LEMMA Framed ==
  ASSUME NEW q \in Requests
  PROVE  /\ RequestText(q) \in Seq(Word) /\ Len(RequestText(q)) \in Nat \ {0}
         /\ "length" \in ToSet(RequestText(q)) <=> RequestText(q)[Len(RequestText(q))] # "blank"
<1> USE DEF Word
<1>1. /\ << >> \o <<"GET">> = <<"GET">> /\ << >> \o <<"POST">> = <<"POST">>
      /\ << >> \o <<"soapaction">> = <<"soapaction">> /\ << >> \o <<"envelope">> = <<"envelope">>
  <2>1. \A x \in Word : <<x>> \in Seq(Word)
    OBVIOUS
  <2> QED
    BY <2>1, ConcatEmptySeq
<1>2. \/ q.method = <<"GET">> /\ q.header = << >> /\ q.body = << >>
      \/ q.method = <<"POST">> /\ q.header = <<"soapaction">> /\ q.body = <<"envelope">>
  <2>1. http_client_make_req("GET") = [method |-> <<"GET">>, header |-> << >>, body |-> << >>]
    BY <1>1 DEF http_client_make_req, NoReq, str_append
  <2>2. http_client_make_req("POST") = [method |-> <<"POST">>, header |-> << >>, body |-> << >>]
    BY <1>1 DEF http_client_make_req, NoReq, str_append
  <2>3. http_client_add_header(http_client_make_req("POST"), <<"soapaction">>)
          = [method |-> <<"POST">>, header |-> <<"soapaction">>, body |-> << >>]
    BY <1>1, <2>2 DEF http_client_add_header, str_append
  <2>4. <<"POST">> # <<"GET">>
    OBVIOUS
  <2>5. http_client_set_body([method |-> <<"POST">>, header |-> <<"soapaction">>, body |-> << >>],
                             <<"envelope">>)
          = [method |-> <<"POST">>, header |-> <<"soapaction">>, body |-> <<"envelope">>]
    BY <1>1, <2>4 DEF http_client_set_body, str_append
  <2> QED
    BY <2>1, <2>3, <2>5 DEF Requests
<1>3. CASE q.method = <<"GET">> /\ q.header = << >> /\ q.body = << >>
  <2> DEFINE a == <<"GET">> \o <<"host">>
             t == a \o <<"blank">>
  <2>1. <<"GET">> \in Seq(Word) /\ Len(<<"GET">>) = 1 /\ <<"GET">>[1] = "GET"
    OBVIOUS
  <2>2. a \in Seq(Word) /\ Len(a) = 2 /\ a[1] = "GET" /\ a[2] = "host"
    BY <2>1, OneMore
  <2>3. a \o << >> = a
    BY <2>2, ConcatEmptySeq
  <2>4. <<"GET">> # <<"POST">>
    OBVIOUS
  <2>5. RequestText(q) = t
    BY <1>3, <2>3, <2>4 DEF RequestText
  <2> HIDE DEF a
  <2>6. t \in Seq(Word) /\ Len(t) = 3 /\ t[1] = "GET" /\ t[2] = "host" /\ t[3] = "blank"
    <3>1. /\ t \in Seq(Word) /\ Len(t) = Len(a) + 1
          /\ \A i \in 1..Len(a) : t[i] = a[i]
          /\ t[Len(a) + 1] = "blank"
      BY <2>2, OneMore
    <3> HIDE DEF t
    <3> QED
      BY <2>2, <3>1
  <2> HIDE DEF t
  <2>7. \A i \in DOMAIN t : t[i] # "length"
    BY <2>6
  <2> QED
    BY <2>5, <2>6, <2>7 DEF ToSet
<1>4. CASE q.method = <<"POST">> /\ q.header = <<"soapaction">> /\ q.body = <<"envelope">>
  <2> DEFINE h == <<"soapaction">> \o <<"length">>
             a == <<"POST">> \o <<"host">>
             b == a \o h
             c == b \o <<"blank">>
             t == c \o <<"envelope">>
  <2>1. /\ <<"POST">> \in Seq(Word) /\ Len(<<"POST">>) = 1
        /\ <<"soapaction">> \in Seq(Word) /\ Len(<<"soapaction">>) = 1
    OBVIOUS
  <2>2. a \in Seq(Word) /\ Len(a) = 2
    BY <2>1, OneMore
  <2>3. h \in Seq(Word) /\ Len(h) = 2 /\ h[2] = "length"
    BY <2>1, OneMore
  <2>4. <<"envelope">> # << >>
    OBVIOUS
  <2>5. RequestText(q) = t
    BY <1>4, <2>4 DEF RequestText, str_append
  <2> HIDE DEF a, h
  <2>6. b \in Seq(Word) /\ Len(b) = 4 /\ b[4] = "length"
    <3>1. /\ b \in Seq(Word) /\ Len(b) = Len(a) + Len(h)
          /\ \A i \in 1..(Len(a) + Len(h)) : b[i] = IF i <= Len(a) THEN a[i] ELSE h[i - Len(a)]
      BY <2>2, <2>3, ConcatProperties
    <3> HIDE DEF b
    <3> QED
      BY <2>2, <2>3, <3>1
  <2> HIDE DEF b
  <2>7. c \in Seq(Word) /\ Len(c) = 5 /\ c[4] = "length"
    <3>1. /\ c \in Seq(Word) /\ Len(c) = Len(b) + 1
          /\ \A i \in 1..Len(b) : c[i] = b[i]
          /\ c[Len(b) + 1] = "blank"
      BY <2>6, OneMore
    <3> HIDE DEF c
    <3> QED
      BY <2>6, <3>1
  <2> HIDE DEF c
  <2>8. t \in Seq(Word) /\ Len(t) = 6 /\ t[4] = "length" /\ t[6] = "envelope"
    <3>1. /\ t \in Seq(Word) /\ Len(t) = Len(c) + 1
          /\ \A i \in 1..Len(c) : t[i] = c[i]
          /\ t[Len(c) + 1] = "envelope"
      BY <2>7, OneMore
    <3> HIDE DEF t
    <3> QED
      BY <2>7, <3>1
  <2> HIDE DEF t
  <2>9. 4 \in DOMAIN t
    BY <2>8
  <2> QED
    BY <2>5, <2>8, <2>9 DEF ToSet
<1> QED
  BY <1>2, <1>3, <1>4

(* conn_write on the text: what is on the wire is its beginning, and stays *)
(* one for a reason.                                                       *)
Wire(m) ==
  /\ r \in Nat /\ len \in Nat /\ r + len = m
  /\ out \in Seq(1..m) /\ Len(out) = r /\ \A i \in 1..r : out[i] = i
  /\ pc \notin {"write", "writable"} => len = 0 \/ rst = "seen" \/ urgent

RequestInv ==
  /\ hpc = "open" => req \in Requests
  /\ hpc \in {"write", "read", "again"} =>
       /\ \E q \in Requests : wbuf = RequestText(q)
       /\ Wire(Len(wbuf))

LEMMA WireMore ==
  ASSUME NEW m \in Nat, NEW s \in Seq(1..m), NEW t \in Nat, Len(s) + t <= m,
         \A i \in 1..Len(s) : s[i] = i
  PROVE  /\ s \o [j \in 1..t |-> Len(s) + j] \in Seq(1..m)
         /\ Len(s \o [j \in 1..t |-> Len(s) + j]) = Len(s) + t
         /\ \A i \in 1..(Len(s) + t) : (s \o [j \in 1..t |-> Len(s) + j])[i] = i
<1> DEFINE w == [j \in 1..t |-> Len(s) + j]
<1>1. \A j \in 1..t : Len(s) + j \in 1..m
  OBVIOUS
<1>2. w \in Seq(1..m)
  BY <1>1
<1> HIDE DEF w
<1>3. s \o w \in Seq(1..m)
  BY <1>2, ConcatProperties
<1> QED
  BY <1>3, WireStep DEF w

LEMMA ConnRequest == RequestInv /\ HttpConn => RequestInv'
<1> SUFFICES ASSUME RequestInv, HttpConn PROVE RequestInv'
  OBVIOUS
<1>1. UNCHANGED <<hpc, req, wbuf>>
  BY DEF HttpConn, httpVars
<1> SUFFICES ASSUME hpc \in {"write", "read", "again"}, Wire(Len(wbuf)) PROVE Wire(Len(wbuf))'
  BY <1>1 DEF RequestInv
<1>2. /\ r \in Nat /\ len \in Nat /\ r + len = Len(wbuf)
      /\ out \in Seq(1..Len(wbuf)) /\ Len(out) = r /\ \A i \in 1..r : out[i] = i
      /\ pc \notin {"write", "writable"} => len = 0 \/ rst = "seen" \/ urgent
  BY DEF Wire
<1>3. CASE OpenSelect \/ AllSelect \/ AllSome \/ AllNone
  <2>1. /\ UNCHANGED <<r, len, out, urgent>> /\ rst' \in {rst, "seen"}
        /\ pc \notin {"write", "writable"}
    BY <1>3 DEF OpenSelect, AllSelect, AllSome, AllNone, kernel
  <2> QED
    BY <1>1, <1>2, <2>1 DEF Wire
<1>4. CASE WriteSelect \/ WriteNone
  <2>1. /\ UNCHANGED <<r, len, out, urgent>>
        /\ pc' \in {"write", "writable"} \/ rst' = "seen" \/ urgent
    BY <1>4 DEF WriteSelect, WriteNone, Return, kernel
  <2> QED
    BY <1>1, <1>2, <2>1 DEF Wire
<1>5. CASE WriteSome
  <2>1. PICK t \in 1..len : out' = out \o [j \in 1..t |-> r + j] /\ r' = r + t /\ len' = len - t
    BY <1>5 DEF WriteSome
  <2>2. len' = 0 \/ pc' = "write"
    BY <1>5 DEF WriteSome
  <2> DEFINE m == Len(wbuf)
  <2>3. t \in Nat /\ m \in Nat /\ Len(out) + t <= m /\ r' \in Nat /\ len' \in Nat /\ r' + len' = m
    BY <1>2, <2>1
  <2>4. out' = out \o [j \in 1..t |-> Len(out) + j]
    BY <1>2, <2>1
  <2> HIDE DEF m
  <2>5. out \in Seq(1..m) /\ \A i \in 1..Len(out) : out[i] = i
    BY <1>2 DEF m
  <2>6. /\ out \o [j \in 1..t |-> Len(out) + j] \in Seq(1..m)
        /\ Len(out \o [j \in 1..t |-> Len(out) + j]) = Len(out) + t
        /\ \A i \in 1..(Len(out) + t) : (out \o [j \in 1..t |-> Len(out) + j])[i] = i
    BY <2>3, <2>5, WireMore
  <2>7. out' \in Seq(1..m) /\ Len(out') = r' /\ \A i \in 1..r' : out'[i] = i
    BY <1>2, <2>1, <2>4, <2>6
  <2> QED
    BY <1>1, <2>2, <2>3, <2>7 DEF Wire, m
<1> QED
  BY <1>3, <1>4, <1>5 DEF HttpConn

LEMMA RequestNext == RequestInv /\ [HttpNext]_allVars => RequestInv'
<1> SUFFICES ASSUME RequestInv, [HttpNext]_allVars PROVE RequestInv'
  OBVIOUS
<1>1. ASSUME NEW q \in Requests, Send(q) PROVE RequestInv'
  BY <1>1 DEF Send, RequestInv
<1>2. CASE Opened
  <2>1. hpc = "open" /\ hpc' = "write" /\ wbuf' = RequestText(req) /\ conn_write(Len(wbuf'))
    BY <1>2 DEF Opened
  <2>2. req \in Requests
    BY <2>1 DEF RequestInv
  <2>3. Len(wbuf') \in Nat \ {0}
    BY <2>1, <2>2, Framed
  <2>4. r' = 0 /\ len' = Len(wbuf') /\ out' = << >> /\ pc' = "write"
    BY <2>1, <2>3 DEF conn_write
  <2>5. << >> \in Seq(1..Len(wbuf')) /\ Len(<< >>) = 0
    OBVIOUS
  <2>6. Wire(Len(wbuf))'
    BY <2>3, <2>4, <2>5 DEF Wire
  <2> QED
    BY <2>1, <2>2, <2>6 DEF RequestInv
<1>3. CASE Written \/ ReadAgain
  <2>1. /\ hpc \in {"write", "again"} /\ hpc' = "read" /\ pc = "idle"
        /\ UNCHANGED <<wbuf, r, len, out, rst, urgent>>
    BY <1>3 DEF Written, ReadAgain, conn_read_all, kernel
  <2> QED
    BY <2>1 DEF RequestInv, Wire
<1>4. CASE Parse
  <2>1. /\ hpc = "read" /\ hpc' \in {"again", "clear"}
        /\ UNCHANGED <<wbuf, pc, r, len, out, rst, urgent>>
    BY <1>4 DEF Parse, kernel
  <2> QED
    BY <2>1 DEF RequestInv, Wire
<1>5. CASE OpenFailed \/ Clear \/ Close \/ http_client_free_rsp
  <2>1. hpc' \in {"idle", "close"}
    BY <1>5 DEF OpenFailed, Clear, Close, http_client_free_rsp
  <2> QED
    BY <2>1 DEF RequestInv
<1>6. CASE HttpPeer
  <2>1. /\ UNCHANGED <<hpc, req, wbuf, pc, r, len, out>>
        /\ rst = "seen" => rst' = "seen"
        /\ urgent => urgent'
    BY <1>6 DEF HttpPeer, httpVars, Peer, PeerConnect, PeerSend, PeerClose, PeerReset, PeerUrgent, PeerDrain
  <2> QED
    BY <2>1 DEF RequestInv, Wire
<1>7. CASE UNCHANGED allVars
  BY <1>7 DEF allVars, httpVars, vars, kernel, RequestInv, Wire
<1> QED
  BY <1>1, <1>2, <1>3, <1>4, <1>5, <1>6, <1>7, ConnRequest DEF HttpNext, HttpCode

LEMMA FramedNow == RequestInv /\ HeldInv => RequestFramed
<1> SUFFICES ASSUME RequestInv, HeldInv, hpc \in {"write", "read", "again"}
             PROVE  LET sent == [i \in 1..Len(out) |-> wbuf[out[i]]]
                    IN  /\ "length" \in ToSet(wbuf) <=> wbuf[Len(wbuf)] # "blank"
                        /\ IsPrefix(sent, wbuf)
                        /\ (hpc # "write" /\ Len(sent) < Len(wbuf)) => (rst = "seen" \/ urgent)
  BY DEF RequestFramed
<1> DEFINE sent == [i \in 1..Len(out) |-> wbuf[out[i]]]
<1>1. PICK q \in Requests : wbuf = RequestText(q)
  BY DEF RequestInv
<1>2. /\ r \in Nat /\ len \in Nat /\ r + len = Len(wbuf)
      /\ Len(out) = r /\ \A i \in 1..r : out[i] = i
      /\ pc \notin {"write", "writable"} => len = 0 \/ rst = "seen" \/ urgent
  BY DEF RequestInv, Wire
<1>3. /\ wbuf \in Seq(Word) /\ Len(wbuf) \in Nat
      /\ "length" \in ToSet(wbuf) <=> wbuf[Len(wbuf)] # "blank"
  BY <1>1, Framed
<1>4. \A i \in 1..Len(out) : wbuf[out[i]] = wbuf[i] /\ wbuf[i] \in Word
  BY <1>2, <1>3
<1>5. sent \in Seq(Word) /\ Len(sent) = r /\ \A i \in 1..r : sent[i] = wbuf[i]
  BY <1>2, <1>4
<1> HIDE DEF sent
<1>6. IsPrefix(sent, wbuf)
  <2>1. Len(sent) <= Len(wbuf)
    BY <1>2, <1>5
  <2>2. /\ SubSeq(sent, 1, r) \in Seq(Word) /\ Len(SubSeq(sent, 1, r)) = r
        /\ \A i \in 1..r : SubSeq(sent, 1, r)[i] = sent[i]
    BY <1>2, <1>5
  <2>3. /\ SubSeq(wbuf, 1, r) \in Seq(Word) /\ Len(SubSeq(wbuf, 1, r)) = r
        /\ \A i \in 1..r : SubSeq(wbuf, 1, r)[i] = wbuf[i]
    BY <1>2, <1>3
  <2>4. SubSeq(sent, 1, r) = SubSeq(wbuf, 1, r)
    BY <1>5, <2>2, <2>3, SeqEqual
  <2> QED
    BY <1>5, <2>1, <2>4 DEF IsPrefix
<1>7. ASSUME hpc # "write", Len(sent) < Len(wbuf) PROVE rst = "seen" \/ urgent
  <2>1. pc \notin {"write", "writable"}
    BY <1>7 DEF HeldInv
  <2> QED
    BY <1>2, <1>5, <1>7, <2>1
<1> QED
  BY <1>3, <1>6, <1>7 DEF sent

(* What the server gets is a beginning of one well-framed request, all of  *)
(* it unless the peer reset the connection or sent urgent data.            *)
THEOREM HttpRequestFramed == HttpSpec => []RequestFramed
<1>1. HttpInit => HeldInv /\ RequestInv
  BY DEF HttpInit, Init, HeldInv, AtRest, HttpPCs, NoRsp, RequestInv
<1> QED
  BY <1>1, HeldNext, RequestNext, FramedNow, PTL DEF HttpSpec
=============================================================================
