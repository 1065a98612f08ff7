----------------------------- MODULE ConnProofs -----------------------------
(***************************************************************************)
(* Proofs about Conn, for every stream length, request length, chunk and   *)
(* send buffer: type correctness, what conn_read and conn_read_all return, *)
(* and that conn_read implements StreamReader.                             *)
(***************************************************************************)
EXTENDS Conn, SequenceTheorems, TLAPS

-----------------------------------------------------------------------------
(* Buffers.                                                                *)

(* buffer_append keeps the used bytes and makes room. *)
LEMMA AppendType ==
  ASSUME NEW S, 0 \in S, NEW b \in BufferType(S), b.len <= size(b), NEW k \in Nat
  PROVE  /\ buffer_append(b, k) \in BufferType(S)
         /\ buffer_append(b, k).len = b.len
         /\ size(buffer_append(b, k)) >= b.len + k
         /\ \A i \in 1..b.len : buffer_append(b, k).mem[i] = b.mem[i]
         /\ ZeroTail(b) => ZeroTail(buffer_append(b, k))
<1>1. CASE k + b.len > size(b)
  <2> DEFINE m == [i \in 1..(k + b.len) |-> IF i <= b.len THEN b.mem[i] ELSE 0]
  <2>1. b.mem \in Seq(S) /\ b.len \in Nat /\ k + b.len \in Nat
    BY DEF BufferType
  <2>2. \A i \in 1..(k + b.len) : (IF i <= b.len THEN b.mem[i] ELSE 0) \in S
    BY <2>1 DEF size
  <2>3. m \in Seq(S) /\ Len(m) = k + b.len
    BY <2>1, <2>2
  <2>4. buffer_append(b, k) = [mem |-> m, len |-> b.len]
    BY <1>1 DEF buffer_append
  <2> HIDE DEF m
  <2>5. \A i \in 1..(k + b.len) : m[i] = IF i <= b.len THEN b.mem[i] ELSE 0
    BY DEF m
  <2> QED
    BY <2>1, <2>3, <2>4, <2>5 DEF BufferType, size, ZeroTail
<1>2. CASE ~(k + b.len > size(b))
  BY <1>2 DEF buffer_append, BufferType, size
<1> QED
  BY <1>1, <1>2

(* A read into the free part of the block keeps the rest of it. *)
LEMMA DeliverType ==
  ASSUME NEW S, NEW b \in BufferType(S), NEW t \in Nat, NEW first \in Nat,
         b.len + t <= size(b),
         \A j \in 0..(t - 1) : first + j \in S
  PROVE  /\ Deliver(b, t, first) \in BufferType(S)
         /\ Deliver(b, t, first).len = b.len + t
         /\ size(Deliver(b, t, first)) = size(b)
         /\ \A i \in 1..size(b) : Deliver(b, t, first).mem[i] =
               IF i \in (b.len + 1)..(b.len + t) THEN first + (i - b.len - 1) ELSE b.mem[i]
<1> DEFINE m == [i \in 1..size(b) |-> IF i \in (b.len + 1)..(b.len + t)
                                      THEN first + (i - b.len - 1) ELSE b.mem[i]]
<1>1. b.mem \in Seq(S) /\ b.len \in Nat /\ size(b) \in Nat
  BY DEF BufferType, size
<1>2. \A i \in 1..size(b) : (IF i \in (b.len + 1)..(b.len + t)
                             THEN first + (i - b.len - 1) ELSE b.mem[i]) \in S
  <2> SUFFICES ASSUME NEW i \in 1..size(b)
               PROVE  (IF i \in (b.len + 1)..(b.len + t)
                       THEN first + (i - b.len - 1) ELSE b.mem[i]) \in S
    OBVIOUS
  <2>1. CASE i \in (b.len + 1)..(b.len + t)
    <3>1. i - b.len - 1 \in 0..(t - 1)
      BY <1>1, <2>1
    <3> QED
      BY <2>1, <3>1
  <2>2. CASE i \notin (b.len + 1)..(b.len + t)
    BY <1>1, <2>2 DEF size
  <2> QED
    BY <2>1, <2>2
<1>3. m \in Seq(S) /\ Len(m) = size(b)
  BY <1>1, <1>2
<1>4. Deliver(b, t, first) = [mem |-> m, len |-> b.len + t]
  BY DEF Deliver
<1>5. \A i \in 1..size(b) : m[i] = IF i \in (b.len + 1)..(b.len + t)
                                   THEN first + (i - b.len - 1) ELSE b.mem[i]
  OBVIOUS
<1> HIDE DEF m
<1> QED
  BY <1>1, <1>3, <1>4, <1>5 DEF BufferType, size

-----------------------------------------------------------------------------
(* Type correctness.  A transfer in progress keeps r + len = want, without *)
(* which the cursor of conn_read and conn_write could leave the caller's   *)
(* buffer, and read() takes only what has arrived; conn_read_all's buffer  *)
(* never has more bytes in use than it has allocated.                      *)

Transfer ==
  /\ consumed <= arrived
  /\ pc \in {"read", "readable", "write", "writable"} => r + len = want /\ len > 0
  /\ rbuf.len <= size(rbuf)

(* The two kinds of conjuncts of TypeOK, which different provers handle. *)
Flags ==
  /\ fin \in BOOLEAN /\ urgent \in BOOLEAN
  /\ wset \in BOOLEAN /\ eset \in BOOLEAN

Values ==
  /\ sk \in {"none", "connecting", "refused", "up"}
  /\ arrived \in Bytes /\ consumed \in Bytes
  /\ rst \in {"no", "pending", "seen"} /\ room \in 0..SndBuf
  /\ user \in {"vnc", "http"} /\ pc \in Waits
  /\ r \in 0..MaxLen /\ len \in 0..MaxLen
  /\ tv \in {"none", "neg", "fin"}
  /\ mem \in [1..MaxLen -> Bytes] /\ rbuf \in BufferType(Bytes)
  /\ out \in Seq(1..MaxLen) /\ last \in [op : Ops, code : -3..0]
  /\ want \in 0..MaxLen /\ base \in Bytes

TypeInv == Flags /\ Values /\ Transfer

LEMMA ZeroBuffer == buffer_init(0) \in BufferType(Bytes) /\ buffer_init(0).len = 0
                    /\ size(buffer_init(0)) = 0
<1>1. [i \in 1..0 |-> 0] \in Seq(Bytes) /\ Len([i \in 1..0 |-> 0]) = 0
  BY ConnAssumption DEF Bytes
<1> QED
  BY <1>1 DEF buffer_init, BufferType, size

LEMMA InitTypeInv == Init => TypeInv
<1>1. buffer_clear \in BufferType(Bytes) /\ buffer_clear.len <= size(buffer_clear)
  BY DEF buffer_clear, BufferType, size
<1>2. [op |-> "none", code |-> 0] \in [op : Ops, code : -3..0]
  BY DEF Ops
<1>3. NoBytes \in [1..MaxLen -> Bytes] /\ << >> \in Seq(1..MaxLen) /\ SndBuf \in 0..SndBuf /\ 0 \in Bytes
  BY ConnAssumption DEF NoBytes, Bytes
<1>4. Init => Values /\ Transfer
  BY <1>1, <1>2, <1>3, ConnAssumption DEF Init, Values, Transfer, Waits
<1>5. Init => Flags
  BY DEF Init, Flags
<1> QED
  BY <1>4, <1>5 DEF TypeInv

LEMMA FlagsNext == TypeInv /\ [Next]_vars => Flags'
<1> SUFFICES ASSUME Flags, [Next]_vars PROVE Flags'
  BY DEF TypeInv
<1> USE DEF Flags
<1>1. CASE Peer
  <2>1. UNCHANGED <<wset, eset>>
    BY <1>1 DEF Peer, select
  <2>2. fin' \in BOOLEAN /\ urgent' \in BOOLEAN
    BY <1>1 DEF Peer, PeerConnect, PeerSend, PeerClose, PeerReset, PeerUrgent, PeerDrain
  <2> QED
    BY <2>1, <2>2
<1>2. CASE Call
  <2>1. ASSUME NEW u \in {"vnc", "http"}, conn_open(u) PROVE Flags'
    BY <2>1, Zenon DEF conn_open, NewSocket, select
  <2>2. ASSUME NEW n \in 0..MaxLen, conn_read(n) \/ conn_write(n) PROVE Flags'
    BY <2>2, Zenon DEF conn_read, conn_write, kernel
  <2>3. CASE conn_read_all
    BY <2>3, Zenon DEF conn_read_all, kernel
  <2>4. CASE conn_close
    BY <2>4, Zenon DEF conn_close, select
  <2> QED
    BY <1>2, <2>1, <2>2, <2>3, <2>4 DEF Call
<1>3. CASE Step
  <2>1. CASE OpenSelect \/ ReadSome \/ ReadNone \/ AllSome \/ AllNone \/ WriteSome \/ WriteNone
    BY <2>1, Zenon DEF OpenSelect, ReadSome, ReadNone, AllSome, AllNone, WriteSome, WriteNone, select
  <2>2. CASE ReadSelect \/ AllSelect \/ WriteSelect
    BY <2>2, Zenon DEF ReadSelect, AllSelect, WriteSelect, kernel
  <2> QED
    BY <1>3, <2>1, <2>2 DEF Step
<1>4. CASE UNCHANGED vars
  BY <1>4, Zenon DEF vars, kernel, select
<1> QED
  BY <1>1, <1>2, <1>3, <1>4 DEF Next

LEMMA PeerTypeInv == TypeInv /\ Peer => (Values /\ Transfer)'
<1> SUFFICES ASSUME TypeInv, Peer PROVE (Values /\ Transfer)'
  OBVIOUS
<1> USE ConnAssumption DEF TypeInv, Values, Transfer, Bytes, Waits, Ops
<1>1. /\ arrived' \in Bytes /\ arrived' >= arrived
      /\ sk' \in {"none", "connecting", "refused", "up"}
      /\ rst' \in {"no", "pending", "seen"} /\ room' \in 0..SndBuf
  BY DEF Peer, PeerConnect, PeerSend, PeerClose, PeerReset, PeerUrgent, PeerDrain
<1>2. UNCHANGED <<consumed, user, pc, r, len, tv, mem, rbuf, out, last, want, base>>
  BY DEF Peer, PeerConnect, PeerSend, PeerClose, PeerReset, PeerUrgent, PeerDrain, select, ghost
<1> QED
  BY <1>1, <1>2

LEMMA CallTypeInv == TypeInv /\ Call => (Values /\ Transfer)'
<1> SUFFICES ASSUME TypeInv, Call PROVE (Values /\ Transfer)'
  OBVIOUS
<1> USE ConnAssumption
<1>1. ASSUME NEW u \in {"vnc", "http"}, conn_open(u) PROVE (Values /\ Transfer)'
  <2>1. rbuf' \in BufferType(Bytes) /\ rbuf'.len <= size(rbuf')
    BY <1>1, ZeroBuffer DEF conn_open
  <2>2. /\ sk' \in {"none", "up", "connecting"} /\ pc' \in {"idle", "open"}
        /\ \/ last' = last
           \/ last' = [op |-> "conn_open", code |-> -1]
           \/ last' = [op |-> "conn_open", code |-> 0]
    BY <1>1 DEF conn_open, FailRet, Return
  <2>3. last' \in [op : Ops, code : -3..0]
    BY <2>2 DEF Ops, TypeInv, Values
  <2>4. tv' \in {"none", "neg", "fin"}
    BY <1>1, Zenon DEF conn_open, TypeInv, Values, select
  <2>5. /\ user' = u /\ arrived' = 0 /\ consumed' = 0 /\ fin' = FALSE /\ rst' = "no"
        /\ urgent' = FALSE /\ room' = SndBuf
        /\ r' = 0 /\ len' = 0 /\ want' = 0 /\ base' = 0 /\ mem' = NoBytes /\ out' = << >>
    BY <1>1 DEF conn_open, NewSocket
  <2> QED
    BY <2>1, <2>2, <2>3, <2>4, <2>5 DEF TypeInv, Values, Transfer, NoBytes, Bytes, Waits
<1>2. ASSUME NEW n \in 0..MaxLen, conn_read(n) PROVE (Values /\ Transfer)'
  BY <1>2 DEF conn_read, Return, TypeInv, Values, Transfer, NoBytes, Bytes, Waits, Ops, kernel
<1>3. ASSUME NEW n \in 0..MaxLen, conn_write(n) PROVE (Values /\ Transfer)'
  BY <1>3 DEF conn_write, Return, TypeInv, Values, Transfer, Bytes, Waits, Ops, kernel
<1>4. CASE conn_read_all
  BY <1>4 DEF conn_read_all, TypeInv, Values, Transfer, Bytes, Waits, Ops, kernel, ghost
<1>5. CASE conn_close
  BY <1>5 DEF conn_close, Return, TypeInv, Values, Transfer, Bytes, Waits, Ops, select, ghost
<1> QED
  BY <1>1, <1>2, <1>3, <1>4, <1>5 DEF Call

LEMMA StepTypeInv == TypeInv /\ Step => (Values /\ Transfer)'
<1> SUFFICES ASSUME TypeInv, Step PROVE (Values /\ Transfer)'
  OBVIOUS
<1> USE ConnAssumption
<1>1. CASE OpenSelect
  BY <1>1 DEF OpenSelect, FailRet, Return, TypeInv, Values, Transfer, Bytes, Waits, Ops, select, ghost
<1>2. CASE ReadSelect
  <2>1. \/ pc' = "readable" /\ last' = last /\ eset' = FALSE
        \/ pc' = "idle" /\ last' = [op |-> "conn_read", code |-> -1] /\ eset' = eset
        \/ pc' = "idle" /\ last' = [op |-> "conn_read", code |-> -2] /\ eset' = eset
    BY <1>2 DEF ReadSelect, Return
  <2>2. pc = "read" /\ UNCHANGED <<kernel, user, r, len, tv, wset, mem, rbuf, out, ghost>>
    BY <1>2 DEF ReadSelect
  <2> QED
    BY <2>1, <2>2 DEF TypeInv, Values, Transfer, Bytes, Waits, Ops, kernel, ghost
<1>3. CASE ReadSome
  <2>1. PICK t \in 1..len :
          /\ t <= arrived - consumed
          /\ consumed' = consumed + t
          /\ mem' = [i \in 1..MaxLen |->
                       IF i \in (r + 1)..(r + t) THEN consumed + (i - r) ELSE mem[i]]
          /\ r' = r + t /\ len' = len - t
    BY <1>3 DEF ReadSome, Queued
  <2>2. mem' \in [1..MaxLen -> Bytes]
    BY <2>1 DEF TypeInv, Values, Bytes
  <2>3. r' \in 0..MaxLen /\ len' \in 0..MaxLen /\ r' + len' = want /\ consumed' <= arrived
        /\ consumed' \in Bytes
    BY <1>3, <2>1 DEF ReadSome, TypeInv, Values, Transfer, Bytes
  <2>4. /\ len' = 0 => pc' = "idle" /\ last' = [op |-> "conn_read", code |-> 0]
        /\ len' # 0 => pc' = "read" /\ last' = last
    BY <1>3 DEF ReadSome, Return
  <2>5. UNCHANGED <<sk, arrived, rst, room, user, tv, rbuf, out, want, base>>
    BY <1>3 DEF ReadSome, select, ghost
  <2>6. last' \in [op : Ops, code : -3..0] /\ pc' \in Waits
    BY <2>4 DEF TypeInv, Values, Waits, Ops
  <2>7. pc' \in {"read", "readable", "write", "writable"} => r' + len' = want' /\ len' > 0
    BY <2>3, <2>4, <2>5
  <2>8. Values'
    BY <2>2, <2>3, <2>5, <2>6 DEF TypeInv, Values
  <2>9. Transfer'
    BY <2>3, <2>5, <2>7 DEF TypeInv, Transfer
  <2> QED
    BY <2>8, <2>9
<1>4. CASE ReadNone
  BY <1>4 DEF ReadNone, Return, TypeInv, Values, Transfer, Bytes, Waits, Ops, select, ghost
<1>5. CASE AllSelect
  <2>1. \/ pc' = "allread" /\ last' = last /\ eset' = FALSE
        \/ pc' = "idle" /\ last' = [op |-> "conn_read_all", code |-> -1] /\ eset' = eset
    BY <1>5 DEF AllSelect, Return
  <2>2. pc = "all" /\ UNCHANGED <<kernel, user, r, len, tv, wset, mem, rbuf, out, ghost>>
    BY <1>5 DEF AllSelect
  <2> QED
    BY <2>1, <2>2 DEF TypeInv, Values, Transfer, Bytes, Waits, Ops, kernel, ghost
<1>6. CASE AllSome
  <2>1. PICK t \in 1..Chunk :
          /\ t <= arrived - consumed
          /\ consumed' = consumed + t
          /\ rbuf' = Deliver(buffer_append(rbuf, Chunk), t, consumed + 1)
    BY <1>6 DEF AllSome, Queued
  <2>2. /\ rbuf \in BufferType(Bytes) /\ rbuf.len <= size(rbuf) /\ 0 \in Bytes /\ rbuf.len \in Nat
    BY DEF TypeInv, Values, Transfer, Bytes, BufferType
  <2> DEFINE b == buffer_append(rbuf, Chunk)
  <2>3. b \in BufferType(Bytes) /\ b.len = rbuf.len /\ size(b) >= rbuf.len + Chunk
    BY <2>2, AppendType
  <2>4. b.len + t <= size(b) /\ size(b) \in Nat
    BY <2>2, <2>3 DEF BufferType, size
  <2>5. \A j \in 0..(t - 1) : (consumed + 1) + j \in Bytes
    BY <2>1 DEF TypeInv, Values, Bytes
  <2>6. t \in Nat /\ consumed + 1 \in Nat
    BY DEF TypeInv, Values, Bytes
  <2> HIDE DEF b
  <2>7. /\ Deliver(b, t, consumed + 1) \in BufferType(Bytes)
        /\ Deliver(b, t, consumed + 1).len = b.len + t
        /\ size(Deliver(b, t, consumed + 1)) = size(b)
    BY <2>3, <2>4, <2>5, <2>6, DeliverType
  <2>8. rbuf' \in BufferType(Bytes) /\ rbuf'.len <= size(rbuf')
    BY <2>1, <2>4, <2>7 DEF b
  <2>9. consumed' \in Bytes /\ consumed' <= arrived
    BY <2>1 DEF TypeInv, Values, Bytes
  <2> QED
    BY <1>6, <2>8, <2>9 DEF AllSome, TypeInv, Values, Transfer, select, ghost
<1>7. CASE AllNone
  <2>1. /\ rbuf \in BufferType(Bytes) /\ rbuf.len <= size(rbuf) /\ 0 \in Bytes /\ rbuf.len \in Nat
    BY DEF TypeInv, Values, Transfer, Bytes, BufferType
  <2> DEFINE b == buffer_append(rbuf, Chunk)
  <2>2. b \in BufferType(Bytes) /\ b.len = rbuf.len /\ size(b) >= rbuf.len + Chunk
    BY <2>1, AppendType
  <2>3. rbuf' = b
    BY <1>7 DEF AllNone
  <2> HIDE DEF b
  <2>4. rbuf' \in BufferType(Bytes) /\ rbuf'.len <= size(rbuf')
    BY <2>1, <2>2, <2>3 DEF BufferType, size
  <2> QED
    BY <1>7, <2>4 DEF AllNone, Return, TypeInv, Values, Transfer, Bytes, Waits, Ops, select, ghost
<1>8. CASE WriteSelect
  <2>1. \/ pc' = "writable" /\ last' = last /\ eset' = FALSE
        \/ pc' = "idle" /\ last' = [op |-> "conn_write", code |-> -1] /\ eset' = eset
    BY <1>8 DEF WriteSelect, Return
  <2>2. pc = "write" /\ UNCHANGED <<kernel, user, r, len, tv, wset, mem, rbuf, out, ghost>>
    BY <1>8 DEF WriteSelect
  <2> QED
    BY <2>1, <2>2 DEF TypeInv, Values, Transfer, Bytes, Waits, Ops, kernel, ghost
<1>9. CASE WriteSome
  <2>1. PICK t \in 1..len :
          /\ t <= room /\ room' = room - t
          /\ out' = out \o [j \in 1..t |-> r + j]
          /\ r' = r + t /\ len' = len - t
    BY <1>9 DEF WriteSome
  <2>2. r \in 0..MaxLen /\ len \in 0..MaxLen /\ r + len = want /\ want \in 0..MaxLen /\ room \in 0..SndBuf
    BY <1>9 DEF WriteSome, TypeInv, Values, Transfer
  <2>3. [j \in 1..t |-> r + j] \in Seq(1..MaxLen)
    BY <2>2
  <2>4. out' \in Seq(1..MaxLen)
    BY <2>1, <2>3 DEF TypeInv, Values
  <2>5. r' \in 0..MaxLen /\ len' \in 0..MaxLen /\ r' + len' = want /\ room' \in 0..SndBuf
    BY <2>1, <2>2
  <2>6. /\ len' = 0 => pc' = "idle" /\ last' = [op |-> "conn_write", code |-> 0]
        /\ len' # 0 => pc' = "write" /\ last' = last
    BY <1>9 DEF WriteSome, Return
  <2> QED
    BY <1>9, <2>4, <2>5, <2>6 DEF WriteSome, TypeInv, Values, Transfer, Bytes, Waits, Ops, select, ghost
<1>10. CASE WriteNone
  BY <1>10 DEF WriteNone, Return, TypeInv, Values, Transfer, Bytes, Waits, Ops, select, ghost
<1> QED
  BY <1>1, <1>2, <1>3, <1>4, <1>5, <1>6, <1>7, <1>8, <1>9, <1>10 DEF Step

(* conn.c keeps its cursors, its buffers and its results in their ranges   *)
(* for every stream and every request length.                              *)
THEOREM TypeCorrect == Spec => []TypeInv
<1>1. Init => TypeInv
  BY InitTypeInv
<1>2. TypeInv /\ [Next]_vars => TypeInv'
  <2>1. TypeInv /\ UNCHANGED vars => (Values /\ Transfer)'
    BY DEF TypeInv, Values, Transfer, vars, kernel, select, ghost
  <2> QED
    BY <2>1, FlagsNext, PeerTypeInv, CallTypeInv, StepTypeInv DEF Next, TypeInv
<1> QED
  BY <1>1, <1>2, PTL DEF Spec

(* The type invariant the runs check. *)
THEOREM ConnTypeOK == Spec => []TypeOK
<1>1. TypeInv => TypeOK
  BY DEF TypeInv, Flags, Values, TypeOK
<1> QED
  BY <1>1, TypeCorrect, PTL

-----------------------------------------------------------------------------
(* conn_read.  ReadProgress is inductive with the type invariant: at every *)
(* point of the loop the r bytes taken since the call are the next r bytes *)
(* of the stream and lie at the front of the caller's buffer.              *)

(* Only calls and the steps of conn_read matter to it. *)
LEMMA ReadProgressNext == TypeInv /\ ReadProgress /\ [Next]_vars => ReadProgress'
<1> SUFFICES ASSUME TypeInv, ReadProgress, [Next]_vars PROVE ReadProgress'
  OBVIOUS
<1> USE ConnAssumption
<1>1. CASE Peer
  <2>1. UNCHANGED <<consumed, pc, r, len, mem, last, want, base>>
    BY <1>1 DEF Peer, PeerConnect, PeerSend, PeerClose, PeerReset, PeerUrgent, PeerDrain, ghost
  <2> QED
    BY <2>1 DEF ReadProgress
<1>2. CASE Call
  <2>1. ASSUME NEW u \in {"vnc", "http"}, conn_open(u) PROVE ReadProgress'
    <3>1. /\ consumed' = 0 /\ r' = 0 /\ len' = 0 /\ want' = 0 /\ base' = 0 /\ mem' = NoBytes
      BY <2>1 DEF conn_open, NewSocket
    <3> QED
      BY <3>1 DEF ReadProgress, NoBytes
  <2>2. ASSUME NEW n \in 0..MaxLen, conn_read(n) PROVE ReadProgress'
    <3>1. /\ consumed' = consumed /\ r' = 0 /\ len' = n /\ want' = n /\ base' = consumed
          /\ mem' = NoBytes
      BY <2>2 DEF conn_read, kernel
    <3> QED
      BY <3>1 DEF ReadProgress, NoBytes, TypeInv, Values, Bytes
  <2>3. ASSUME NEW n \in 0..MaxLen, conn_write(n) PROVE ReadProgress'
    <3>1. pc' = "write" \/ (pc' = "idle" /\ last'.op = "conn_write")
      BY <2>3 DEF conn_write, Return
    <3> QED
      BY <3>1 DEF ReadProgress
  <2>4. CASE conn_read_all
    BY <2>4 DEF conn_read_all, ReadProgress
  <2>5. CASE conn_close
    <3>1. last'.op = "conn_close" /\ pc' = "idle"
      BY <2>5 DEF conn_close, Return
    <3> QED
      BY <3>1 DEF ReadProgress
  <2> QED
    BY <1>2, <2>1, <2>2, <2>3, <2>4, <2>5 DEF Call
<1>3. CASE Step
  <2>1. CASE OpenSelect
    <3>1. pc' = "idle" /\ last'.op = "conn_open"
      BY <2>1 DEF OpenSelect, FailRet, Return
    <3> QED
      BY <3>1 DEF ReadProgress
  <2>2. CASE ReadSelect
    <3>1. pc = "read" /\ UNCHANGED <<consumed, r, len, mem, want, base>>
      BY <2>2 DEF ReadSelect, kernel, ghost
    <3> QED
      BY <3>1 DEF ReadProgress
  <2>3. CASE ReadSome
    <3>1. PICK t \in 1..len :
            /\ consumed' = consumed + t
            /\ mem' = [i \in 1..MaxLen |->
                         IF i \in (r + 1)..(r + t) THEN consumed + (i - r) ELSE mem[i]]
            /\ r' = r + t /\ len' = len - t
      BY <2>3 DEF ReadSome
    <3>2. pc = "readable" /\ UNCHANGED <<want, base>>
      BY <2>3 DEF ReadSome, ghost
    <3>3. /\ r + len = want /\ consumed = base + r
          /\ \A i \in 1..MaxLen : mem[i] = IF i <= r THEN base + i ELSE 0
      BY <3>2 DEF ReadProgress
    <3>4. r \in Nat /\ len \in Nat /\ base \in Nat /\ consumed \in Nat /\ want \in Nat /\ t \in Nat
      BY DEF TypeInv, Values, Bytes
    <3>5. r' + len' = want' /\ consumed' = base' + r'
      BY <3>1, <3>2, <3>3, <3>4
    <3>6. \A i \in 1..MaxLen : mem'[i] = IF i <= r' THEN base' + i ELSE 0
      BY <3>1, <3>2, <3>3, <3>4
    <3> QED
      BY <3>5, <3>6 DEF ReadProgress
  <2>4. CASE ReadNone
    <3>1. pc = "readable" /\ UNCHANGED <<consumed, r, len, mem, want, base>>
      BY <2>4 DEF ReadNone, ghost
    <3> QED
      BY <3>1 DEF ReadProgress
  <2>5. CASE AllSelect
    <3>1. pc' = "allread" \/ (pc' = "idle" /\ last'.op = "conn_read_all")
      BY <2>5 DEF AllSelect, Return
    <3> QED
      BY <3>1 DEF ReadProgress
  <2>6. CASE AllSome
    BY <2>6 DEF AllSome, ReadProgress
  <2>7. CASE AllNone
    <3>1. pc' = "all" \/ (pc' = "idle" /\ last'.op = "conn_read_all")
      BY <2>7 DEF AllNone, Return
    <3> QED
      BY <3>1 DEF ReadProgress
  <2>8. CASE WriteSelect
    <3>1. pc' = "writable" \/ (pc' = "idle" /\ last'.op = "conn_write")
      BY <2>8 DEF WriteSelect, Return
    <3> QED
      BY <3>1 DEF ReadProgress
  <2>9. CASE WriteSome
    <3>1. pc' = "write" \/ (pc' = "idle" /\ last'.op = "conn_write")
      BY <2>9 DEF WriteSome, Return
    <3> QED
      BY <3>1 DEF ReadProgress
  <2>10. CASE WriteNone
    <3>1. pc' = "write" \/ (pc' = "idle" /\ last'.op = "conn_write")
      BY <2>10 DEF WriteNone, Return
    <3> QED
      BY <3>1 DEF ReadProgress
  <2> QED
    BY <1>3, <2>1, <2>2, <2>3, <2>4, <2>5, <2>6, <2>7, <2>8, <2>9, <2>10 DEF Step
<1>4. CASE UNCHANGED vars
  BY <1>4 DEF vars, kernel, ghost, ReadProgress
<1> QED
  BY <1>1, <1>2, <1>3, <1>4 DEF Next

(* The bytes of a failed conn_read are taken off the stream, and lie at    *)
(* the front of the caller's buffer: whatever the fragmentation, for every *)
(* length.                                                                 *)
THEOREM ConnReadProgress == Spec => []ReadProgress
<1>1. Init => ReadProgress
  BY DEF Init, ReadProgress
<1> QED
  BY <1>1, ReadProgressNext, TypeCorrect, PTL DEF Spec

-----------------------------------------------------------------------------
(* How a conn_read ends: with 0 and nothing left to transfer, or with an   *)
(* error and something left; a one-byte read waits without a timeout and   *)
(* so cannot report one.                                                   *)

ReadEnds ==
  /\ pc \in {"read", "readable"} => (want = 1 => tv = "none")
  /\ (pc = "idle" /\ last.op = "conn_read") =>
       /\ last.code = 0 <=> len = 0
       /\ want = 1 => last.code # -2

LEMMA ReadEndsNext == TypeInv /\ ReadEnds /\ [Next]_vars => ReadEnds'
<1> SUFFICES ASSUME TypeInv, ReadEnds, [Next]_vars PROVE ReadEnds'
  OBVIOUS
<1> USE ConnAssumption
<1>1. CASE Peer
  <2>1. UNCHANGED <<pc, len, last, tv, want>>
    BY <1>1 DEF Peer, ghost, select
  <2> QED
    BY <2>1 DEF ReadEnds
<1>2. CASE Call
  <2>1. ASSUME NEW u \in {"vnc", "http"}, conn_open(u) PROVE ReadEnds'
    <3>1. \/ pc' = "open"
          \/ pc' = "idle" /\ last'.op = "conn_open"
      BY <2>1 DEF conn_open, FailRet, Return
    <3> QED
      BY <3>1 DEF ReadEnds
  <2>2. ASSUME NEW n \in 0..MaxLen, conn_read(n) PROVE ReadEnds'
    <3>1. /\ len' = n /\ want' = n /\ (n = 1 => tv' = "none")
          /\ n = 0 => pc' = "idle" /\ last' = [op |-> "conn_read", code |-> 0]
          /\ n # 0 => pc' = "read"
      BY <2>2 DEF conn_read, Return
    <3> QED
      BY <3>1 DEF ReadEnds
  <2>3. ASSUME NEW n \in 0..MaxLen, conn_write(n) PROVE ReadEnds'
    <3>1. pc' = "write" \/ (pc' = "idle" /\ last'.op = "conn_write")
      BY <2>3 DEF conn_write, Return
    <3> QED
      BY <3>1 DEF ReadEnds
  <2>4. CASE conn_read_all
    BY <2>4 DEF conn_read_all, ReadEnds
  <2>5. CASE conn_close
    <3>1. last'.op = "conn_close" /\ pc' = "idle"
      BY <2>5 DEF conn_close, Return
    <3> QED
      BY <3>1 DEF ReadEnds
  <2> QED
    BY <1>2, <2>1, <2>2, <2>3, <2>4, <2>5 DEF Call
<1>3. CASE Step
  <2>1. CASE OpenSelect
    <3>1. pc' = "idle" /\ last'.op = "conn_open"
      BY <2>1 DEF OpenSelect, FailRet, Return
    <3> QED
      BY <3>1 DEF ReadEnds
  <2>2. CASE ReadSelect
    <3>1. pc = "read" /\ UNCHANGED <<len, tv, want>>
      BY <2>2 DEF ReadSelect, ghost
    <3>2. \/ pc' = "readable"
          \/ pc' = "idle" /\ last' = [op |-> "conn_read", code |-> -1]
          \/ tv = "fin" /\ pc' = "idle" /\ last' = [op |-> "conn_read", code |-> -2]
      BY <2>2 DEF ReadSelect, Return
    <3>3. len > 0 /\ len \in Nat /\ (want = 1 => tv = "none")
      BY <3>1 DEF TypeInv, Values, Transfer, ReadEnds
    <3> QED
      BY <3>1, <3>2, <3>3 DEF ReadEnds
  <2>3. CASE ReadSome
    <3>1. pc = "readable" /\ UNCHANGED <<tv, want>>
      BY <2>3 DEF ReadSome, select, ghost
    <3>2. /\ len' = 0 => pc' = "idle" /\ last' = [op |-> "conn_read", code |-> 0]
          /\ len' # 0 => pc' = "read"
      BY <2>3 DEF ReadSome, Return
    <3> QED
      BY <3>1, <3>2 DEF ReadEnds
  <2>4. CASE ReadNone
    <3>1. pc = "readable" /\ UNCHANGED <<len, tv, want>>
      BY <2>4 DEF ReadNone, select, ghost
    <3>2. pc' = "read" \/ (pc' = "idle" /\ last' = [op |-> "conn_read", code |-> -3])
      BY <2>4 DEF ReadNone, Return
    <3>3. len > 0 /\ len \in Nat
      BY <3>1 DEF TypeInv, Values, Transfer
    <3> QED
      BY <3>1, <3>2, <3>3 DEF ReadEnds
  <2>5. CASE AllSelect \/ AllSome \/ AllNone
    <3>1. pc' \in {"all", "allread"} \/ (pc' = "idle" /\ last'.op = "conn_read_all")
      BY <2>5 DEF AllSelect, AllSome, AllNone, Return
    <3> QED
      BY <3>1 DEF ReadEnds
  <2>6. CASE WriteSelect \/ WriteSome \/ WriteNone
    <3>1. pc' \in {"write", "writable"} \/ (pc' = "idle" /\ last'.op = "conn_write")
      BY <2>6 DEF WriteSelect, WriteSome, WriteNone, Return
    <3> QED
      BY <3>1 DEF ReadEnds
  <2> QED
    BY <1>3, <2>1, <2>2, <2>3, <2>4, <2>5, <2>6 DEF Step
<1>4. CASE UNCHANGED vars
  BY <1>4 DEF vars, select, ghost, ReadEnds
<1> QED
  BY <1>1, <1>2, <1>3, <1>4 DEF Next

(* conn_read returns 0 exactly if it took len bytes, those bytes are in    *)
(* the caller's buffer in order, and a one-byte read never times out.      *)
THEOREM ConnReadOutcome == Spec => []ReadOutcome
<1>1. Init => ReadEnds
  BY DEF Init, ReadEnds
<1>2. TypeInv /\ ReadProgress /\ ReadEnds => ReadOutcome
  <2> SUFFICES ASSUME TypeInv, ReadProgress, ReadEnds, pc = "idle", last.op = "conn_read"
               PROVE  /\ last.code = 0 <=> consumed = base + want
                      /\ last.code = 0 => \A i \in 1..want : mem[i] = base + i
                      /\ want = 1 => last.code # -2
    BY DEF ReadOutcome
  <2>1. /\ r + len = want /\ consumed = base + r
        /\ \A i \in 1..MaxLen : mem[i] = IF i <= r THEN base + i ELSE 0
    BY DEF ReadProgress
  <2>2. (last.code = 0 <=> len = 0) /\ (want = 1 => last.code # -2)
    BY DEF ReadEnds
  <2>3. r \in Nat /\ len \in Nat /\ base \in Nat /\ want \in 0..MaxLen /\ MaxLen \in Nat
    BY ConnAssumption DEF TypeInv, Values, Bytes
  <2>4. consumed = base + want <=> len = 0
    BY <2>1, <2>3
  <2>5. len = 0 => \A i \in 1..want : mem[i] = base + i
    BY <2>1, <2>3
  <2> QED
    BY <2>2, <2>4, <2>5
<1>3. Spec => []ReadEnds
  BY <1>1, ReadEndsNext, TypeCorrect, PTL DEF Spec
<1> QED
  BY <1>2, <1>3, TypeCorrect, ConnReadProgress, PTL

-----------------------------------------------------------------------------
(* conn_read implements StreamReader.  The session's socket is never       *)
(* closed by the session, so its position in the stream never restarts:    *)
(* before the connection is up nothing has been read.                      *)

Owner ==
  /\ pc \in {"read", "readable"} => user = "vnc" /\ sk = "up"
  /\ pc \in {"all", "allread"} => user = "http"
  /\ pc = "open" => consumed = 0
  /\ user = "vnc" /\ sk # "up" => consumed = 0

LEMMA OwnerNext == Owner /\ [Next]_vars => Owner'
<1> SUFFICES ASSUME Owner, [Next]_vars PROVE Owner'
  OBVIOUS
<1>1. CASE Peer
  <2>1. UNCHANGED <<pc, user, consumed>> /\ (sk = "up" => sk' = "up") /\ (sk' # "up" => sk # "up")
    BY <1>1 DEF Peer, PeerConnect, PeerSend, PeerClose, PeerReset, PeerUrgent, PeerDrain
  <2> QED
    BY <2>1 DEF Owner
<1>2. CASE Call
  <2>1. ASSUME NEW u \in {"vnc", "http"}, conn_open(u) PROVE Owner'
    <3>1. consumed' = 0 /\ pc' \in {"idle", "open"}
      BY <2>1 DEF conn_open, NewSocket, FailRet, Return
    <3> QED
      BY <3>1 DEF Owner
  <2>2. ASSUME NEW n \in 0..MaxLen, conn_read(n) PROVE Owner'
    BY <2>2 DEF conn_read, Return, Owner, kernel
  <2>3. ASSUME NEW n \in 0..MaxLen, conn_write(n) PROVE Owner'
    BY <2>3 DEF conn_write, Return, Owner, kernel
  <2>4. CASE conn_read_all
    BY <2>4 DEF conn_read_all, Owner, kernel
  <2>5. CASE conn_close
    BY <2>5 DEF conn_close, Return, Owner
  <2> QED
    BY <1>2, <2>1, <2>2, <2>3, <2>4, <2>5 DEF Call
<1>3. CASE Step
  <2>1. CASE OpenSelect
    <3>1. pc = "open" /\ pc' = "idle" /\ consumed' = consumed
      BY <2>1 DEF OpenSelect, FailRet, Return
    <3> QED
      BY <3>1 DEF Owner
  <2>2. CASE ReadSelect \/ ReadSome \/ ReadNone
    <3>1. pc \in {"read", "readable"} /\ pc' \in {"read", "readable", "idle"} /\ UNCHANGED <<user, sk>>
      BY <2>2 DEF ReadSelect, ReadSome, ReadNone, Return, kernel
    <3> QED
      BY <3>1 DEF Owner
  <2>3. CASE AllSelect \/ AllSome \/ AllNone
    <3>1. pc \in {"all", "allread"} /\ pc' \in {"all", "allread", "idle"} /\ UNCHANGED <<user, sk>>
      BY <2>3 DEF AllSelect, AllSome, AllNone, Return, kernel
    <3> QED
      BY <3>1 DEF Owner
  <2>4. CASE WriteSelect \/ WriteSome \/ WriteNone
    <3>1. pc' \in {"write", "writable", "idle"} /\ UNCHANGED <<user, sk, consumed>>
      BY <2>4 DEF WriteSelect, WriteSome, WriteNone, Return, kernel
    <3> QED
      BY <3>1 DEF Owner
  <2> QED
    BY <1>3, <2>1, <2>2, <2>3, <2>4 DEF Step
<1>4. CASE UNCHANGED vars
  BY <1>4 DEF vars, kernel, Owner
<1> QED
  BY <1>1, <1>2, <1>3, <1>4 DEF Next

ReaderInv == TypeInv /\ ReadProgress /\ Owner

(* A step that touches none of the variables of the mapping. *)
LEMMA ReaderFrame ==
  UNCHANGED <<user, consumed, pc, last, base, want>> => UNCHANGED Reader!vars
  BY DEF Reader!vars, Reading, HasRead

(* A conn_read that gives up maps to Fail. *)
LEMMA ReaderFail ==
  ASSUME ReaderInv, pc \in {"read", "readable"}, pc' = "idle",
         last'.op = "conn_read", last'.code # 0,
         UNCHANGED <<user, consumed, base, want>>
  PROVE  Reader!Fail
<1>1. user = "vnc" /\ consumed = base + r /\ r + len = want /\ len > 0
      /\ r \in Nat /\ len \in Nat /\ base \in Nat /\ want \in Nat
  BY ConnAssumption DEF ReaderInv, Owner, ReadProgress, TypeInv, Values, Transfer, Bytes
<1>2. consumed < base + want
  BY <1>1
<1>3. Reading /\ ~HasRead /\ ~Reading' /\ HasRead'
  BY <1>1 DEF Reading, HasRead
<1> QED
  BY <1>1, <1>2, <1>3 DEF Reader!Fail

LEMMA ReaderNext == ReaderInv /\ [Next]_vars => [Reader!Next]_(Reader!vars)
<1> SUFFICES ASSUME ReaderInv, [Next]_vars
             PROVE  Reader!Next \/ UNCHANGED Reader!vars
  OBVIOUS
<1>1. CASE Peer
  <2>1. UNCHANGED <<user, consumed, pc, last, base, want>>
    BY <1>1 DEF Peer, PeerConnect, PeerSend, PeerClose, PeerReset, PeerUrgent, PeerDrain, ghost
  <2> QED
    BY <2>1, ReaderFrame
<1>2. CASE Call
  <2>1. ASSUME NEW u \in {"vnc", "http"}, conn_open(u) PROVE Reader!Forget
    <3>1. pc = "idle" /\ sk = "none" /\ user' = u /\ consumed' = 0
      BY <2>1 DEF conn_open, NewSocket
    <3>2. pc' = "open" \/ (pc' = "idle" /\ last'.op = "conn_open")
      BY <2>1 DEF conn_open, FailRet, Return
    <3>3. user = "vnc" => consumed = 0
      BY <3>1 DEF ReaderInv, Owner
    <3>4. ~Reading /\ ~Reading' /\ ~HasRead'
      BY <3>1, <3>2 DEF Reading, HasRead
    <3> QED
      BY <3>1, <3>3, <3>4 DEF Reader!Forget
  <2>2. ASSUME NEW n \in 0..MaxLen, conn_read(n) PROVE Reader!Start
    <3>1. /\ pc = "idle" /\ user = "vnc" /\ user' = user /\ want' = n /\ base' = consumed
          /\ consumed' = consumed
          /\ n = 0 => pc' = "idle" /\ last' = [op |-> "conn_read", code |-> 0]
          /\ n # 0 => pc' = "read"
      BY <2>2 DEF conn_read, Return, kernel
    <3>2. consumed \in Nat /\ n \in Nat
      BY ConnAssumption DEF ReaderInv, TypeInv, Values, Bytes
    <3>3. CASE n = 0
      <4>1. ~Reading /\ ~Reading' /\ HasRead' /\ last'.code = 0
        BY <3>1, <3>3 DEF Reading, HasRead
      <4> QED
        BY <3>1, <3>2, <3>3, <4>1 DEF Reader!Start
    <3>4. CASE n # 0
      <4>1. ~Reading /\ Reading' /\ ~HasRead'
        BY <3>1, <3>4 DEF Reading, HasRead
      <4> QED
        BY <3>1, <3>2, <3>4, <4>1 DEF Reader!Start
    <3> QED
      BY <3>3, <3>4
  <2>3. ASSUME NEW n \in 0..MaxLen, conn_write(n) PROVE Reader!Forget
    <3>1. pc = "idle" /\ UNCHANGED <<user, consumed>>
      BY <2>3 DEF conn_write, kernel
    <3>2. pc' = "write" \/ (pc' = "idle" /\ last'.op = "conn_write")
      BY <2>3 DEF conn_write, Return
    <3>3. ~Reading /\ ~Reading' /\ ~HasRead'
      BY <3>1, <3>2 DEF Reading, HasRead
    <3> QED
      BY <3>1, <3>3 DEF Reader!Forget
  <2>4. CASE conn_read_all \/ conn_close
    <3>1. user = "http" /\ user' = "http"
      BY <2>4 DEF conn_read_all, conn_close
    <3> QED
      BY <3>1 DEF Reader!vars, Reading, HasRead
  <2> QED
    BY <1>2, <2>1, <2>2, <2>3, <2>4 DEF Call, Reader!Next
<1>3. CASE Step
  <2>1. CASE OpenSelect
    <3>1. pc = "open" /\ pc' = "idle" /\ last'.op = "conn_open" /\ UNCHANGED <<user, consumed>>
      BY <2>1 DEF OpenSelect, FailRet, Return
    <3> QED
      BY <3>1 DEF Reader!vars, Reading, HasRead
  <2>2. CASE ReadSelect \/ ReadNone
    <3>1. pc \in {"read", "readable"} /\ UNCHANGED <<user, consumed, base, want>>
      BY <2>2 DEF ReadSelect, ReadNone, kernel, ghost
    <3>2. \/ pc' \in {"read", "readable"}
          \/ pc' = "idle" /\ last' \in {[op |-> "conn_read", code |-> c] : c \in {-1, -2, -3}}
      BY <2>2 DEF ReadSelect, ReadNone, Return
    <3>3. CASE pc' \in {"read", "readable"}
      BY <3>1, <3>3 DEF Reader!vars, Reading, HasRead
    <3>4. CASE pc' = "idle" /\ last' \in {[op |-> "conn_read", code |-> c] : c \in {-1, -2, -3}}
      BY <3>1, <3>4, ReaderFail DEF Reader!Next
    <3> QED
      BY <3>2, <3>3, <3>4
  <2>3. CASE ReadSome
    <3>1. PICK t \in 1..len : consumed' = consumed + t /\ len' = len - t
      BY <2>3 DEF ReadSome
    <3>2. pc = "readable" /\ UNCHANGED <<user, base, want>>
      BY <2>3 DEF ReadSome, ghost
    <3>3. /\ len' = 0 => pc' = "idle" /\ last' = [op |-> "conn_read", code |-> 0]
          /\ len' # 0 => pc' = "read"
      BY <2>3 DEF ReadSome, Return
    <3>4. user = "vnc" /\ consumed = base + r /\ r + len = want
          /\ r \in Nat /\ len \in Nat /\ base \in Nat /\ want \in Nat /\ t \in Nat
      BY <3>2, ConnAssumption DEF ReaderInv, Owner, ReadProgress, TypeInv, Values, Bytes
    <3>5. consumed' \in (consumed + 1)..(base + want) /\ (consumed' < base + want <=> len' # 0)
      BY <3>1, <3>4
    <3>6. CASE len' = 0
      <4>1. Reading /\ ~Reading' /\ HasRead' /\ last'.code = 0
        BY <3>2, <3>3, <3>4, <3>6 DEF Reading, HasRead
      <4> QED
        BY <3>2, <3>4, <3>5, <3>6, <4>1 DEF Reader!Advance, Reader!Next
    <3>7. CASE len' # 0
      <4>1. Reading /\ Reading' /\ ~HasRead'
        BY <3>2, <3>3, <3>4, <3>7 DEF Reading, HasRead
      <4> QED
        BY <3>2, <3>4, <3>5, <3>7, <4>1 DEF Reader!Advance, Reader!Next
    <3> QED
      BY <3>6, <3>7
  <2>4. CASE AllSelect \/ AllSome \/ AllNone
    <3>1. user = "http" /\ user' = "http"
      BY <2>4 DEF AllSelect, AllSome, AllNone, ReaderInv, Owner
    <3> QED
      BY <3>1 DEF Reader!vars, Reading, HasRead
  <2>5. CASE WriteSelect \/ WriteSome \/ WriteNone
    <3>1. pc \in {"write", "writable"} /\ UNCHANGED <<user, consumed>>
      BY <2>5 DEF WriteSelect, WriteSome, WriteNone, kernel
    <3>2. pc' \in {"write", "writable"} \/ (pc' = "idle" /\ last'.op = "conn_write")
      BY <2>5 DEF WriteSelect, WriteSome, WriteNone, Return
    <3> QED
      BY <3>1, <3>2 DEF Reader!vars, Reading, HasRead
  <2> QED
    BY <1>3, <2>1, <2>2, <2>3, <2>4, <2>5 DEF Step
<1>4. CASE UNCHANGED vars
  <2>1. UNCHANGED <<user, consumed, pc, last, base, want>>
    BY <1>4 DEF vars, kernel, ghost
  <2> QED
    BY <2>1, ReaderFrame
<1> QED
  BY <1>1, <1>2, <1>3, <1>4 DEF Next

(* Seen from its caller, conn_read is StreamReader: it moves the position  *)
(* forward only, by no more than it was asked for, and reports success     *)
(* exactly when it reached the goal.                                       *)
THEOREM ConnImplementsReader == Spec => ImplementsReader
<1>1. Init => Reader!Init
  BY DEF Init, Reader!Init, Reading, HasRead
<1>2. Init => Owner
  BY DEF Init, Owner
<1>3. Spec => []Owner
  BY <1>2, OwnerNext, PTL DEF Spec
<1>4. ReaderInv <=> TypeInv /\ ReadProgress /\ Owner
  BY DEF ReaderInv
<1>5. Spec => []ReaderInv
  BY <1>3, <1>4, TypeCorrect, ConnReadProgress, PTL
<1>6. Spec => Reader!Spec
  BY <1>1, <1>5, ReaderNext, PTL DEF Spec, Reader!Spec
<1> QED
  BY <1>6 DEF ImplementsReader
-----------------------------------------------------------------------------
(* conn_open.  A socket that is still connecting exists only inside        *)
(* conn_open, so nothing the peer does later can change what it returned.  *)

OpenInv == OpenOutcome /\ (pc # "open" => sk \in {"none", "up"})

LEMMA OpenInvNext == OpenInv /\ [Next]_vars => OpenInv'
<1> SUFFICES ASSUME OpenInv, [Next]_vars PROVE OpenInv'
  OBVIOUS
<1>1. CASE Peer
  <2>1. UNCHANGED <<pc, last>> /\ (sk \in {"none", "up"} => sk' = sk)
    BY <1>1 DEF Peer, PeerConnect, PeerSend, PeerClose, PeerReset, PeerUrgent, PeerDrain
  <2> QED
    BY <2>1 DEF OpenInv, OpenOutcome
<1>2. CASE Call
  <2>1. ASSUME NEW u \in {"vnc", "http"}, conn_open(u) PROVE OpenInv'
    <3>1. \/ pc' = "open"
          \/ sk' = "none" /\ last' = [op |-> "conn_open", code |-> -1]
          \/ sk' = "up" /\ last' = [op |-> "conn_open", code |-> 0]
      BY <2>1 DEF conn_open, FailRet, Return
    <3> QED
      BY <3>1 DEF OpenInv, OpenOutcome
  <2>2. ASSUME NEW n \in 0..MaxLen, conn_read(n) \/ conn_write(n) PROVE OpenInv'
    <3>1. sk = "up" /\ sk' = sk
      BY <2>2 DEF conn_read, conn_write, kernel
    <3>2. pc' \in {"read", "write"} \/ (pc' = "idle" /\ last'.op \in {"conn_read", "conn_write"})
      BY <2>2 DEF conn_read, conn_write, Return
    <3> QED
      BY <3>1, <3>2 DEF OpenInv, OpenOutcome
  <2>3. CASE conn_read_all
    BY <2>3 DEF conn_read_all, kernel, OpenInv, OpenOutcome
  <2>4. CASE conn_close
    BY <2>4 DEF conn_close, Return, OpenInv, OpenOutcome
  <2> QED
    BY <1>2, <2>1, <2>2, <2>3, <2>4 DEF Call
<1>3. CASE Step
  <2>1. CASE OpenSelect
    <3>1. \/ sk' = "none" /\ last' = [op |-> "conn_open", code |-> -1]
          \/ sk' = "up" /\ last' = [op |-> "conn_open", code |-> 0]
      BY <2>1 DEF OpenSelect, FailRet, Return
    <3> QED
      BY <3>1 DEF OpenInv, OpenOutcome
  <2>2. CASE ReadSelect \/ ReadSome \/ ReadNone
    <3>1. pc # "open" /\ sk' = sk
      BY <2>2 DEF ReadSelect, ReadSome, ReadNone, kernel
    <3>2. pc' \in {"read", "readable"} \/ (pc' = "idle" /\ last'.op = "conn_read")
      BY <2>2 DEF ReadSelect, ReadSome, ReadNone, Return
    <3> QED
      BY <3>1, <3>2 DEF OpenInv, OpenOutcome
  <2>3. CASE AllSelect \/ AllSome \/ AllNone
    <3>1. pc # "open" /\ sk' = sk
      BY <2>3 DEF AllSelect, AllSome, AllNone, kernel
    <3>2. pc' \in {"all", "allread"} \/ (pc' = "idle" /\ last'.op = "conn_read_all")
      BY <2>3 DEF AllSelect, AllSome, AllNone, Return
    <3> QED
      BY <3>1, <3>2 DEF OpenInv, OpenOutcome
  <2>4. CASE WriteSelect \/ WriteSome \/ WriteNone
    <3>1. pc # "open" /\ sk' = sk
      BY <2>4 DEF WriteSelect, WriteSome, WriteNone, kernel
    <3>2. pc' \in {"write", "writable"} \/ (pc' = "idle" /\ last'.op = "conn_write")
      BY <2>4 DEF WriteSelect, WriteSome, WriteNone, Return
    <3> QED
      BY <3>1, <3>2 DEF OpenInv, OpenOutcome
  <2> QED
    BY <1>3, <2>1, <2>2, <2>3, <2>4 DEF Step
<1>4. CASE UNCHANGED vars
  BY <1>4 DEF vars, kernel, OpenInv, OpenOutcome
<1> QED
  BY <1>1, <1>2, <1>3, <1>4 DEF Next

(* conn_open returns 0 exactly if the connection is up; on every other way *)
(* out, whatever select's indeterminate arguments were, it closed the      *)
(* socket.                                                                 *)
THEOREM ConnOpenOutcome == Spec => []OpenOutcome
<1>1. Init => OpenInv
  BY DEF Init, OpenInv, OpenOutcome
<1>2. OpenInv => OpenOutcome
  BY DEF OpenInv
<1> QED
  BY <1>1, <1>2, OpenInvNext, PTL DEF Spec

-----------------------------------------------------------------------------
(* conn_write.  While it runs, the wire holds as many bytes as the cursor  *)
(* r says: the next write() starts where the last one stopped.             *)

WriteInv == WriteOutcome /\ (pc \in {"write", "writable"} => Len(out) = r)

(* The t bytes write() took follow those already on the wire. *)
LEMMA WireStep ==
  ASSUME NEW m \in Nat, NEW s \in Seq(1..m), NEW t \in Nat, Len(s) + t <= m,
         \A i \in 1..Len(s) : s[i] = i
  PROVE  /\ Len(s \o [j \in 1..t |-> Len(s) + j]) = Len(s) + t
         /\ \A i \in 1..(Len(s) + t) : (s \o [j \in 1..t |-> Len(s) + j])[i] = i
<1> DEFINE w == [j \in 1..t |-> Len(s) + j]
<1>1. \A j \in 1..t : Len(s) + j \in 1..m
  OBVIOUS
<1>2. w \in Seq(1..m) /\ Len(w) = t /\ \A j \in 1..t : w[j] = Len(s) + j
  BY <1>1
<1> HIDE DEF w
<1>3. /\ Len(s \o w) = Len(s) + Len(w)
      /\ \A i \in 1..(Len(s) + Len(w)) : (s \o w)[i] = IF i <= Len(s) THEN s[i] ELSE w[i - Len(s)]
  BY <1>2, ConcatProperties
<1>4. ASSUME NEW i \in 1..(Len(s) + t) PROVE (s \o w)[i] = i
  <2>1. CASE i <= Len(s)
    BY <1>2, <1>3, <2>1
  <2>2. CASE ~(i <= Len(s))
    <3>1. i - Len(s) \in 1..t
      BY <2>2
    <3> QED
      BY <1>2, <1>3, <2>2, <3>1
  <2> QED
    BY <2>1, <2>2
<1> QED
  BY <1>2, <1>3, <1>4 DEF w

LEMMA WriteInvNext == TypeInv /\ WriteInv /\ [Next]_vars => WriteInv'
<1> SUFFICES ASSUME TypeInv, WriteInv, [Next]_vars PROVE WriteInv'
  OBVIOUS
<1> USE ConnAssumption
<1>1. CASE Peer
  <2>1. UNCHANGED <<pc, r, last, want, out>>
    BY <1>1 DEF Peer, ghost
  <2> QED
    BY <2>1 DEF WriteInv, WriteOutcome
<1>2. CASE Call
  <2>1. ASSUME NEW u \in {"vnc", "http"}, conn_open(u) PROVE WriteInv'
    <3>1. out' = << >> /\ (pc' = "open" \/ (pc' = "idle" /\ last'.op = "conn_open"))
      BY <2>1 DEF conn_open, FailRet, Return
    <3> QED
      BY <3>1 DEF WriteInv, WriteOutcome
  <2>2. ASSUME NEW n \in 0..MaxLen, conn_write(n) PROVE WriteInv'
    <3>1. /\ out' = << >> /\ r' = 0 /\ want' = n
          /\ n = 0 => pc' = "idle" /\ last' = [op |-> "conn_write", code |-> 0]
          /\ n # 0 => pc' = "write"
      BY <2>2 DEF conn_write, Return
    <3> QED
      BY <3>1 DEF WriteInv, WriteOutcome
  <2>3. ASSUME NEW n \in 0..MaxLen, conn_read(n) PROVE WriteInv'
    <3>1. out' = out /\ (pc' = "read" \/ (pc' = "idle" /\ last'.op = "conn_read"))
      BY <2>3 DEF conn_read, Return
    <3> QED
      BY <3>1 DEF WriteInv, WriteOutcome
  <2>4. CASE conn_read_all
    BY <2>4 DEF conn_read_all, WriteInv, WriteOutcome
  <2>5. CASE conn_close
    BY <2>5 DEF conn_close, Return, WriteInv, WriteOutcome
  <2> QED
    BY <1>2, <2>1, <2>2, <2>3, <2>4, <2>5 DEF Call
<1>3. CASE Step
  <2>1. CASE OpenSelect
    BY <2>1 DEF OpenSelect, FailRet, Return, WriteInv, WriteOutcome
  <2>2. CASE ReadSelect \/ ReadSome \/ ReadNone
    <3>1. out' = out
      BY <2>2 DEF ReadSelect, ReadSome, ReadNone
    <3>2. pc' \in {"read", "readable"} \/ (pc' = "idle" /\ last'.op = "conn_read")
      BY <2>2 DEF ReadSelect, ReadSome, ReadNone, Return
    <3> QED
      BY <3>1, <3>2 DEF WriteInv, WriteOutcome
  <2>3. CASE AllSelect \/ AllSome \/ AllNone
    <3>1. out' = out
      BY <2>3 DEF AllSelect, AllSome, AllNone
    <3>2. pc' \in {"all", "allread"} \/ (pc' = "idle" /\ last'.op = "conn_read_all")
      BY <2>3 DEF AllSelect, AllSome, AllNone, Return
    <3> QED
      BY <3>1, <3>2 DEF WriteInv, WriteOutcome
  <2>4. CASE WriteSelect \/ WriteNone
    <3>1. /\ pc \in {"write", "writable"} /\ UNCHANGED <<out, r, want>>
          /\ \/ pc' \in {"write", "writable"}
             \/ pc' = "idle" /\ last' = [op |-> "conn_write", code |-> -1]
      BY <2>4 DEF WriteSelect, WriteNone, Return, ghost
    <3>2. Len(out) = r /\ r + len = want /\ len > 0 /\ r \in Nat /\ len \in Nat
      BY <3>1 DEF WriteInv, TypeInv, Values, Transfer
    <3> QED
      BY <3>1, <3>2 DEF WriteInv, WriteOutcome
  <2>5. CASE WriteSome
    <3>1. PICK t \in 1..len : out' = out \o [j \in 1..t |-> r + j] /\ r' = r + t /\ len' = len - t
      BY <2>5 DEF WriteSome
    <3>2. /\ pc = "writable" /\ want' = want
          /\ len' = 0 => pc' = "idle" /\ last' = [op |-> "conn_write", code |-> 0]
          /\ len' # 0 => pc' = "write"
      BY <2>5 DEF WriteSome, Return, ghost
    <3>3. /\ Len(out) = r /\ r + len = want /\ \A i \in 1..Len(out) : out[i] = i
          /\ r \in Nat /\ len \in Nat /\ t \in Nat /\ want \in 0..MaxLen /\ out \in Seq(1..MaxLen)
      BY <3>2 DEF WriteInv, WriteOutcome, TypeInv, Values, Transfer
    <3>4. Len(out) + t <= MaxLen /\ MaxLen \in Nat
      BY <3>3
    <3>5. out' = out \o [j \in 1..t |-> Len(out) + j]
      BY <3>1, <3>3
    <3>6. Len(out') = Len(out) + t /\ \A i \in 1..(Len(out) + t) : out'[i] = i
      <4>1. /\ Len(out \o [j \in 1..t |-> Len(out) + j]) = Len(out) + t
            /\ \A i \in 1..(Len(out) + t) : (out \o [j \in 1..t |-> Len(out) + j])[i] = i
        BY <3>3, <3>4, WireStep
      <4> QED
        BY <3>5, <4>1
    <3>7. /\ Len(out') = r' /\ r' <= MaxLen /\ (len' = 0 => r' = want)
          /\ \A i \in 1..Len(out') : out'[i] = i
      BY <3>1, <3>3, <3>4, <3>6
    <3> QED
      BY <3>2, <3>7 DEF WriteInv, WriteOutcome
  <2> QED
    BY <1>3, <2>1, <2>2, <2>3, <2>4, <2>5 DEF Step
<1>4. CASE UNCHANGED vars
  BY <1>4 DEF vars, ghost, WriteInv, WriteOutcome
<1> QED
  BY <1>1, <1>2, <1>3, <1>4 DEF Next

(* What conn_write has put on the wire is the beginning of the caller's    *)
(* data, and it returns 0 exactly if that is all of it.                    *)
THEOREM ConnWriteOutcome == Spec => []WriteOutcome
<1>1. Init => WriteInv
  BY ConnAssumption DEF Init, WriteInv, WriteOutcome
<1>2. WriteInv => WriteOutcome
  BY DEF WriteInv
<1> QED
  BY <1>1, <1>2, WriteInvNext, TypeCorrect, PTL DEF Spec

-----------------------------------------------------------------------------
(* conn_read_all.  Only its own steps touch its buffer, and only they take *)
(* bytes off the stream of an http connection.                             *)

Whole(b, c) ==
  /\ b.len = c /\ b.len <= size(b)
  /\ \A i \in 1..b.len : b.mem[i] = i
  /\ ZeroTail(b)

(* Growing the block keeps the stream. *)
LEMMA WholeAppend ==
  ASSUME NEW b \in BufferType(Bytes), NEW c \in Nat, Whole(b, c), NEW k \in Nat
  PROVE  /\ buffer_append(b, k) \in BufferType(Bytes)
         /\ size(buffer_append(b, k)) >= c + k
         /\ Whole(buffer_append(b, k), c)
<1> DEFINE g == buffer_append(b, k)
<1>1. 0 \in Bytes /\ b.len <= size(b)
  BY ConnAssumption DEF Bytes, Whole
<1>2. /\ g \in BufferType(Bytes) /\ g.len = b.len /\ size(g) >= b.len + k
      /\ \A i \in 1..b.len : g.mem[i] = b.mem[i]
      /\ ZeroTail(b) => ZeroTail(g)
  BY <1>1, AppendType
<1> HIDE DEF g
<1>3. size(g) \in Nat
  BY <1>2 DEF size, BufferType
<1>4. Whole(g, c) /\ size(g) >= c + k
  BY <1>2, <1>3 DEF Whole
<1> QED
  BY <1>2, <1>4 DEF g

(* The next t bytes of the stream, read into the free part of the block.   *)
LEMMA WholeDeliver ==
  ASSUME NEW b \in BufferType(Bytes), NEW c \in Nat, Whole(b, c), NEW t \in Nat,
         c + t <= size(b), c + t <= MaxBytes
  PROVE  Whole(Deliver(b, t, c + 1), c + t)
<1> DEFINE m == [i \in 1..size(b) |-> IF i \in (b.len + 1)..(b.len + t)
                                      THEN c + 1 + (i - b.len - 1) ELSE b.mem[i]]
<1>1. b.mem \in Seq(Bytes) /\ size(b) \in Nat /\ b.len = c
  BY DEF BufferType, size, Whole
<1>2. \A i \in 1..size(b) : (IF i \in (b.len + 1)..(b.len + t)
                             THEN c + 1 + (i - b.len - 1) ELSE b.mem[i]) \in Bytes
  <2>1. \A i \in 1..size(b) : b.mem[i] \in Bytes
    BY <1>1 DEF size
  <2>2. \A i \in (b.len + 1)..(b.len + t) : c + 1 + (i - b.len - 1) \in Bytes
    BY <1>1, ConnAssumption DEF Bytes
  <2> QED
    BY <2>1, <2>2
<1>3. m \in Seq(Bytes) /\ Len(m) = size(b)
  BY <1>1, <1>2
<1>4. \A i \in 1..size(b) : m[i] = IF i \in (b.len + 1)..(b.len + t)
                                   THEN c + 1 + (i - b.len - 1) ELSE b.mem[i]
  OBVIOUS
<1>5. Deliver(b, t, c + 1) = [mem |-> m, len |-> b.len + t]
  BY DEF Deliver
<1> HIDE DEF m
<1>6. \A i \in 1..(c + t) : m[i] = i
  BY <1>1, <1>4 DEF Whole
<1>7. \A i \in 1..size(b) : i > c + t => m[i] = 0
  BY <1>1, <1>4 DEF Whole, ZeroTail
<1> QED
  BY <1>1, <1>3, <1>5, <1>6, <1>7 DEF Whole, ZeroTail, size

LEMMA WholeStreamNext == TypeInv /\ Owner /\ WholeStream /\ [Next]_vars => WholeStream'
<1> SUFFICES ASSUME TypeInv, Owner, WholeStream, [Next]_vars, user' = "http"
             PROVE  /\ rbuf'.len = consumed' /\ rbuf'.len <= size(rbuf')
                    /\ \A i \in 1..rbuf'.len : rbuf'.mem[i] = i
                    /\ ZeroTail(rbuf')
  BY DEF WholeStream
<1> SUFFICES Whole(rbuf', consumed')
  BY DEF Whole
<1>a. user = "http" => Whole(rbuf, consumed)
  BY DEF WholeStream, Whole
<1>b. ASSUME UNCHANGED <<user, rbuf, consumed>> PROVE Whole(rbuf', consumed')
  BY <1>a, <1>b
<1>c. /\ rbuf \in BufferType(Bytes) /\ rbuf.len <= size(rbuf)
      /\ consumed \in Nat /\ arrived \in Nat /\ consumed <= arrived /\ arrived <= MaxBytes
      /\ Chunk \in Nat /\ MaxBytes \in Nat
  BY ConnAssumption DEF TypeInv, Values, Transfer, Bytes
<1>1. CASE Peer
  BY <1>1, <1>b DEF Peer, PeerConnect, PeerSend, PeerClose, PeerReset, PeerUrgent, PeerDrain
<1>2. CASE Call
  <2>1. ASSUME NEW u \in {"vnc", "http"}, conn_open(u) PROVE Whole(rbuf', consumed')
    <3>1. rbuf' = buffer_init(0) /\ consumed' = 0
      BY <2>1 DEF conn_open, NewSocket
    <3> QED
      BY <3>1, ZeroBuffer DEF Whole, ZeroTail
  <2>2. ASSUME NEW n \in 0..MaxLen, conn_read(n) \/ conn_write(n) PROVE Whole(rbuf', consumed')
    BY <2>2, <1>b DEF conn_read, conn_write, kernel
  <2>3. CASE conn_read_all \/ conn_close
    BY <2>3, <1>b DEF conn_read_all, conn_close, kernel
  <2> QED
    BY <1>2, <2>1, <2>2, <2>3 DEF Call
<1>3. CASE Step
  <2>1. CASE OpenSelect \/ ReadSelect \/ ReadNone \/ AllSelect \/ WriteSelect \/ WriteSome \/ WriteNone
    BY <2>1, <1>b
       DEF OpenSelect, ReadSelect, ReadNone, AllSelect, WriteSelect, WriteSome, WriteNone, kernel
  <2>2. CASE ReadSome
    BY <2>2 DEF ReadSome, Owner
  <2>3. CASE AllSome
    <3>1. PICK t \in 1..Chunk :
            /\ t <= arrived - consumed
            /\ consumed' = consumed + t
            /\ rbuf' = Deliver(buffer_append(rbuf, Chunk), t, consumed + 1)
      BY <2>3 DEF AllSome, Queued
    <3> DEFINE b == buffer_append(rbuf, Chunk)
    <3>2. Whole(rbuf, consumed)
      BY <2>3, <1>a DEF AllSome, Owner
    <3>3. b \in BufferType(Bytes) /\ size(b) >= consumed + Chunk /\ Whole(b, consumed)
      BY <1>c, <3>2, WholeAppend
    <3> HIDE DEF b
    <3>4. size(b) \in Nat
      BY <3>3 DEF size, BufferType
    <3>5. t \in Nat /\ consumed + t <= size(b) /\ consumed + t <= MaxBytes
      BY <1>c, <3>1, <3>3, <3>4
    <3>6. Whole(Deliver(b, t, consumed + 1), consumed + t)
      BY <1>c, <3>3, <3>5, WholeDeliver
    <3> QED
      BY <3>1, <3>6 DEF b
  <2>4. CASE AllNone
    <3>1. consumed' = consumed /\ rbuf' = buffer_append(rbuf, Chunk) /\ user = "http"
      BY <2>4 DEF AllNone, Owner
    <3>2. Whole(rbuf, consumed)
      BY <3>1, <1>a
    <3> QED
      BY <1>c, <3>1, <3>2, WholeAppend
  <2> QED
    BY <1>3, <2>1, <2>2, <2>3, <2>4 DEF Step
<1>4. CASE UNCHANGED vars
  BY <1>4, <1>b DEF vars, kernel
<1> QED
  BY <1>1, <1>2, <1>3, <1>4 DEF Next

(* Over any number of calls of conn_read_all the buffer holds the whole    *)
(* stream up to the last byte read, inside its block, and NUL after it.    *)
THEOREM ConnWholeStream == Spec => []WholeStream
<1>1. Init => WholeStream
  BY DEF Init, WholeStream
<1>2. Init => Owner
  BY DEF Init, Owner
<1> QED
  BY <1>1, <1>2, OwnerNext, WholeStreamNext, TypeCorrect, PTL DEF Spec
=============================================================================
