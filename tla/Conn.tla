-------------------------------- MODULE Conn --------------------------------
(***************************************************************************)
(* UI/conn.c: one non-blocking TCP socket and the calls the program makes  *)
(* on it.  The socket belongs to one of the two callers of conn_open:      *)
(*                                                                         *)
(*   "vnc"   vnc_session.c: conn_read and conn_write, never conn_close;    *)
(*   "http"  http_client.c: conn_write, conn_read_all, conn_close.         *)
(*                                                                         *)
(* The peer's bytes are numbered 1, 2, 3, ... in the order it sent them    *)
(* and a byte is modelled by its number, so that the contents of a buffer  *)
(* say which bytes of the stream it holds.  0 is a byte that did not come  *)
(* from the stream.  A select() that is interrupted (EINTR) and a read()   *)
(* or write() that is (the goto read_intr / write_intr loops) change       *)
(* nothing and are stuttering steps.                                       *)
(***************************************************************************)
EXTENDS Buffer

CONSTANTS
  MaxBytes,   \* bound: bytes the peer sends on one connection
  MaxLen,     \* bound: the largest len passed to conn_read and conn_write
  Chunk,      \* the 1024 of conn_read_all
  SndBuf      \* capacity of the socket's send buffer, in bytes

ASSUME ConnAssumption ==
  /\ MaxBytes \in Nat
  /\ MaxLen \in Nat \ {0}
  /\ Chunk \in Nat \ {0}
  /\ SndBuf \in Nat \ {0}

VARIABLES
  \* the kernel's side of the socket
  sk,         \* "none", "connecting", "refused" (SO_ERROR set) or "up"
  arrived,    \* bytes of the peer that have reached the receive queue
  consumed,   \* bytes read() has taken from it
  fin,        \* the peer closed its side
  rst,        \* a reset: "no", "pending" (errno not yet reported), "seen"
  urgent,     \* out-of-band data: select reports the fd in efds
  room,       \* free space of the send buffer
  \* the running call, or the last one
  user,       \* which caller opened the socket
  pc,         \* where the call waits
  r, len,     \* bytes transferred, bytes still to transfer
  tv,         \* timeout passed to select: "none" (NULL), "neg" or "fin"
  wset, eset, \* fd is in the wfds/rfds, in the efds passed to select
  mem,        \* the caller's buffer of conn_read
  rbuf,       \* the buffer of conn_read_all
  out,        \* what conn_write put on the wire: indices into the caller's data
  last,       \* the last call that returned: its name and its result
  \* the arguments of the running call, for the properties only
  want,       \* len as passed by the caller
  base        \* value of consumed when the call was made

kernel == <<sk, arrived, consumed, fin, rst, urgent, room>>
select == <<tv, wset, eset>>
ghost  == <<want, base>>
vars   == <<kernel, user, pc, r, len, select, mem, rbuf, out, last, ghost>>

Bytes == 0..MaxBytes
Waits == {"idle", "open", "read", "readable", "all", "allread", "write", "writable"}
Ops   == {"none", "conn_open", "conn_read", "conn_read_all", "conn_write", "conn_close"}

TypeOK ==
  /\ sk \in {"none", "connecting", "refused", "up"}
  /\ arrived \in Bytes /\ consumed \in Bytes
  /\ fin \in BOOLEAN /\ urgent \in BOOLEAN
  /\ rst \in {"no", "pending", "seen"}
  /\ room \in 0..SndBuf
  /\ user \in {"vnc", "http"}
  /\ pc \in Waits
  /\ r \in 0..MaxLen /\ len \in 0..MaxLen
  /\ tv \in {"none", "neg", "fin"}
  /\ wset \in BOOLEAN /\ eset \in BOOLEAN
  /\ mem \in [1..MaxLen -> Bytes]
  /\ rbuf \in BufferType(Bytes)
  /\ out \in Seq(1..MaxLen)
  /\ last \in [op : Ops, code : -3..0]
  /\ want \in 0..MaxLen /\ base \in Bytes

NoBytes == [i \in 1..MaxLen |-> 0]

Init ==
  /\ sk = "none" /\ arrived = 0 /\ consumed = 0
  /\ fin = FALSE /\ rst = "no" /\ urgent = FALSE /\ room = SndBuf
  /\ user = "vnc" /\ pc = "idle"
  /\ r = 0 /\ len = 0
  /\ tv = "none" /\ wset = FALSE /\ eset = FALSE
  /\ mem = NoBytes /\ rbuf = buffer_clear /\ out = <<>>
  /\ last = [op |-> "none", code |-> 0]
  /\ want = 0 /\ base = 0

Return(o, c) == pc' = "idle" /\ last' = [op |-> o, code |-> c]

-----------------------------------------------------------------------------
(* The peer and the network (not under src/).                              *)

PeerConnect ==
  /\ sk = "connecting"
  /\ sk' \in {"up", "refused"}
  /\ UNCHANGED <<arrived, consumed, fin, rst, urgent, room>>

Alive == sk = "up" /\ ~fin /\ rst = "no"

PeerSend ==
  /\ Alive
  /\ arrived' \in (arrived + 1)..MaxBytes
  /\ UNCHANGED <<sk, consumed, fin, rst, urgent, room>>

PeerClose ==
  /\ Alive
  /\ fin' = TRUE
  /\ UNCHANGED <<sk, arrived, consumed, rst, urgent, room>>

PeerReset ==
  /\ sk = "up" /\ rst = "no"
  /\ rst' = "pending"
  /\ UNCHANGED <<sk, arrived, consumed, fin, urgent, room>>

PeerUrgent ==
  /\ Alive /\ ~urgent
  /\ urgent' = TRUE
  /\ UNCHANGED <<sk, arrived, consumed, fin, rst, room>>

PeerDrain ==
  /\ sk = "up" /\ room < SndBuf
  /\ room' = SndBuf
  /\ UNCHANGED <<sk, arrived, consumed, fin, rst, urgent>>

Peer ==
  /\ PeerConnect \/ PeerSend \/ PeerClose \/ PeerReset \/ PeerUrgent \/ PeerDrain
  /\ UNCHANGED <<user, pc, r, len, select, mem, rbuf, out, last, ghost>>

-----------------------------------------------------------------------------
(* conn_open.                                                              *)

NewSocket == arrived' = 0 /\ consumed' = 0 /\ fin' = FALSE /\ rst' = "no"
             /\ urgent' = FALSE /\ room' = SndBuf

(* Mutant: the descriptor is not closed on failure. *)
FailRet_Leaks == UNCHANGED sk /\ Return("conn_open", -1)

(* close(fd); return -1 *)
FailRet == sk' = "none" /\ Return("conn_open", -1)

(* socket() and connect().  connect is refused at once, succeeds at once,  *)
(* is in progress, or is interrupted.  An interrupted connect jumps to     *)
(* select_intr past the FD_ZERO/FD_SET and the tv assignments: the sets    *)
(* and the timeout are then indeterminate.  http_client_send initialises   *)
(* its buffer just before the call.                                        *)
conn_open(u) ==
  /\ pc = "idle" /\ sk = "none"
  /\ user' = u
  /\ rbuf' = buffer_init(0)
  /\ NewSocket
  /\ \/ FailRet /\ UNCHANGED select
     \/ sk' = "up" /\ Return("conn_open", 0) /\ UNCHANGED select
     \/ /\ sk' = "connecting" /\ pc' = "open" /\ UNCHANGED last
        /\ wset' = TRUE /\ eset' = TRUE /\ tv' = "fin"
     \/ /\ sk' = "connecting" /\ pc' = "open" /\ UNCHANGED last
        /\ wset' \in BOOLEAN /\ eset' \in BOOLEAN /\ tv' \in {"neg", "fin"}
  /\ r' = 0 /\ len' = 0 /\ want' = 0 /\ base' = 0
  /\ mem' = NoBytes /\ out' = <<>>

(* Mutant: no timeout is passed to select. *)
OpenSelect_NoTimeout ==
  /\ pc = "open" /\ wset
  /\ \/ sk = "refused" /\ FailRet
     \/ sk = "up" /\ UNCHANGED sk /\ Return("conn_open", 0)
  /\ UNCHANGED <<arrived, consumed, fin, rst, urgent, room,
                 user, r, len, select, mem, rbuf, out, ghost>>

(* select() returned: time out, an error ("neg": a negative timeout, or a  *)
(* bad descriptor in indeterminate sets), an exception, SO_ERROR, success; *)
(* or, with indeterminate sets, readiness of descriptors that are not fd,  *)
(* which leaves the for loop for fail_ret like a time out.                 *)
OpenSelect ==
  /\ pc = "open"
  /\ \/ tv = "fin" /\ ~(wset /\ sk \in {"up", "refused"}) /\ FailRet
     \/ tv = "neg" /\ FailRet
     \/ tv = "fin" /\ eset /\ urgent /\ FailRet
     \/ tv = "fin" /\ wset /\ ~(eset /\ urgent) /\ sk = "refused" /\ FailRet
     \/ /\ tv = "fin" /\ wset /\ ~(eset /\ urgent) /\ sk = "up"
        /\ UNCHANGED sk /\ Return("conn_open", 0)
  /\ UNCHANGED <<arrived, consumed, fin, rst, urgent, room,
                 user, r, len, select, mem, rbuf, out, ghost>>

conn_close ==
  /\ pc = "idle" /\ sk = "up" /\ user = "http"
  /\ sk' = "none" /\ Return("conn_close", 0)
  /\ UNCHANGED <<arrived, consumed, fin, rst, urgent, room,
                 user, r, len, select, mem, rbuf, out, ghost>>

-----------------------------------------------------------------------------
(* conn_read.                                                              *)

Queued   == arrived - consumed
Readable == Queued > 0 \/ fin \/ rst # "no"

(* A one-byte read waits without a timeout.  For any other len the code    *)
(* passes &tv and never assigns tv.tv_sec: the timeout is indeterminate,   *)
(* negative or finite.  A read of no bytes returns at once.                *)
conn_read(n) ==
  /\ pc = "idle" /\ sk = "up" /\ user = "vnc"
  /\ r' = 0 /\ len' = n /\ want' = n /\ base' = consumed
  /\ mem' = NoBytes
  /\ wset' = TRUE /\ eset' = TRUE
  /\ IF n = 1 THEN tv' = "none" ELSE tv' \in {"neg", "fin"}
  /\ IF n = 0 THEN Return("conn_read", 0) ELSE pc' = "read" /\ UNCHANGED last
  /\ UNCHANGED <<kernel, user, rbuf, out>>

(* Mutant: a timeout is not an error. *)
ReadSelect_TimeoutOk ==
  /\ pc = "read"
  /\ \/ tv = "neg" /\ Return("conn_read", -1) /\ UNCHANGED eset
     \/ tv = "fin" /\ ~Readable /\ Return("conn_read", 0) /\ UNCHANGED eset
     \/ /\ tv # "neg" /\ pc' = "readable" /\ eset' = FALSE /\ UNCHANGED last
  /\ UNCHANGED <<kernel, user, r, len, tv, wset, mem, rbuf, out, ghost>>

(* select() may also report the socket readable when it is not: the EAGAIN *)
(* branch is there for that.  A select that returns leaves only the ready  *)
(* descriptors in the sets, so efds is empty from the second round on.     *)
ReadSelect ==
  /\ pc = "read"
  /\ \/ tv = "neg" /\ Return("conn_read", -1) /\ UNCHANGED eset
     \/ tv = "fin" /\ ~Readable /\ Return("conn_read", -2) /\ UNCHANGED eset
     \/ tv # "neg" /\ eset /\ urgent /\ Return("conn_read", -1) /\ UNCHANGED eset
     \/ /\ tv # "neg" /\ ~(eset /\ urgent)
        /\ pc' = "readable" /\ eset' = FALSE /\ UNCHANGED last
  /\ UNCHANGED <<kernel, user, r, len, tv, wset, mem, rbuf, out, ghost>>

(* Mutant: the first fragment ends the call. *)
ReadSome_OneFragment ==
  /\ pc = "readable"
  /\ \E t \in 1..len :
       /\ t <= Queued
       /\ consumed' = consumed + t
       /\ mem' = [i \in 1..MaxLen |->
                    IF i \in (r + 1)..(r + t) THEN consumed + (i - r) ELSE mem[i]]
       /\ r' = r + t /\ len' = len - t
  /\ Return("conn_read", 0)
  /\ UNCHANGED <<sk, arrived, fin, rst, urgent, room, user, select, rbuf, out, ghost>>

(* read() delivers t bytes to buf + r. *)
ReadSome ==
  /\ pc = "readable"
  /\ \E t \in 1..len :
       /\ t <= Queued
       /\ consumed' = consumed + t
       /\ mem' = [i \in 1..MaxLen |->
                    IF i \in (r + 1)..(r + t) THEN consumed + (i - r) ELSE mem[i]]
       /\ r' = r + t /\ len' = len - t
  /\ IF len' = 0 THEN Return("conn_read", 0) ELSE pc' = "read" /\ UNCHANGED last
  /\ UNCHANGED <<sk, arrived, fin, rst, urgent, room,
                 user, select, rbuf, out, ghost>>

(* Nothing is queued: EAGAIN, an error (both go round the while loop       *)
(* again) or end of file.                                                  *)
ReadNone ==
  /\ pc = "readable" /\ Queued = 0
  /\ \/ /\ rst = "pending" /\ rst' = "seen"
        /\ pc' = "read" /\ UNCHANGED last
     \/ /\ rst # "pending" /\ (fin \/ rst = "seen")
        /\ Return("conn_read", -3) /\ UNCHANGED rst
     \/ /\ ~Readable
        /\ pc' = "read" /\ UNCHANGED <<rst, last>>
  /\ UNCHANGED <<sk, arrived, consumed, fin, urgent, room,
                 user, r, len, select, mem, rbuf, out, ghost>>

-----------------------------------------------------------------------------
(* conn_read_all.                                                          *)

conn_read_all ==
  /\ pc = "idle" /\ sk = "up" /\ user = "http"
  /\ pc' = "all" /\ tv' = "none" /\ wset' = TRUE /\ eset' = TRUE
  /\ UNCHANGED <<kernel, user, r, len, mem, rbuf, out, last, ghost>>

AllSelect ==
  /\ pc = "all"
  /\ \/ eset /\ urgent /\ Return("conn_read_all", -1) /\ UNCHANGED eset
     \/ ~(eset /\ urgent) /\ pc' = "allread" /\ eset' = FALSE /\ UNCHANGED last
  /\ UNCHANGED <<kernel, user, r, len, tv, wset, mem, rbuf, out, ghost>>

(* Every round of read_to_end makes room for Chunk bytes, then reads.      *)
AllSome ==
  /\ pc = "allread"
  /\ \E t \in 1..Chunk :
       /\ t <= Queued
       /\ consumed' = consumed + t
       /\ rbuf' = Deliver(buffer_append(rbuf, Chunk), t, consumed + 1)
  /\ UNCHANGED <<sk, arrived, fin, rst, urgent, room,
                 user, pc, r, len, select, mem, out, last, ghost>>

AllNone ==
  /\ pc = "allread" /\ Queued = 0
  /\ rbuf' = buffer_append(rbuf, Chunk)
  /\ \/ /\ rst = "pending" /\ rst' = "seen"
        /\ pc' = "all" /\ UNCHANGED last
     \/ /\ rst # "pending" /\ (fin \/ rst = "seen")
        /\ Return("conn_read_all", -3) /\ UNCHANGED rst
     \/ ~Readable /\ Return("conn_read_all", 0) /\ UNCHANGED rst
  /\ UNCHANGED <<sk, arrived, consumed, fin, urgent, room,
                 user, r, len, select, mem, out, ghost>>

-----------------------------------------------------------------------------
(* conn_write.                                                             *)

conn_write(n) ==
  /\ pc = "idle" /\ sk = "up"
  /\ r' = 0 /\ len' = n /\ want' = n /\ base' = consumed
  /\ out' = <<>>
  /\ tv' = "none" /\ wset' = TRUE /\ eset' = TRUE
  /\ IF n = 0 THEN Return("conn_write", 0) ELSE pc' = "write" /\ UNCHANGED last
  /\ UNCHANGED <<kernel, user, mem, rbuf>>

WriteSelect ==
  /\ pc = "write"
  /\ \/ eset /\ urgent /\ Return("conn_write", -1) /\ UNCHANGED eset
     \/ ~(eset /\ urgent) /\ pc' = "writable" /\ eset' = FALSE /\ UNCHANGED last
  /\ UNCHANGED <<kernel, user, r, len, tv, wset, mem, rbuf, out, ghost>>

(* Mutant: every write starts at the beginning of the caller's data. *)
WriteSome_NoOffset ==
  /\ pc = "writable" /\ rst = "no"
  /\ \E t \in 1..len :
       /\ t <= room
       /\ room' = room - t
       /\ out' = out \o [j \in 1..t |-> j]
       /\ r' = r + t /\ len' = len - t
  /\ IF len' = 0 THEN Return("conn_write", 0) ELSE pc' = "write" /\ UNCHANGED last
  /\ UNCHANGED <<sk, arrived, consumed, fin, rst, urgent,
                 user, select, mem, rbuf, ghost>>

(* write() takes t bytes from buf + r. *)
WriteSome ==
  /\ pc = "writable" /\ rst = "no"
  /\ \E t \in 1..len :
       /\ t <= room
       /\ room' = room - t
       /\ out' = out \o [j \in 1..t |-> r + j]
       /\ r' = r + t /\ len' = len - t
  /\ IF len' = 0 THEN Return("conn_write", 0) ELSE pc' = "write" /\ UNCHANGED last
  /\ UNCHANGED <<sk, arrived, consumed, fin, rst, urgent,
                 user, select, mem, rbuf, ghost>>

(* EAGAIN, which goes round the while loop, or an error. *)
WriteNone ==
  /\ pc = "writable"
  /\ \/ rst = "no" /\ room = 0 /\ pc' = "write" /\ UNCHANGED <<rst, last>>
     \/ rst # "no" /\ rst' = "seen" /\ Return("conn_write", -1)
  /\ UNCHANGED <<sk, arrived, consumed, fin, urgent, room,
                 user, r, len, select, mem, rbuf, out, ghost>>

-----------------------------------------------------------------------------
Call ==
  \/ \E u \in {"vnc", "http"} : conn_open(u)
  \/ \E n \in 0..MaxLen : conn_read(n) \/ conn_write(n)
  \/ conn_read_all \/ conn_close

(* The steps of a call in progress. *)
Step ==
  \/ OpenSelect
  \/ ReadSelect \/ ReadSome \/ ReadNone
  \/ AllSelect \/ AllSome \/ AllNone
  \/ WriteSelect \/ WriteSome \/ WriteNone

Next == Peer \/ Call \/ Step

Spec == Init /\ [][Next]_vars

(* The thread that made the call keeps running, and a peer that has not    *)
(* reset the connection keeps reading what it is sent.                     *)
FairSpec == Spec /\ WF_vars(Step) /\ WF_vars(PeerDrain /\ Peer)

-----------------------------------------------------------------------------
(* What conn_open promises: when it has returned, it returned a descriptor *)
(* exactly if the connection is up, and on every failure path (timeout,    *)
(* SO_ERROR, exception, indeterminate sets after an interrupted connect)   *)
(* the socket was closed: no half-open descriptor is left behind.          *)
OpenOutcome ==
  pc = "idle" =>
    /\ sk \in {"none", "up"}
    /\ last.op = "conn_open" => (last.code = 0 <=> sk = "up")

(* What conn_read promises, whatever the fragmentation: it returns 0       *)
(* exactly if it took len bytes off the stream, and then the caller's      *)
(* buffer holds those bytes in order; a one-byte read never times out.     *)
ReadOutcome ==
  (pc = "idle" /\ last.op = "conn_read") =>
    /\ last.code = 0 <=> consumed = base + want
    /\ last.code = 0 => \A i \in 1..want : mem[i] = base + i
    /\ want = 1 => last.code # -2

(* The bytes of a failed conn_read are not pushed back: those it took are  *)
(* in the front of the caller's buffer and off the stream, while the       *)
(* result only says that the read failed.                                  *)
ReadProgress ==
  (pc \in {"read", "readable"} \/ (pc = "idle" /\ last.op = "conn_read")) =>
    /\ r + len = want /\ consumed = base + r
    /\ \A i \in 1..MaxLen : mem[i] = IF i <= r THEN base + i ELSE 0

(* What conn_read_all promises to http_client: over any number of calls    *)
(* the buffer holds the whole stream up to the last byte read, without a   *)
(* gap or a repetition, inside the allocated block, and NUL after it.      *)
WholeStream ==
  user = "http" =>
    /\ rbuf.len = consumed /\ rbuf.len <= size(rbuf)
    /\ \A i \in 1..rbuf.len : rbuf.mem[i] = i
    /\ ZeroTail(rbuf)

(* What conn_write promises: what it has put on the wire is a prefix of    *)
(* the caller's data, and it returns 0 exactly if that is all of it.       *)
WriteOutcome ==
  /\ Len(out) <= MaxLen /\ \A i \in 1..Len(out) : out[i] = i
  /\ (pc = "idle" /\ last.op = "conn_write") => (last.code = 0 <=> Len(out) = want)

(* conn_read seen through the contract of StreamReader: the caller is the  *)
(* VNC session, the position is what read() has taken from its socket.     *)
Reading  == user = "vnc" /\ pc \in {"read", "readable"}
HasRead  == user = "vnc" /\ pc = "idle" /\ last.op = "conn_read"
Reader == INSTANCE StreamReader WITH
  taken <- IF user = "vnc" THEN consumed ELSE 0,
  busy  <- Reading,
  goal  <- IF Reading \/ HasRead THEN base + want ELSE 0,
  res   <- IF HasRead THEN (IF last.code = 0 THEN "ok" ELSE "fail") ELSE "none"

(* Every interleaving of conn_read with the network, with timeouts,        *)
(* resets, out-of-band data and the other calls keeps the contract the     *)
(* session relies on.                                                      *)
ImplementsReader == Reader!Spec

(* A call returns as soon as the peer gives it what it waits for:          *)
(* conn_open always (its select has a timeout), conn_read when the bytes   *)
(* have arrived or the peer is gone, conn_write when the peer drains.      *)
OpenReturns  == pc = "open" ~> pc = "idle"
ReadReturns  == (pc = "read" /\ (fin \/ rst # "no" \/ arrived >= base + want)) ~> pc = "idle"
WriteReturns == pc = "write" ~> pc = "idle"

(* No call waits for ever for something that has happened.                 *)
CallsReturn == OpenReturns /\ ReadReturns /\ WriteReturns
=============================================================================
