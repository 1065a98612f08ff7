------------------------------- MODULE Buffer -------------------------------
(***************************************************************************)
(* The growable byte buffer of UI/buffer.c.  A buffer is a record: "mem"   *)
(* is the allocated block (buf->size is its length) and "len" the number   *)
(* of bytes in use.  A byte is a natural number; 0 is the NUL that calloc  *)
(* leaves in a fresh block.                                                *)
(***************************************************************************)
EXTENDS Integers, Sequences

BufferType(Byte) == [mem : Seq(Byte), len : Nat]

size(b) == Len(b.mem)

(* A fresh block: calloc(1, n), or no block at all when n is 0.            *)
buffer_init(n) == [mem |-> [i \in 1..n |-> 0], len |-> 0]

buffer_clear == [mem |-> << >>, len |-> 0]

(* Mutant: the bytes in use are not counted when the block is tested. *)
buffer_append_NoLen(b, k) ==
  IF k > size(b)
  THEN [mem |-> [i \in 1..(k + b.len) |-> IF i <= b.len THEN b.mem[i] ELSE 0],
        len |-> b.len]
  ELSE b

(* Make room for k more bytes: reallocate to exactly len + k when the      *)
(* block is too small, keep the bytes in use, zero the rest.               *)
buffer_append(b, k) ==
  IF k + b.len > size(b)
  THEN [mem |-> [i \in 1..(k + b.len) |-> IF i <= b.len THEN b.mem[i] ELSE 0],
        len |-> b.len]
  ELSE b

(* read(fd, buf->buf + buf->len, ...) that delivers the bytes first,       *)
(* first + 1, ..., first + t - 1, followed by buf->len += t.               *)
Deliver(b, t, first) ==
  [mem |-> [i \in 1..size(b) |-> IF i \in (b.len + 1)..(b.len + t)
                                 THEN first + (i - b.len - 1)
                                 ELSE b.mem[i]],
   len |-> b.len + t]

(* The bytes after the used part are NUL, so the buffer reads as a C       *)
(* string as soon as one byte of room is left.                             *)
ZeroTail(b) == \A i \in 1..size(b) : i > b.len => b.mem[i] = 0
=============================================================================
