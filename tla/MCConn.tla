------------------------------- MODULE MCConn -------------------------------
(* Model checking Conn: a connection of at most MaxBytes bytes, calls of   *)
(* at most MaxLen bytes, a chunk smaller than the stream so that           *)
(* conn_read_all needs several rounds and reallocates, and a send buffer   *)
(* smaller than MaxLen so that conn_write is partial.                      *)
EXTENDS Conn
=============================================================================
