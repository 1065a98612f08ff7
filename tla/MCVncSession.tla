---------------------------- MODULE MCVncSession ----------------------------
(* Model checking VncSession.  Two desktop sizes that differ in both       *)
(* directions, payloads of zero and one unit, updates of up to two         *)
(* rectangles (a resize followed by pixels of the new size) for the server *)
(* that keeps to the protocol; for the server that does not, sizes of one  *)
(* column and empty payloads, since arbitrary bytes take their place, and  *)
(* configurations that reach session->status or go past its record.        *)
(*                                                                         *)
(* ClientOnly is the view of the run with the other server, which has only *)
(* properties of the client: once the field boundary is lost or the server *)
(* is gone, nothing of the server's state reaches the client any more.     *)
EXTENDS VncSession

TallAndWide == {<<1, 2>>, <<2, 1>>}
OneColumn   == {<<1, 1>>, <<1, 2>>}
UpToOne     == {0, 1}
Empty       == {0}
Overlong    == {0, 57}
Twelve      == {12}

ClientOnly ==
  IF closed \/ ~synced THEN <<TRUE, stream, closed, sent, client>> ELSE <<FALSE, vars>>
=============================================================================
