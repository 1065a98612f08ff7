----------------------------- MODULE MCSsdpTool -----------------------------
(* Model checking SsdpTool: two words, two datagrams of up to three lines: *)
(* targets and locations in any order, and HOST lines between them.        *)
EXTENDS SsdpTool

CONSTANT other
=============================================================================
