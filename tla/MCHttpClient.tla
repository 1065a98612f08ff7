---------------------------- MODULE MCHttpClient ----------------------------
(* Model checking HttpClient: replies with and without a length, with less *)
(* and more text than announced, an error, and text that is not HTTP.      *)
EXTENDS HttpClient

Says(c, n, t) == [code |-> c, announced |-> n, text |-> t]

SomeReplies ==
  {Says(200, 2, 1), Says(200, 1, 2), Says(200, 0, 0),
   Says(500, 1, 1), Says(200, NoLength, 1), Says(0, NoLength, 0)}
=============================================================================
