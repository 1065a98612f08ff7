--------------------------- MODULE MCRemoteServer ---------------------------
(* Model checking RemoteServer: a device of the standard form with three   *)
(* services and two listed applications, and one that sends anything, with *)
(* two services, one listed application and three URLs, so that one kind   *)
(* of one service is given twice and more.                                 *)
EXTENDS RemoteServer

Services == [p \in BOOLEAN |-> IF p THEN 3 ELSE 2]
UrlCount == [p \in BOOLEAN |-> IF p THEN 4 ELSE 3]
Listed   == [p \in BOOLEAN |-> IF p THEN 2 ELSE 1]
=============================================================================
