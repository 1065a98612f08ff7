---------------------------- MODULE StreamReader ----------------------------
(***************************************************************************)
(* What conn_read promises its caller, free of sockets, select and         *)
(* fragments: a position in the peer's stream that only calls advance, one *)
(* call at a time, never beyond what the call asked for.  A call succeeds  *)
(* exactly when it has reached its goal; one that fails has moved the      *)
(* position part of the way, and the bytes are gone.                       *)
(***************************************************************************)
EXTENDS Integers

VARIABLES
  taken,   \* position in the stream
  busy,    \* a call is running
  goal,    \* the position the call is to reach
  res      \* the last call: "ok", "fail", or "none"

vars == <<taken, busy, goal, res>>

Init == taken = 0 /\ busy = FALSE /\ goal = 0 /\ res = "none"

(* A read of no bytes is complete at once. *)
Start ==
  /\ ~busy
  /\ goal' \in Nat /\ goal' >= taken
  /\ busy' <=> goal' > taken
  /\ res' = IF goal' > taken THEN "none" ELSE "ok"
  /\ UNCHANGED taken

Advance ==
  /\ busy
  /\ taken' \in (taken + 1)..goal
  /\ busy' <=> taken' < goal
  /\ res' = IF taken' < goal THEN "none" ELSE "ok"
  /\ UNCHANGED goal

Fail ==
  /\ busy /\ taken < goal
  /\ busy' = FALSE /\ res' = "fail"
  /\ UNCHANGED <<taken, goal>>

(* The caller does something else with the connection. *)
Forget ==
  /\ ~busy
  /\ busy' = FALSE /\ goal' = 0 /\ res' = "none"
  /\ UNCHANGED taken

Next == Start \/ Advance \/ Fail \/ Forget

Spec == Init /\ [][Next]_vars
=============================================================================
