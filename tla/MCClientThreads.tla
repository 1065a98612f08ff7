-------------------------- MODULE MCClientThreads ---------------------------
(* Model checking ClientThreads: two phones, one with two applications and *)
(* one with an application of its own.                                     *)
EXTENDS ClientThreads, TLC

CONSTANTS p1, p2, a1, a2, b1

TwoPhones == (p1 :> <<a1, a2>>) @@ (p2 :> <<b1>>)
=============================================================================
