------------------------------- MODULE MCApp --------------------------------
(* Model checking App: a phone behind an address of the 192.168.42 network *)
(* and a device of the same vendor and product that is not switched.       *)
EXTENDS App, TLC

CONSTANTS phone, other

Usb42      == {"usb42"}
TwoOfAKind == [d \in {phone, other} |-> "04e8:6860"]
Tethered   == phone :> "usb42"
=============================================================================
