------------------------------- MODULE MCUPnP -------------------------------
(* Model checking UPnP: one address of the 192.168.42 network and one of   *)
(* another, room for two search sockets (FdLimit 4), one location.  Of the *)
(* kernel's and the network's moves there are at most three: two address   *)
(* events, so that the netlink queue of one overruns, an address is gone   *)
(* before its search and, with one found at the start, a third search      *)
(* finds no descriptor; two datagrams, so that the second runs on into the *)
(* first; one failing call.                                                *)
EXTENDS UPnP

Phones == {"usb42", "usb32"}
Usb42  == {"usb42"}
OneUrl == {"http"}
=============================================================================
