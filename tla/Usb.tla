-------------------------------- MODULE Usb ---------------------------------
(***************************************************************************)
(* UI/usb.cpp, the hot-plug thread of the client (USBThread::run), and     *)
(* USB_switch/usb_control_transfer.c, the command line tool that does the  *)
(* same: every device that arrives is opened and sent the vendor request   *)
(* that switches a phone to MirrorLink.  The two programs differ in how    *)
(* they open: the thread the device of the callback, the tool a device     *)
(* with the same vendor and product (byIds).                               *)
(*                                                                         *)
(* libusb and the devices are external.  libusb refuses, or may refuse, a  *)
(* synchronous transfer from a callback of its event loop; whether the     *)
(* request is answered is nondeterministic.                                *)
(***************************************************************************)
EXTENDS Integers, Sequences, FiniteSets

CONSTANTS
  Devices,   \* devices that may be plugged in
  Phones,    \* those that can be switched
  Ids,       \* [Devices -> vendor and product]
  NoDevice,
  MaxPlugs   \* bound: arrivals and departures after the start

(* Assumed by the modules that use this one. *)
UsbConstants ==
  /\ Phones \subseteq Devices /\ NoDevice \notin Devices /\ DOMAIN Ids = Devices /\ MaxPlugs \in Nat

VARIABLES
  \* the bus
  attached,   \* devices that are plugged in
  switched,   \* those that have accepted the request
  plugs,      \* counted against MaxPlugs
  evq,        \* hot-plug events libusb has queued: <<event, device>>
  \* the program
  pc,         \* where the thread is
  byIds,      \* the program is the tool
  registered, \* the callback is registered
  todo,       \* devices LIBUSB_HOTPLUG_ENUMERATE has not reported yet
  looping,    \* registration is over: the event loop
  device,     \* the parameter of the callback while it runs
  handle,     \* the device that was opened
  \* history
  refused     \* devices whose open or request has failed, or went elsewhere

bus  == <<attached, switched, plugs>>
vars == <<bus, evq, pc, byIds, registered, todo, looping, device, handle, refused>>

Init ==
  /\ attached \in SUBSET Devices /\ switched \in SUBSET (attached \cap Phones) /\ plugs = 0
  /\ evq = << >> /\ pc = "init" /\ byIds \in BOOLEAN /\ registered = FALSE
  /\ todo = {} /\ looping = FALSE /\ device = NoDevice /\ handle = NoDevice
  /\ refused = {}

-----------------------------------------------------------------------------
(* The bus (not under src/).                                               *)

Listening == pc \notin {"init", "returned"}

Tell(e) == evq' = IF Listening THEN Append(evq, e) ELSE evq

Plug(d) ==
  /\ plugs < MaxPlugs /\ plugs' = plugs + 1
  /\ d \notin attached /\ attached' = attached \cup {d}
  /\ Tell(<<"arrived", d>>) /\ refused' = refused \ {d}
  /\ UNCHANGED <<switched, pc, byIds, registered, todo, looping, device, handle>>

Unplug(d) ==
  /\ plugs < MaxPlugs /\ plugs' = plugs + 1
  /\ d \in attached /\ attached' = attached \ {d} /\ switched' = switched \ {d}
  /\ Tell(<<"left", d>>) /\ refused' = refused \ {d}
  /\ UNCHANGED <<pc, byIds, registered, todo, looping, device, handle>>

-----------------------------------------------------------------------------
(* The program.                                                            *)

libusb_init ==
  /\ pc = "init" /\ pc' \in {"register", "returned"}
  /\ UNCHANGED <<bus, evq, byIds, registered, todo, looping, device, handle, refused>>

(* Mutant: the callback is registered without LIBUSB_HOTPLUG_ENUMERATE.    *)
Register_NoEnumerate ==
  /\ pc = "register"
  /\ \/ registered' = TRUE /\ todo' = {} /\ pc' = "enumerate" /\ UNCHANGED looping
     \/ pc' = "events" /\ looping' = TRUE /\ UNCHANGED <<registered, todo>>
  /\ UNCHANGED <<bus, evq, byIds, device, handle, refused>>

(* Registering calls back for the devices that are there, before it        *)
(* returns.  Its result is not looked at.                                  *)
Register ==
  /\ pc = "register"
  /\ \/ registered' = TRUE /\ todo' = attached /\ pc' = "enumerate" /\ UNCHANGED looping
     \/ pc' = "events" /\ looping' = TRUE /\ UNCHANGED <<registered, todo>>
  /\ UNCHANGED <<bus, evq, byIds, device, handle, refused>>

Enumerated ==
  /\ pc = "enumerate" /\ todo = {} /\ pc' = "events" /\ looping' = TRUE
  /\ UNCHANGED <<bus, evq, byIds, registered, todo, device, handle, refused>>

(* Mutant: only the first device is reported.                             *)
EnumerateDevice_First ==
  /\ pc = "enumerate" /\ pc' = "open"
  /\ \E d \in todo : todo' = {} /\ device' = d
  /\ UNCHANGED <<bus, evq, byIds, registered, looping, handle, refused>>

(* hotplug_callback for a device the enumeration reports.                  *)
EnumerateDevice ==
  /\ pc = "enumerate" /\ pc' = "open"
  /\ \E d \in todo : todo' = todo \ {d} /\ device' = d
  /\ UNCHANGED <<bus, evq, byIds, registered, looping, handle, refused>>

(* libusb_handle_events with the callback: an arrival is handled, a        *)
(* departure only printed.                                                 *)
HandleEvents ==
  /\ pc = "events" /\ evq # << >> /\ evq' = Tail(evq)
  /\ IF registered /\ Head(evq)[1] = "arrived"
     THEN device' = Head(evq)[2] /\ pc' = "open"
     ELSE UNCHANGED <<device, pc>>
  /\ UNCHANGED <<bus, byIds, registered, todo, looping, handle, refused>>

(* The callback returns to the enumeration or to the event loop.           *)
Return ==
  /\ device' = NoDevice
  /\ pc' = IF looping THEN "events" ELSE "enumerate"

(* A handle is NULL when the device has gone or the user has no right to   *)
(* it: the callback returns 0 all the same and stays registered.           *)
OpenFailed ==
  /\ pc = "open" /\ refused' = refused \cup {device} /\ Return
  /\ UNCHANGED <<bus, evq, byIds, registered, todo, looping, handle>>

libusb_open ==
  /\ pc = "open" /\ ~byIds
  /\ device \in attached /\ handle' = device /\ pc' = "transfer"
  /\ UNCHANGED <<bus, evq, byIds, registered, todo, looping, device, refused>>

(* The tool: any device with the vendor and product of the callback's.     *)
libusb_open_device_with_vid_pid ==
  /\ pc = "open" /\ byIds
  /\ \E d \in attached :
       /\ Ids[d] = Ids[device] /\ handle' = d
       /\ refused' = refused \cup ({device} \ {d})
  /\ pc' = "transfer"
  /\ UNCHANGED <<bus, evq, byIds, registered, todo, looping, device>>

(* The vendor request.  A phone that accepts it for the first time may     *)
(* leave the bus and come back in its new mode.  A failure is printed.     *)
TransferDone ==
  /\ pc = "transfer" /\ handle \in attached \cap Phones
  /\ switched' = switched \cup {handle}
  /\ \/ /\ handle \notin switched
        /\ evq' = evq \o << <<"left", handle>>, <<"arrived", handle>> >>
     \/ UNCHANGED evq
  /\ pc' = "close"
  /\ UNCHANGED <<attached, plugs, byIds, registered, todo, looping, device, handle, refused>>

TransferFailed ==
  /\ pc = "transfer" /\ pc' = "close"
  /\ refused' = refused \cup ({handle} \ switched)
  /\ UNCHANGED <<bus, evq, byIds, registered, todo, looping, device, handle>>

Close ==
  /\ pc = "close" /\ handle' = NoDevice /\ Return
  /\ UNCHANGED <<bus, evq, byIds, registered, todo, looping, refused>>

try_to_enable_mirror_link ==
  \/ OpenFailed \/ libusb_open \/ libusb_open_device_with_vid_pid
  \/ TransferDone \/ TransferFailed \/ Close

Run ==
  \/ libusb_init \/ Register \/ EnumerateDevice \/ Enumerated \/ HandleEvents
  \/ try_to_enable_mirror_link

Next == Run \/ \E d \in Devices : Plug(d) \/ Unplug(d)

Spec == Init /\ [][Next]_vars

FairSpec == Spec /\ WF_vars(Run)

-----------------------------------------------------------------------------
(* The bus and the thread's variables keep to their types; a handle is     *)
(* held in the callback only.                                              *)
TypeOK ==
  /\ attached \subseteq Devices /\ switched \subseteq attached /\ plugs \in 0..MaxPlugs
  /\ evq \in Seq({"arrived", "left"} \X Devices)
  /\ pc \in {"init", "register", "enumerate", "events", "open", "transfer", "close",
             "returned"}
  /\ byIds \in BOOLEAN /\ registered \in BOOLEAN /\ todo \subseteq Devices
  /\ looping \in BOOLEAN /\ device \in Devices \cup {NoDevice}
  /\ handle \in Devices \cup {NoDevice} /\ refused \subseteq Devices
  /\ handle # NoDevice <=> pc \in {"transfer", "close"}

(* The tool sends the request of one device to another with its ids.       *)
Confused(d) == byIds /\ \E e \in attached \ {d} : Ids[e] = Ids[d]
=============================================================================
