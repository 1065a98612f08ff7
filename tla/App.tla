-------------------------------- MODULE App ---------------------------------
(***************************************************************************)
(* The client of UI/qt_mainwindow.cpp: MainWindow starts the hot-plug      *)
(* thread (Usb) and the discovery thread (UPnP) and they run side by side. *)
(* What connects them is the phone: one that has accepted the vendor       *)
(* request of the first brings up a network interface, whose address the   *)
(* second is told of and searches.  The window's list gets no rows from    *)
(* either: main.cpp has the emit of addApp commented out.                  *)
(*                                                                         *)
(* Instead of the hot-plug thread the command line tool may run beside the *)
(* client (Usb's byIds).                                                   *)
(***************************************************************************)
EXTENDS UPnP

CONSTANTS Devices, Phones, Ids, NoDevice, MaxPlugs,
  Net   \* the address behind each phone once it has switched

VARIABLES attached, switched, plugs, evq, usb, byIds, registered, todo, looping, device,
          handle, refused

U == INSTANCE Usb WITH pc <- usb

ASSUME AppAssumption == U!UsbConstants /\ Net \in [Phones -> Addrs]

usbVars == <<attached, switched, plugs, evq, usb, byIds, registered, todo, looping, device,
             handle, refused>>
appVars == <<vars, usbVars>>

Behind == {Net[d] : d \in Phones}

(* Phones that were switched before the program started may be on the      *)
(* network already.                                                        *)
AppInit ==
  /\ Init /\ U!Init
  /\ up \cap Behind \subseteq {Net[d] : d \in switched}

-----------------------------------------------------------------------------
(* Phones (not under src/).                                                *)

PhoneUp(d) ==
  /\ pc # "exited"
  /\ d \in switched /\ Net[d] \notin up
  /\ up' = up \cup {Net[d]} /\ Notify(Net[d])
  /\ searched' = searched \ {Net[d]}
  /\ UNCHANGED <<mcast, asked, events, replies, sockets, fails, pc, context, local,
                 heard, mixed, atStart, usbVars>>

(* Its address goes with the phone. *)
Gone(d) ==
  /\ pc # "exited"
  /\ U!Unplug(d)
  /\ \/ d \in switched /\ Net[d] \in up /\ up' = up \ {Net[d]} /\ Notify(NoAddr)
     \/ ~(d \in switched /\ Net[d] \in up) /\ UNCHANGED <<up, nlq, overrun>>
  /\ UNCHANGED <<mcast, asked, events, replies, Thread>>

Plugged(d) == pc # "exited" /\ U!Plug(d) /\ UNCHANGED vars

(* The rest of the network: addresses of other interfaces, answers.        *)
OtherWorld ==
  /\ pc # "exited"
  /\ \/ \E a \in (Addrs \ Behind) : (AddrUp(a) \/ AddrDown(a))
     \/ \E a \in Addrs, t \in Targets : Reply(a, t)
     \/ Stray \/ McastArrive
  /\ UNCHANGED usbVars

-----------------------------------------------------------------------------
(* The two threads.  An exit of the second is one of the whole process,    *)
(* after which nothing matters.                                            *)

USBThread  == pc # "exited" /\ U!Run /\ UNCHANGED vars
UPnPThread == Run /\ UNCHANGED usbVars

AppNext ==
  \/ \E d \in Phones : PhoneUp(d)
  \/ \E d \in Devices : Gone(d) \/ Plugged(d)
  \/ OtherWorld \/ USBThread \/ UPnPThread

(* Both threads run; a phone that has switched brings up its interface.    *)
AppSpec == AppInit /\ [][AppNext]_appVars
AppFairSpec ==
  /\ AppSpec
  /\ WF_appVars(USBThread) /\ WF_appVars(UPnPThread)
  /\ \A d \in Phones : WF_appVars(PhoneUp(d))

-----------------------------------------------------------------------------
(* The hot-plug thread or the tool still has to do with a device: it is to *)
(* be enumerated, its event is queued, or the callback is at it.           *)
Pending(d) ==
  \/ d \in todo
  \/ \E i \in 1..Len(evq) : evq[i] = <<"arrived", d>>
  \/ usb = "open" /\ device = d
  \/ usb = "transfer" /\ handle = d

(* Once the callback is registered no device on the bus is forgotten,      *)
(* whenever it came: before the registration, during the enumeration, in   *)
(* the middle of the callback for another device, or again after it had    *)
(* left.  It is switched, it has been refused, or its turn is to come.     *)
NoDeviceForgotten ==
  registered => \A d \in attached \ (switched \cup refused) : Pending(d)

(* libusb is not there, or took no callback. *)
NoHotplug == usb = "returned" \/ (usb = "events" /\ ~registered)

(* The purpose of the two threads together: a phone that is plugged in and *)
(* not yet switched, while the discovery thread listens, is searched for   *)
(* on the address it brings up.  Nobody has to do anything else and no     *)
(* order of the threads loses it, apart from: the phone is unplugged, the  *)
(* open or the transfer fails or goes to another device, there is no       *)
(* hot-plug, an overrun drops the announcement, the process ends, the      *)
(* discovery thread hangs in a receive call or in an HTTP exchange.        *)
PluggedPhoneSearched ==
  \A d \in Phones :
    (netlink /\ pc # "exited" /\ d \in attached \ switched)
      ~> \/ Net[d] \in up \cap searched
         \/ d \notin attached \/ d \in refused \/ NoHotplug
         \/ overrun \/ pc = "exited" \/ Stalled
=============================================================================
