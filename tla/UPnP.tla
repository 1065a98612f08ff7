-------------------------------- MODULE UPnP --------------------------------
(***************************************************************************)
(* UI/main.cpp and UI/ssdp.cpp: the discovery thread (UPnPThread::run).    *)
(* It opens a netlink socket that reports new interface addresses and a    *)
(* multicast socket, searches for MirrorLink servers on the addresses      *)
(* already there, and then goes round a select loop: a new address opens a *)
(* search socket and sends three M-SEARCH requests from it; a datagram on  *)
(* a search socket stores the location of a service; the list of           *)
(* applications is fetched at the end of a round.                          *)
(*                                                                         *)
(* A datagram is abstracted to what handle_ssdp_resp finds in it: the      *)
(* search target of its ST line and the URL of its Location line, NoLoc if *)
(* there is no line that starts with exactly "Location: ".  No text is     *)
(* terminated before it is parsed: what the parser finds may be of         *)
(* datagrams read before (Seen).                                           *)
(***************************************************************************)
EXTENDS Integers, Sequences, FiniteSets

CONSTANTS
  Addrs,      \* interface addresses behind which a phone may be
  Near,       \* those that start with "192.168.42."
  Locs,       \* URLs of service descriptions
  FdLimit,    \* the largest descriptor the process may open
  MaxNl,      \* capacity of the netlink socket's queue
  MaxEvents,  \* bound: address events after the start
  MaxReplies, \* bound: datagrams sent to the program
  MaxFails,   \* bound: system calls that fail for no reason in the model
  MaxMoves    \* bound: the three together

Netlink   == 1
Multicast == 2
Fds       == 3..FdLimit
Targets   == {"TmApplicationServer", "TmClientProfile", "TmServerDevice"}
NoLoc     == "no location"
Joined    == "joined"       \* a Location line run into the text behind it
Found     == Locs \cup {NoLoc, Joined}
NoAddr    == "no address"   \* a netlink message other than RTM_NEWADDR
Kinds     == Targets \cup {"other", "empty"}
Datagrams == [st : Kinds, loc : Locs \cup {NoLoc}]

(* On the multicast group: requests of others, announcements of servers.   *)
Multicasts == [st : Targets, loc : {NoLoc}] \cup [st : {"other"}, loc : Locs \cup {NoLoc}]

ASSUME UPnPAssumption ==
  /\ Near \subseteq Addrs /\ NoAddr \notin Addrs
  /\ NoLoc \notin Locs /\ Joined \notin Locs
  /\ FdLimit \in Nat /\ FdLimit > 1
  /\ MaxNl \in Nat \ {0} /\ MaxEvents \in Nat /\ MaxReplies \in Nat /\ MaxFails \in Nat
  /\ MaxMoves \in Nat

VARIABLES
  \* the kernel and the network
  up,        \* interface addresses that exist
  nlq,       \* messages queued on the netlink socket
  overrun,   \* a message was dropped since the last recvmsg
  mcast,     \* a datagram is queued on the multicast socket
  open,      \* descriptors in use: search sockets
  bound,     \* those of them that are bound to port 1911
  inq,       \* datagrams queued on each search socket
  asked,     \* M-SEARCH requests on the wire: <<address, target>>
  events, replies, fails,  \* counted against MaxEvents, MaxReplies, MaxFails
  \* the thread
  pc,        \* where run() is
  netlink, multicast,  \* the two sockets were opened
  scan,      \* interface addresses of getifaddrs not yet visited
  clients,   \* context->remoteClients, a list of descriptors
  ready,     \* readfds after select
  walk,      \* the clients from rc on
  tm,        \* context->tm*: the location stored for each target
  serverState, m_server,
  heard,     \* datagrams read so far: what the stack buffers may still hold
  \* history, for the properties
  mixed,     \* what was stored from a text that was not the datagram's alone
  searched,  \* addresses open_ssdp was called with
  atStart    \* addresses getifaddrs returned

network == <<up, nlq, overrun, mcast, asked, events, replies>>
sockets == <<open, bound, inq>>
context == <<clients, tm, serverState, m_server>>
local   == <<netlink, multicast, scan, ready, walk>>
history == <<heard, mixed, searched, atStart>>
vars    == <<network, sockets, fails, pc, context, local, history>>

Init ==
  /\ up \in SUBSET Addrs /\ nlq = << >> /\ overrun = FALSE /\ mcast = FALSE
  /\ open = {} /\ bound = {} /\ inq = [f \in Fds |-> << >>]
  /\ asked = {} /\ events = 0 /\ replies = 0 /\ fails = 0
  /\ pc = "netlink" /\ netlink = FALSE /\ multicast = FALSE
  /\ scan = {} /\ clients = << >> /\ ready = {} /\ walk = << >>
  /\ tm = [t \in Targets |-> NoLoc] /\ serverState = 0 /\ m_server = NoLoc
  /\ heard = {} /\ mixed = {} /\ searched = {} /\ atStart = {}

-----------------------------------------------------------------------------
(* The kernel and the network (not under src/).                            *)

Move == events + replies + fails < MaxMoves

Thread == <<sockets, fails, pc, context, local, history>>

(* A netlink message for every subscriber; a full queue drops it. *)
Notify(e) ==
  /\ nlq' = IF netlink /\ Len(nlq) < MaxNl THEN Append(nlq, e) ELSE nlq
  /\ overrun' = (overrun \/ (netlink /\ Len(nlq) >= MaxNl))

(* An address appears, or is announced again (a renewed lease). *)
AddrUp(a) ==
  /\ events < MaxEvents /\ Move /\ events' = events + 1
  /\ up' = up \cup {a} /\ Notify(a)
  /\ UNCHANGED <<mcast, asked, replies, Thread>>

AddrDown(a) ==
  /\ events < MaxEvents /\ Move /\ events' = events + 1
  /\ a \in up /\ up' = up \ {a} /\ Notify(NoAddr)
  /\ UNCHANGED <<mcast, asked, replies, Thread>>

(* Every search socket is bound to the same port: an answer reaches any    *)
(* one of them.                                                            *)
Arrive(d) ==
  /\ replies < MaxReplies /\ Move /\ replies' = replies + 1
  /\ \E f \in bound : inq' = [inq EXCEPT ![f] = Append(@, d)]
  /\ UNCHANGED <<up, nlq, overrun, mcast, asked, events, open, bound, fails, pc, context,
                 local, history>>

(* A server answers a request: once, several times or never. *)
Reply(a, t) ==
  /\ a \in up /\ <<a, t>> \in asked
  /\ \E l \in Locs \cup {NoLoc} : Arrive([st |-> t, loc |-> l])

Stray ==
  \E k \in {"other", "empty"} : Arrive([st |-> k, loc |-> NoLoc])

McastArrive ==
  /\ replies < MaxReplies /\ Move /\ replies' = replies + 1
  /\ multicast /\ ~mcast /\ mcast' = TRUE
  /\ UNCHANGED <<up, nlq, overrun, asked, events, Thread>>

World ==
  /\ pc # "exited"
  /\ \/ \E a \in Addrs : AddrUp(a) \/ AddrDown(a)
     \/ \E a \in Addrs, t \in Targets : Reply(a, t)
     \/ Stray \/ McastArrive

-----------------------------------------------------------------------------
(* Clients, ssdp.cpp.                                                      *)

(* A system call fails although nothing in the model says so. *)
Fail == fails < MaxFails /\ Move /\ fails' = fails + 1

Exit == pc' = "exited" /\ UNCHANGED <<sockets, asked, clients>>

(* Mutant: the new client replaces the list. *)
add_client_Replaces(f) == clients' = << f >>

add_client(f) == clients' = Append(clients, f)

(* The list without its i-th client. *)
Unlinked(i) == [k \in 1..(Len(clients) - 1) |-> IF k < i THEN clients[k] ELSE clients[k + 1]]

(* Unlinks the first client with descriptor f and closes it; the caller    *)
(* only passes descriptors of the list.                                    *)
remove_client(f) ==
  /\ \E i \in 1..Len(clients) :
       /\ clients[i] = f /\ \A k \in 1..(i - 1) : clients[k] # f
       /\ clients' = Unlinked(i)
  /\ open' = open \ {f} /\ bound' = bound \ {f}
  /\ inq' = [inq EXCEPT ![f] = << >>]

(* The next descriptor: the lowest one that is free. *)
NewFd(f) == f \in Fds \ open /\ \A g \in Fds \ open : f <= g

(* open_ssdp(a), then "next".  No descriptor left or a failing setsockopt  *)
(* ends the process, and so does IP_MULTICAST_IF with an address that is   *)
(* gone by now.  A failing bind returns without closing the socket.  A     *)
(* failing sendto of one of the three requests is only reported.           *)
open_ssdp(a, next) ==
  /\ searched' = searched \cup {a}
  /\ \/ Fail /\ Exit
     \/ Fds \subseteq open /\ Exit /\ UNCHANGED fails
     \/ a \notin up /\ Exit /\ UNCHANGED fails
     \/ \E f \in Fds :
          /\ NewFd(f) /\ Fail
          /\ open' = open \cup {f} /\ pc' = next
          /\ UNCHANGED <<bound, inq, asked, clients>>
     \/ \E f \in Fds :
          /\ NewFd(f) /\ a \in up /\ pc' = next
          /\ open' = open \cup {f} /\ bound' = bound \cup {f}
          /\ inq' = [inq EXCEPT ![f] = << >>]
          /\ \/ asked' = asked \cup ({a} \X Targets) /\ UNCHANGED fails
             \/ Fail /\ \E t \in Targets : asked' = asked \cup ({a} \X (Targets \ {t}))
          /\ add_client(f)

(* What the parser may find when it is given d.  read() does not terminate *)
(* the text: it runs on into what the stack buffer, or the one of the      *)
(* multicast socket in its place, holds of an earlier datagram, and a      *)
(* later ST or Location line overrides an earlier one.  The line at the    *)
(* end of d, if it was not ended, is made one with the text behind it.     *)
Seen(d) ==
  [st  : {d.st, "other"} \cup {e.st : e \in heard},
   loc : {d.loc} \cup ({e.loc : e \in heard} \ {NoLoc})
                 \cup (IF d.loc = NoLoc THEN {} ELSE {Joined})]

(* What is stored was found in s, and what had been received was d.        *)
Mark(d, s) ==
  mixed' = IF s.st \notin Targets THEN mixed
           ELSE IF s = d THEN mixed \ {s.st} ELSE mixed \cup {s.st}

(* Mutant: the location is stored for every target. *)
handle_ssdp_resp_AnyTarget(d) ==
  tm' = IF d.loc # NoLoc THEN [t \in Targets |-> d.loc] ELSE tm

(* The location is stored for the target the answer names, also when the   *)
(* answer has no location.                                                 *)
handle_ssdp_resp(d) ==
  tm' = IF d.st \in Targets THEN [tm EXCEPT ![d.st] = d.loc] ELSE tm

Nothing == [st |-> "other", loc |-> NoLoc]

-----------------------------------------------------------------------------
(* UPnPThread::run.                                                        *)

open_netlink_socket ==
  /\ pc = "netlink" /\ pc' = "multicast"
  /\ \/ netlink' = TRUE /\ UNCHANGED fails
     \/ Fail /\ UNCHANGED netlink
  /\ UNCHANGED <<network, sockets, context, multicast, scan, ready, walk, history>>

open_multicast_socket ==
  /\ pc = "multicast" /\ pc' = "getifaddrs"
  /\ \/ multicast' = TRUE /\ UNCHANGED fails
     \/ Fail /\ UNCHANGED multicast
  /\ UNCHANGED <<network, sockets, context, netlink, scan, ready, walk, history>>

(* The result of getifaddrs is not checked: after a failure the pointer is *)
(* indeterminate, and using it ends the process or shows no address.       *)
GetIfAddrs ==
  /\ pc = "getifaddrs"
  /\ \/ pc' = "scan" /\ scan' = up /\ atStart' = up /\ UNCHANGED fails
     \/ Fail /\ pc' \in {"scan", "exited"} /\ UNCHANGED <<scan, atStart>>
  /\ UNCHANGED <<network, sockets, context, netlink, multicast, ready, walk,
                 heard, mixed, searched>>

(* Mutant: the scan stops at the first address. *)
ScanAddress_First ==
  /\ pc = "scan"
  /\ \E a \in scan :
       /\ scan' = {}
       /\ \/ a \in Near /\ open_ssdp(a, "scan")
          \/ a \notin Near /\ UNCHANGED <<sockets, asked, clients, fails, pc, searched>>
  /\ UNCHANGED <<up, nlq, overrun, mcast, events, replies, tm, serverState, m_server,
                 netlink, multicast, ready, walk, heard, mixed, atStart>>

ScanAddress ==
  /\ pc = "scan"
  /\ \E a \in scan :
       /\ scan' = scan \ {a}
       /\ \/ a \in Near /\ open_ssdp(a, "scan")
          \/ a \notin Near /\ UNCHANGED <<sockets, asked, clients, fails, pc, searched>>
  /\ UNCHANGED <<up, nlq, overrun, mcast, events, replies, tm, serverState, m_server,
                 netlink, multicast, ready, walk, heard, mixed, atStart>>

ScanDone ==
  /\ pc = "scan" /\ scan = {} /\ pc' = "select"
  /\ UNCHANGED <<network, sockets, fails, context, local, history>>

Readable ==
  (IF nlq # << >> \/ overrun THEN {Netlink} ELSE {}) \cup
  (IF mcast THEN {Multicast} ELSE {}) \cup
  {f \in Fds : inq[f] # << >>}

InList(f) == \E i \in 1..Len(clients) : clients[i] = f
Selected  == {Netlink, Multicast} \cup {f \in Fds : InList(f)}

(* FD_SET of the -1 of a socket that was not opened is undefined: the      *)
(* process is ended by the bounds check of the C library, or the bit is    *)
(* not looked at by select.  A select that fails leaves readfds as it was: *)
(* every descriptor looks ready.                                           *)
Select ==
  /\ pc = "select"
  /\ \/ pc' = "on_netlink" /\ ready' = Readable \cap Selected /\ UNCHANGED fails
     \/ pc' = "on_netlink" /\ ready' = Selected /\ Fail
     \/ ~(netlink /\ multicast) /\ pc' = "exited" /\ UNCHANGED <<ready, fails>>
  /\ UNCHANGED <<network, sockets, context, netlink, multicast, scan, walk, history>>

(* Mutant: RTM_NEWADDR does not start a search. *)
on_netlink_event_Ignores ==
  /\ pc = "on_netlink" /\ pc' = "on_multicast"
  /\ \/ Netlink \notin ready /\ UNCHANGED <<nlq, overrun>>
     \/ Netlink \in ready /\ overrun /\ overrun' = FALSE /\ UNCHANGED nlq
     \/ Netlink \in ready /\ ~overrun /\ nlq # << >> /\ nlq' = Tail(nlq) /\ UNCHANGED overrun
  /\ UNCHANGED <<sockets, asked, clients, fails, searched, up, mcast, events, replies,
                 tm, serverState, m_server, local, heard, mixed, atStart>>

(* One message is taken from the netlink socket: nothing to do, a failure  *)
(* (the socket is -1, or messages were dropped), a new address or another  *)
(* message.  With nothing queued recvmsg waits.                            *)
on_netlink_event ==
  /\ pc = "on_netlink"
  /\ \/ /\ Netlink \notin ready \/ ~netlink
        /\ pc' = "on_multicast" /\ UNCHANGED <<nlq, overrun>>
        /\ UNCHANGED <<sockets, asked, clients, fails, searched>>
     \/ /\ Netlink \in ready /\ netlink /\ overrun /\ overrun' = FALSE
        /\ pc' = "on_multicast" /\ UNCHANGED nlq
        /\ UNCHANGED <<sockets, asked, clients, fails, searched>>
     \/ /\ Netlink \in ready /\ netlink /\ ~overrun /\ nlq # << >>
        /\ nlq' = Tail(nlq) /\ UNCHANGED overrun
        /\ \/ Head(nlq) \in Addrs /\ open_ssdp(Head(nlq), "on_multicast")
           \/ /\ Head(nlq) \notin Addrs /\ pc' = "on_multicast"
              /\ UNCHANGED <<sockets, asked, clients, fails, searched>>
  /\ UNCHANGED <<up, mcast, events, replies, tm, serverState, m_server, local,
                 heard, mixed, atStart>>

(* A multicast datagram is printed, no more, but its text stays on the     *)
(* stack.                                                                  *)
OnMulticast ==
  /\ pc = "on_multicast" /\ pc' = "clients"
  /\ \/ (Multicast \notin ready \/ ~multicast) /\ UNCHANGED <<mcast, heard>>
     \/ /\ Multicast \in ready /\ multicast /\ mcast /\ mcast' = FALSE
        /\ \E d \in Multicasts : heard' = heard \cup {d}
  /\ walk' = clients
  /\ UNCHANGED <<up, nlq, overrun, asked, events, replies, sockets, fails, context,
                 netlink, multicast, scan, ready, mixed, searched, atStart>>

(* One client of the list.  An empty datagram removes it, after which the  *)
(* loop reads rc->next of the freed client: what it held, or anything.     *)
(* With nothing queued read() gives up after SO_RCVTIMEO, and the buffer   *)
(* is parsed all the same.                                                 *)
SkipClient ==
  /\ pc = "clients" /\ walk # << >> /\ Head(walk) \notin ready
  /\ walk' = Tail(walk)
  /\ UNCHANGED <<network, sockets, fails, pc, context, netlink, multicast, scan, ready,
                 history>>

Hears(f) == pc = "clients" /\ walk # << >> /\ f = Head(walk) /\ f \in ready

(* Mutant: the walk goes on at the client that was removed. *)
DropClient_Again ==
  /\ \E f \in Fds :
       /\ Hears(f) /\ inq[f] # << >> /\ Head(inq[f]).st = "empty"
       /\ remove_client(f)
       /\ UNCHANGED <<walk, pc>>
  /\ UNCHANGED <<network, fails, tm, serverState, m_server, netlink, multicast, scan,
                 ready, history>>

DropClient ==
  /\ \E f \in Fds :
       /\ Hears(f) /\ inq[f] # << >> /\ Head(inq[f]).st = "empty"
       /\ remove_client(f)
       /\ \/ walk' = Tail(walk) /\ UNCHANGED pc
          \/ walk' = << >> /\ pc' \in {"clients", "exited"}
  /\ UNCHANGED <<network, fails, tm, serverState, m_server, netlink, multicast, scan,
                 ready, history>>

(* Mutant: the client's datagram is not read. *)
ReadClient_NoRead ==
  /\ \E f \in Fds :
       /\ Hears(f) /\ inq[f] # << >> /\ Head(inq[f]).st # "empty"
       /\ UNCHANGED inq
       /\ \E s \in Seen(Head(inq[f])) : handle_ssdp_resp(s) /\ Mark(Head(inq[f]), s)
       /\ heard' = heard \cup {Head(inq[f])}
  /\ walk' = Tail(walk)
  /\ UNCHANGED <<network, open, bound, fails, pc, clients, serverState, m_server,
                 netlink, multicast, scan, ready, searched, atStart>>

ReadClient ==
  /\ \E f \in Fds :
       /\ Hears(f) /\ inq[f] # << >> /\ Head(inq[f]).st # "empty"
       /\ inq' = [inq EXCEPT ![f] = Tail(@)]
       /\ \E s \in Seen(Head(inq[f])) : handle_ssdp_resp(s) /\ Mark(Head(inq[f]), s)
       /\ heard' = heard \cup {Head(inq[f])}
  /\ walk' = Tail(walk)
  /\ UNCHANGED <<network, open, bound, fails, pc, clients, serverState, m_server,
                 netlink, multicast, scan, ready, searched, atStart>>

ReadTimeout ==
  /\ \E f \in Fds :
       /\ Hears(f) /\ inq[f] = << >>
       /\ \E s \in Seen(Nothing) : handle_ssdp_resp(s) /\ Mark(Nothing, s)
  /\ walk' = Tail(walk)
  /\ UNCHANGED <<network, sockets, fails, pc, clients, serverState, m_server,
                 netlink, multicast, scan, ready, heard, searched, atStart>>

(* The end of the round; FD_ZERO clears readfds for the next.  The three   *)
(* arrays of the condition are never null pointers: only serverState       *)
(* decides.  An empty URL yields no server.  With another one the HTTP     *)
(* exchanges of remote_server_create and of the request for the list may   *)
(* wait for ever (conn_read_all has no timeout), and both, like the walk   *)
(* over the list, may use a pointer that is none (RemoteServer): before or *)
(* after there is a server.                                                *)
GetAppList ==
  /\ pc = "clients" /\ walk = << >> /\ serverState = 0
  /\ \E url \in {tm["TmApplicationServer"]} :
       /\ m_server' \in (IF m_server # NoLoc THEN {m_server} ELSE {NoLoc, url})
       /\ \/ pc' = "select" /\ serverState' = 1 /\ ready' = {}
          \/ /\ url # NoLoc \/ m_server # NoLoc
             /\ pc' \in {"hung", "exited"} /\ UNCHANGED <<serverState, ready>>
  /\ mixed' = IF m_server' # m_server /\ "TmApplicationServer" \in mixed
              THEN mixed \cup {"m_server"} ELSE mixed
  /\ UNCHANGED <<network, sockets, fails, clients, tm, netlink, multicast, scan, walk,
                 heard, searched, atStart>>

NextRound ==
  /\ pc = "clients" /\ walk = << >> /\ serverState # 0
  /\ pc' = "select" /\ ready' = {}
  /\ UNCHANGED <<network, sockets, fails, context, netlink, multicast, scan, walk, history>>

Run ==
  \/ open_netlink_socket \/ open_multicast_socket \/ GetIfAddrs \/ ScanAddress \/ ScanDone
  \/ Select \/ on_netlink_event \/ OnMulticast
  \/ SkipClient \/ DropClient \/ ReadClient \/ ReadTimeout \/ GetAppList \/ NextRound

Next == World \/ Run

Spec == Init /\ [][Next]_vars

(* The thread keeps running; what it may wait for without end leads to     *)
(* "hung", or to a receive call that stays disabled (Stalled).             *)
FairSpec == Spec /\ WF_vars(Run)

-----------------------------------------------------------------------------
Pcs == {"netlink", "multicast", "getifaddrs", "scan", "select", "on_netlink",
        "on_multicast", "clients", "exited", "hung"}

(* The context, the descriptor sets and the queues keep to their types. *)
TypeOK ==
  /\ up \subseteq Addrs /\ nlq \in Seq(Addrs \cup {NoAddr}) /\ Len(nlq) <= MaxNl
  /\ overrun \in BOOLEAN /\ mcast \in BOOLEAN
  /\ open \subseteq Fds /\ bound \subseteq open /\ inq \in [Fds -> Seq(Datagrams)]
  /\ asked \subseteq Addrs \X Targets
  /\ events \in 0..MaxEvents /\ replies \in 0..MaxReplies /\ fails \in 0..MaxFails
  /\ pc \in Pcs /\ netlink \in BOOLEAN /\ multicast \in BOOLEAN /\ scan \subseteq Addrs
  /\ clients \in Seq(Fds) /\ walk \in Seq(Fds)
  /\ ready \subseteq {Netlink, Multicast} \cup Fds
  /\ tm \in [Targets -> Found] /\ serverState \in {0, 1} /\ m_server \in Found
  /\ heard \subseteq Datagrams /\ mixed \subseteq Targets \cup {"m_server"}
  /\ searched \subseteq Addrs /\ atStart \subseteq Addrs

(* The list of clients and the sockets agree: every bound search socket is *)
(* in the list, once, and the list holds nothing else, so that no answer   *)
(* arrives on a socket the loop does not select and no closed or reused    *)
(* descriptor is selected.                                                 *)
ClientsAreSockets ==
  /\ \A f \in Fds : f \in bound <=> InList(f)
  /\ \A i, j \in 1..Len(clients) : clients[i] = clients[j] => i = j

(* Although clients are removed while the list is walked, the walk stays   *)
(* on clients that are in the list: rc is never a client that was removed  *)
(* in an earlier step of the round, and no client is visited twice.        *)
WalkIsLive ==
  /\ \A i \in 1..Len(walk) : InList(walk[i])
  /\ \A i, j \in 1..Len(walk) : walk[i] = walk[j] => i = j

(* A stored location was announced by an answer for the same service, and  *)
(* the server in use was created from a location announced for the         *)
(* application server, whatever answers come, repeat or cross; unless the  *)
(* text that was parsed was more than the datagram received, which nothing *)
(* prevents.  Even then the location was read off some datagram, or is one *)
(* that ran into the text behind it.                                       *)
Genuine(name, target, loc) ==
  loc # NoLoc =>
    /\ loc = Joined \/ \E d \in heard : d.loc = loc
    /\ name \notin mixed => [st |-> target, loc |-> loc] \in heard

LocationsGenuine ==
  /\ \A t \in Targets : Genuine(t, t, tm[t])
  /\ Genuine("m_server", "TmApplicationServer", m_server)

(* The application list is requested at most once and from one server:     *)
(* after the attempt no later answer restarts it or swaps the server.      *)
FetchedOnce ==
  [][/\ serverState = 1 => UNCHANGED <<serverState, m_server>>
     /\ m_server # NoLoc => m_server' = m_server]_vars

(* "check if mirrorlink is already started" (main.cpp), as far as the code *)
(* does it: when the loop starts, every address of the 192.168.42 network  *)
(* that was there has been searched.                                       *)
Started == pc \in {"select", "on_netlink", "on_multicast", "clients"}
NearSearched == Started => atStart \cap Near \subseteq searched

(* The same comment for every phone the README lists.                      *)
AlreadyStarted == Started => atStart \subseteq searched

(* "get app list" (main.cpp): the attempt, which is never repeated, is     *)
(* made when the application server's location is known.                   *)
AppListHasLocation ==
  [][serverState' # serverState => tm["TmApplicationServer"] # NoLoc]_vars

(* The thread waits without a timeout: in a receive call, where only a     *)
(* failed select brings it, or in an HTTP exchange of GetAppList with a    *)
(* server that is silent.                                                  *)
Stalled ==
  \/ pc = "on_netlink" /\ Netlink \in ready /\ nlq = << >>
  \/ pc = "on_multicast" /\ Multicast \in ready /\ ~mcast
  \/ pc = "hung"

(* An address the netlink socket has reported is searched, unless the      *)
(* process ends (an address that is gone again, no descriptor, a crash) or *)
(* the thread hangs in a receive call or in an HTTP exchange.              *)
NewAddressSearched ==
  \A a \in Addrs :
    (\E i \in 1..Len(nlq) : nlq[i] = a) ~> (a \in searched \/ pc = "exited" \/ Stalled)

(* An answer that has reached a search socket is read, one per round,      *)
(* however many sockets and events there are, with the same exceptions: a  *)
(* silent server that answers the search is among them.                    *)
AnswersRead ==
  \A f \in Fds : inq[f] # << >> ~> (inq[f] = << >> \/ pc = "exited" \/ Stalled)
=============================================================================
