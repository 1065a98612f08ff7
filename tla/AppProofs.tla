----------------------------- MODULE AppProofs ------------------------------
(***************************************************************************)
(* Proofs about UPnP, the discovery thread, and about App, which runs the  *)
(* hot-plug thread beside it: for every set of addresses, locations and    *)
(* devices, every number of descriptors and all bounds.                    *)
(***************************************************************************)
EXTENDS App, TLAPS

-----------------------------------------------------------------------------
(* The list of clients, the walk and the sockets.                          *)

Sockets == open \subseteq Fds /\ bound \subseteq open
Lists   == clients \in Seq(Fds) /\ walk \in Seq(Fds)
ListInv == Sockets /\ Lists /\ ClientsAreSockets /\ WalkIsLive

(* open_ssdp either leaves list and bound sockets alone or adds a          *)
(* descriptor that was free to both.                                       *)
LEMMA OpenSsdpCases ==
  ASSUME Sockets, NEW a, NEW next, open_ssdp(a, next)
  PROVE  \/ open' \subseteq Fds /\ open \subseteq open' /\ bound' = bound /\ clients' = clients
         \/ \E f \in Fds \ open :
              /\ open' = open \cup {f} /\ bound' = bound \cup {f}
              /\ clients' = Append(clients, f)
  BY DEF open_ssdp, Exit, sockets, NewFd, add_client, Sockets

LEMMA OpenSsdpList ==
  ASSUME ListInv, NEW a, NEW next, open_ssdp(a, next), UNCHANGED walk
  PROVE  ListInv'
<1>1. CASE open' \subseteq Fds /\ open \subseteq open' /\ bound' = bound /\ clients' = clients
  BY <1>1 DEF ListInv, Sockets, Lists, ClientsAreSockets, WalkIsLive, InList
<1>2. CASE \E f \in Fds \ open : /\ open' = open \cup {f} /\ bound' = bound \cup {f}
                                 /\ clients' = Append(clients, f)
  <2>1. PICK f \in Fds \ open : /\ open' = open \cup {f} /\ bound' = bound \cup {f}
                                /\ clients' = Append(clients, f)
    BY <1>2
  <2>2. /\ clients' \in Seq(Fds) /\ Len(clients') = Len(clients) + 1 /\ Len(clients) \in Nat
        /\ clients'[Len(clients) + 1] = f
        /\ \A i \in 1..Len(clients) : clients'[i] = clients[i]
    BY <2>1 DEF ListInv, Lists
  <2>3. \A i \in 1..Len(clients) : clients[i] # f
    BY DEF ListInv, Sockets, ClientsAreSockets, InList
  <2>4. \A g : InList(g)' <=> (InList(g) \/ g = f)
    <3>1. \A g : InList(g)' <=> \E i \in 1..(Len(clients) + 1) : clients'[i] = g
      BY <2>2 DEF InList
    <3>2. 1..(Len(clients) + 1) = 1..Len(clients) \cup {Len(clients) + 1}
      BY <2>2
    <3> QED
      BY <3>1, <3>2, <2>2 DEF InList
  <2>5. ClientsAreSockets'
    <3>1. \A g \in Fds : g \in bound' <=> InList(g)'
      BY <2>1, <2>4 DEF ListInv, ClientsAreSockets
    <3>2. \A i, j \in 1..Len(clients') : clients'[i] = clients'[j] => i = j
      BY <2>2, <2>3 DEF ListInv, ClientsAreSockets
    <3> QED
      BY <3>1, <3>2 DEF ClientsAreSockets
  <2>6. WalkIsLive'
    BY <2>4 DEF ListInv, WalkIsLive
  <2>7. Sockets' /\ Lists'
    BY <2>1, <2>2 DEF ListInv, Sockets, Lists
  <2> QED
    BY <2>5, <2>6, <2>7 DEF ListInv
<1> QED
  BY <1>1, <1>2, OpenSsdpCases DEF ListInv

(* Removing the client the walk stands on. *)
LEMMA RemoveList ==
  ASSUME ListInv, NEW f \in Fds, walk # << >>, f = Head(walk), remove_client(f),
         walk' = Tail(walk) \/ walk' = << >>
  PROVE  ListInv'
<1>1. PICK n \in 1..Len(clients) : clients[n] = f /\ clients' = Unlinked(n)
  BY DEF remove_client
<1>2. open' = open \ {f} /\ bound' = bound \ {f}
  BY DEF remove_client
<1>3. /\ clients' \in Seq(Fds) /\ Len(clients) \in Nat \ {0} /\ Len(clients') = Len(clients) - 1
      /\ \A i \in 1..(Len(clients) - 1) : clients'[i] = IF i < n THEN clients[i] ELSE clients[i + 1]
  BY <1>1 DEF Unlinked, ListInv, Lists
<1>4. \A g : InList(g)' <=> (InList(g) /\ g # f)
  <2>1. ASSUME NEW g, InList(g)' PROVE InList(g) /\ g # f
    <3>1. PICK i \in 1..(Len(clients) - 1) : clients'[i] = g
      BY <2>1, <1>3 DEF InList
    <3>2. CASE i < n
      BY <3>1, <3>2, <1>1, <1>3 DEF InList, ListInv, ClientsAreSockets
    <3>3. CASE i >= n
      BY <3>1, <3>3, <1>1, <1>3 DEF InList, ListInv, ClientsAreSockets
    <3> QED
      BY <3>1, <3>2, <3>3, <1>1
  <2>2. ASSUME NEW g, InList(g), g # f PROVE InList(g)'
    <3>1. PICK i \in 1..Len(clients) : clients[i] = g
      BY <2>2 DEF InList
    <3>2. CASE i < n
      <4>1. i \in 1..(Len(clients) - 1) /\ clients'[i] = g
        BY <3>1, <3>2, <1>1, <1>3
      <4> QED
        BY <4>1, <1>3 DEF InList
    <3>3. CASE i > n
      <4>1. i - 1 \in 1..(Len(clients) - 1) /\ ~(i - 1 < n) /\ (i - 1) + 1 = i
        BY <3>1, <3>3, <1>1, <1>3
      <4>2. clients'[i - 1] = g
        BY <4>1, <3>1, <1>3
      <4> QED
        BY <4>1, <4>2, <1>3 DEF InList
    <3> QED
      BY <3>1, <3>2, <3>3, <2>2, <1>1
  <2> QED
    BY <2>1, <2>2
<1>5. \A i, j \in 1..Len(clients') : clients'[i] = clients'[j] => i = j
  <2> SUFFICES ASSUME NEW i \in 1..(Len(clients) - 1), NEW j \in 1..(Len(clients) - 1),
                      clients'[i] = clients'[j]
               PROVE  i = j
    BY <1>3
  <2>1. \A k, l \in 1..Len(clients) : clients[k] = clients[l] => k = l
    BY DEF ListInv, ClientsAreSockets
  <2>2. i \in 1..Len(clients) /\ j \in 1..Len(clients) /\ i + 1 \in 1..Len(clients)
        /\ j + 1 \in 1..Len(clients)
    BY <1>3
  <2> QED
    BY <1>1, <1>3, <2>1, <2>2
<1>6. ClientsAreSockets'
  BY <1>2, <1>4, <1>5 DEF ListInv, ClientsAreSockets
<1>7. /\ Tail(walk) \in Seq(Fds) /\ Len(walk) \in Nat \ {0} /\ Len(Tail(walk)) = Len(walk) - 1
      /\ walk[1] = f
      /\ \A i \in 1..(Len(walk) - 1) : Tail(walk)[i] = walk[i + 1]
  BY DEF ListInv, Lists
<1>8. WalkIsLive'
  <2>1. CASE walk' = Tail(walk)
    <3>1. \A i \in 1..Len(walk') : \E j \in 1..Len(clients') : clients'[j] = walk'[i]
      <4> SUFFICES ASSUME NEW i \in 1..(Len(walk) - 1)
                   PROVE  \E j \in 1..Len(clients') : clients'[j] = walk[i + 1]
        BY <2>1, <1>7
      <4>1. i + 1 \in 1..Len(walk) /\ 1 \in 1..Len(walk) /\ i + 1 # 1
        BY <1>7
      <4>2. InList(walk[i + 1]) /\ walk[i + 1] # f
        BY <4>1, <1>7 DEF ListInv, WalkIsLive
      <4>3. \A g : (InList(g) /\ g # f) => \E j \in 1..Len(clients') : clients'[j] = g
        BY <1>4 DEF InList
      <4> QED
        BY <4>2, <4>3
    <3>2. \A i, j \in 1..Len(walk') : walk'[i] = walk'[j] => i = j
      <4> SUFFICES ASSUME NEW i \in 1..(Len(walk) - 1), NEW j \in 1..(Len(walk) - 1),
                          walk[i + 1] = walk[j + 1]
                   PROVE  i = j
        BY <2>1, <1>7
      <4>1. i + 1 \in 1..Len(walk) /\ j + 1 \in 1..Len(walk)
        BY <1>7
      <4>2. i + 1 = j + 1
        BY <4>1 DEF ListInv, WalkIsLive
      <4> QED
        BY <4>2
    <3> QED
      BY <3>1, <3>2 DEF WalkIsLive, InList
  <2>2. CASE walk' = << >>
    BY <2>2 DEF WalkIsLive
  <2> QED
    BY <2>1, <2>2
<1>9. walk' \in Seq(Fds)
  <2>1. << >> \in Seq(Fds)
    OBVIOUS
  <2> QED
    BY <1>7, <2>1
<1>10. Sockets' /\ Lists'
  BY <1>2, <1>3, <1>9 DEF ListInv, Sockets, Lists
<1> QED
  BY <1>6, <1>8, <1>10 DEF ListInv

(* The walk goes on to the next client. *)
LEMMA TailList ==
  ASSUME ListInv, walk # << >>, walk' = Tail(walk), UNCHANGED <<open, bound, clients>>
  PROVE  ListInv'
<1>1. /\ walk' \in Seq(Fds) /\ Len(walk) \in Nat \ {0} /\ Len(walk') = Len(walk) - 1
      /\ \A i \in 1..(Len(walk) - 1) : walk'[i] = walk[i + 1]
  BY DEF ListInv, Lists
<1>2. \A i \in 1..Len(walk') : i + 1 \in 1..Len(walk) /\ walk'[i] = walk[i + 1]
  BY <1>1
<1>3. \A i \in 1..Len(walk') : \E j \in 1..Len(clients) : clients[j] = walk'[i]
  BY <1>2 DEF ListInv, WalkIsLive, InList
<1>4. \A i, j \in 1..Len(walk') : walk'[i] = walk'[j] => i = j
  <2> SUFFICES ASSUME NEW i \in 1..Len(walk'), NEW j \in 1..Len(walk'), walk'[i] = walk'[j]
               PROVE  i = j
    OBVIOUS
  <2>1. walk[i + 1] = walk[j + 1] /\ i + 1 \in 1..Len(walk) /\ j + 1 \in 1..Len(walk)
    BY <1>2
  <2>2. i + 1 = j + 1
    BY <2>1 DEF ListInv, WalkIsLive
  <2> QED
    BY <1>1, <2>2
<1>5. WalkIsLive'
  BY <1>3, <1>4 DEF WalkIsLive, InList
<1> QED
  BY <1>1, <1>5 DEF ListInv, Sockets, Lists, ClientsAreSockets, InList

LEMMA ListNext == ListInv /\ [Next]_vars => ListInv'
<1> SUFFICES ASSUME ListInv, [Next]_vars PROVE ListInv'
  OBVIOUS
<1>1. CASE UNCHANGED <<open, bound, clients, walk>>
  BY <1>1 DEF ListInv, Sockets, Lists, ClientsAreSockets, WalkIsLive, InList
<1>2. CASE World
  <2>1. UNCHANGED <<open, bound, clients, walk>>
    BY <1>2 DEF World, AddrUp, AddrDown, Reply, Stray, McastArrive, Arrive, Thread, sockets,
                context, local
  <2> QED
    BY <1>1, <2>1
<1>3. CASE open_netlink_socket \/ open_multicast_socket \/ GetIfAddrs \/ ScanDone \/ Select
           \/ GetAppList \/ NextRound
  <2>1. UNCHANGED <<open, bound, clients, walk>>
    BY <1>3 DEF open_netlink_socket, open_multicast_socket, GetIfAddrs, ScanDone, Select,
                GetAppList, NextRound, sockets, context, local
  <2> QED
    BY <1>1, <2>1
<1>4. CASE ScanAddress
  <2>1. walk' = walk /\ \/ \E a \in scan : open_ssdp(a, "scan")
                        \/ UNCHANGED <<open, bound, clients>>
    BY <1>4 DEF ScanAddress, sockets
  <2> QED
    BY <1>1, <2>1, OpenSsdpList
<1>5. CASE on_netlink_event
  <2>1. walk' = walk /\ \/ open_ssdp(Head(nlq), "on_multicast")
                        \/ UNCHANGED <<open, bound, clients>>
    BY <1>5 DEF on_netlink_event, sockets, local
  <2> QED
    BY <1>1, <2>1, OpenSsdpList
<1>6. CASE OnMulticast
  <2>1. walk' = clients /\ UNCHANGED <<open, bound, clients>>
    BY <1>6 DEF OnMulticast, sockets, context
  <2> QED
    BY <2>1 DEF ListInv, Sockets, Lists, ClientsAreSockets, WalkIsLive, InList
<1>7. CASE SkipClient \/ ReadClient \/ ReadTimeout
  <2>1. walk # << >> /\ walk' = Tail(walk) /\ UNCHANGED <<open, bound, clients>>
    BY <1>7 DEF SkipClient, ReadClient, ReadTimeout, Hears, sockets, context
  <2> QED
    BY <2>1, TailList
<1>8. CASE DropClient
  BY <1>8, RemoveList DEF DropClient, Hears
<1>9. CASE UNCHANGED vars
  BY <1>1, <1>9 DEF vars, sockets, context, local
<1> QED
  BY <1>2, <1>3, <1>4, <1>5, <1>6, <1>7, <1>8, <1>9 DEF Next, Run

LEMMA ListInit == Init => ListInv
  BY DEF Init, ListInv, Sockets, Lists, ClientsAreSockets, WalkIsLive, InList

(* For any number of interfaces, answers and failures, the bound search    *)
(* sockets are exactly the clients of remoteClients, each listed once:     *)
(* add_client and remove_client never lose or repeat one, although         *)
(* descriptors are reused.                                                 *)
THEOREM UPnPClientsAreSockets == Spec => []ClientsAreSockets
<1>1. Spec => []ListInv
  BY ListInit, ListNext, PTL DEF Spec
<1>2. ListInv => ClientsAreSockets
  BY DEF ListInv
<1> QED
  BY <1>1, <1>2, PTL

(* The loop over remoteClients in UPnPThread::run never stands on a client *)
(* that an earlier step of the same round removed.                         *)
THEOREM UPnPWalkIsLive == Spec => []WalkIsLive
<1>1. Spec => []ListInv
  BY ListInit, ListNext, PTL DEF Spec
<1>2. ListInv => WalkIsLive
  BY DEF ListInv
<1> QED
  BY <1>1, <1>2, PTL

-----------------------------------------------------------------------------
(* Type correctness, in parts.                                             *)

FlagType ==
  /\ overrun \in BOOLEAN /\ mcast \in BOOLEAN
  /\ netlink \in BOOLEAN /\ multicast \in BOOLEAN

NetType ==
  /\ up \subseteq Addrs /\ nlq \in Seq(Addrs \cup {NoAddr}) /\ Len(nlq) <= MaxNl
  /\ asked \subseteq Addrs \X Targets
  /\ events \in 0..MaxEvents /\ replies \in 0..MaxReplies /\ fails \in 0..MaxFails

ThreadType ==
  /\ pc \in Pcs /\ scan \subseteq Addrs /\ ready \subseteq {Netlink, Multicast} \cup Fds
  /\ searched \subseteq Addrs /\ atStart \subseteq Addrs

ContextType ==
  /\ inq \in [Fds -> Seq(Datagrams)] /\ heard \subseteq Datagrams
  /\ tm \in [Targets -> Found] /\ serverState \in {0, 1} /\ m_server \in Found
  /\ mixed \subseteq Targets \cup {"m_server"}

TypeInv == FlagType /\ NetType /\ ThreadType /\ ContextType

LEMMA OpenSsdpType ==
  ASSUME TypeInv, NEW a \in Addrs, NEW next \in Pcs, open_ssdp(a, next)
  PROVE  /\ asked' \subseteq Addrs \X Targets /\ fails' \in 0..MaxFails
         /\ inq' \in [Fds -> Seq(Datagrams)]
         /\ pc' \in Pcs /\ searched' \subseteq Addrs
<1> USE UPnPAssumption
<1>1. asked' \subseteq Addrs \X Targets
  BY DEF open_ssdp, Exit, TypeInv, NetType
<1>2. fails' \in 0..MaxFails
  BY DEF open_ssdp, Fail, TypeInv, NetType
<1>3. inq' \in [Fds -> Seq(Datagrams)]
  <2>1. << >> \in Seq(Datagrams)
    OBVIOUS
  <2>2. inq' = inq \/ \E f \in Fds : inq' = [inq EXCEPT ![f] = << >>]
    BY DEF open_ssdp, Exit, sockets
  <2> QED
    BY <2>1, <2>2 DEF TypeInv, ContextType
<1>4. pc' \in Pcs
  BY DEF open_ssdp, Exit, Pcs
<1>5. searched' \subseteq Addrs
  BY DEF open_ssdp, TypeInv, ThreadType
<1> QED
  BY <1>1, <1>2, <1>3, <1>4, <1>5

LEMMA NotifyType ==
  ASSUME TypeInv, NEW e \in Addrs \cup {NoAddr}, Notify(e)
  PROVE  /\ nlq' \in Seq(Addrs \cup {NoAddr}) /\ Len(nlq') <= MaxNl
         /\ overrun' \in BOOLEAN
<1>1. nlq' = nlq \/ (Len(nlq) < MaxNl /\ nlq' = Append(nlq, e))
  BY DEF Notify
<1>2. nlq' \in Seq(Addrs \cup {NoAddr}) /\ Len(nlq') <= MaxNl
  BY <1>1, UPnPAssumption DEF TypeInv, NetType
<1>3. overrun' \in BOOLEAN
  BY Zenon DEF Notify
<1> QED
  BY <1>2, <1>3

LEMMA SeenType ==
  ASSUME NEW d \in Datagrams, heard \subseteq Datagrams
  PROVE  Seen(d) \subseteq [st : Kinds, loc : Found]
  BY DEF Seen, Datagrams, Kinds, Found

LEMMA HandleType ==
  ASSUME TypeInv, NEW d, NEW s \in [st : Kinds, loc : Found], handle_ssdp_resp(s), Mark(d, s)
  PROVE  tm' \in [Targets -> Found] /\ mixed' \subseteq Targets \cup {"m_server"}
  BY DEF handle_ssdp_resp, Mark, TypeInv, ContextType

LEMMA ArriveType ==
  ASSUME TypeInv, Sockets, NEW d \in Datagrams, Arrive(d)
  PROVE  TypeInv'
<1> USE UPnPAssumption
<1>1. inq' \in [Fds -> Seq(Datagrams)] /\ replies' \in 0..MaxReplies
  BY DEF Arrive, TypeInv, ContextType, NetType, Sockets
<1>2. UNCHANGED <<up, nlq, overrun, mcast, asked, events, fails, pc, tm, serverState, m_server,
                  netlink, multicast, scan, ready, heard, mixed, searched, atStart>>
  BY DEF Arrive, context, local, history
<1>3. FlagType'
  BY <1>2, Zenon DEF TypeInv, FlagType
<1> QED
  BY <1>1, <1>2, <1>3 DEF TypeInv, NetType, ThreadType, ContextType

LEMMA WorldType ==
  ASSUME TypeInv, Sockets, World
  PROVE  TypeInv'
<1> USE UPnPAssumption
<1>1. ASSUME NEW a \in Addrs, AddrUp(a) \/ AddrDown(a) PROVE TypeInv'
  <2>1. up' \subseteq Addrs /\ events' \in 0..MaxEvents /\ \E e \in Addrs \cup {NoAddr} : Notify(e)
    BY <1>1 DEF AddrUp, AddrDown, TypeInv, NetType
  <2>2. UNCHANGED <<mcast, asked, replies, inq, fails, pc, tm, serverState, m_server,
                    netlink, multicast, scan, ready, heard, mixed, searched, atStart>>
    BY <1>1 DEF AddrUp, AddrDown, Thread, sockets, context, local, history
  <2>3. FlagType'
    BY <2>1, <2>2, NotifyType, Zenon DEF TypeInv, FlagType
  <2> QED
    BY <2>1, <2>2, <2>3, NotifyType DEF TypeInv, NetType, ThreadType, ContextType
<1>2. ASSUME NEW a \in Addrs, NEW t \in Targets, Reply(a, t) PROVE TypeInv'
  <2>1. \E l \in Locs \cup {NoLoc} : Arrive([st |-> t, loc |-> l])
    BY <1>2 DEF Reply
  <2>2. \A l \in Locs \cup {NoLoc} : [st |-> t, loc |-> l] \in Datagrams
    BY DEF Datagrams, Kinds
  <2> QED
    BY <2>1, <2>2, ArriveType
<1>3. CASE Stray
  <2>1. \A k \in {"other", "empty"} : [st |-> k, loc |-> NoLoc] \in Datagrams
    BY DEF Datagrams, Kinds
  <2> QED
    BY <1>3, <2>1, ArriveType DEF Stray
<1>4. CASE McastArrive
  <2>1. mcast' = TRUE /\ replies' \in 0..MaxReplies
    BY <1>4 DEF McastArrive, TypeInv, NetType
  <2>2. UNCHANGED <<up, nlq, overrun, asked, events, inq, fails, pc, tm, serverState, m_server,
                    netlink, multicast, scan, ready, heard, mixed, searched, atStart>>
    BY <1>4 DEF McastArrive, Thread, sockets, context, local, history
  <2>3. FlagType'
    BY <2>1, <2>2, Zenon DEF TypeInv, FlagType
  <2> QED
    BY <2>1, <2>2, <2>3 DEF TypeInv, NetType, ThreadType, ContextType
<1> QED
  BY <1>1, <1>2, <1>3, <1>4 DEF World

(* The steps that leave the network, the queues and the context alone. *)
LEMMA SetupType ==
  ASSUME TypeInv, open_netlink_socket \/ open_multicast_socket \/ GetIfAddrs \/ ScanDone \/ Select
  PROVE  TypeInv'
<1> USE UPnPAssumption
<1>1. UNCHANGED <<up, nlq, overrun, mcast, asked, events, replies, inq, tm, serverState, m_server,
                  heard, mixed, searched>>
  BY DEF open_netlink_socket, open_multicast_socket, GetIfAddrs, ScanDone, Select,
         network, sockets, context, history
<1>2. fails' \in 0..MaxFails
  BY DEF open_netlink_socket, open_multicast_socket, GetIfAddrs, ScanDone, Select, Fail,
         TypeInv, NetType
<1>3. pc' \in Pcs
  BY DEF open_netlink_socket, open_multicast_socket, GetIfAddrs, ScanDone, Select, Pcs
<1>4. scan' \subseteq Addrs /\ atStart' \subseteq Addrs
  BY DEF open_netlink_socket, open_multicast_socket, GetIfAddrs, ScanDone, Select,
         TypeInv, NetType, ThreadType, local, history
<1>5. ready' \subseteq {Netlink, Multicast} \cup Fds
  BY DEF open_netlink_socket, open_multicast_socket, GetIfAddrs, ScanDone, Select,
         Selected, Readable, TypeInv, ThreadType, local
<1>6. (netlink' = netlink \/ netlink' = TRUE) /\ (multicast' = multicast \/ multicast' = TRUE)
  BY DEF open_netlink_socket, open_multicast_socket, GetIfAddrs, ScanDone, Select, local
<1>7. FlagType'
  BY <1>1, <1>6, Zenon DEF TypeInv, FlagType
<1> QED
  BY <1>1, <1>2, <1>3, <1>4, <1>5, <1>7 DEF TypeInv, NetType, ThreadType, ContextType

(* The two steps that call open_ssdp. *)
LEMMA SearchType ==
  ASSUME TypeInv, ScanAddress \/ on_netlink_event
  PROVE  TypeInv'
<1> USE UPnPAssumption
<1>1. \/ \E a \in Addrs, next \in Pcs : open_ssdp(a, next)
      \/ pc' \in Pcs /\ UNCHANGED <<inq, asked, fails, searched>>
  BY DEF ScanAddress, on_netlink_event, sockets, Pcs, TypeInv, ThreadType
<1>2. /\ asked' \subseteq Addrs \X Targets /\ fails' \in 0..MaxFails
      /\ inq' \in [Fds -> Seq(Datagrams)]
      /\ pc' \in Pcs /\ searched' \subseteq Addrs
  BY <1>1, OpenSsdpType DEF TypeInv, NetType, ThreadType, ContextType
<1>3. UNCHANGED <<up, mcast, events, replies, tm, serverState, m_server, netlink, multicast, ready,
                  heard, mixed, atStart>>
  BY DEF ScanAddress, on_netlink_event, local
<1>4. scan' \subseteq Addrs
  BY DEF ScanAddress, on_netlink_event, local, TypeInv, ThreadType
<1>5. (nlq' = nlq \/ (nlq # << >> /\ nlq' = Tail(nlq))) /\ (overrun' = overrun \/ overrun' = FALSE)
  BY DEF ScanAddress, on_netlink_event
<1>6. nlq' \in Seq(Addrs \cup {NoAddr}) /\ Len(nlq') <= MaxNl
  BY <1>5 DEF TypeInv, NetType
<1>7. FlagType'
  BY <1>3, <1>5, Zenon DEF TypeInv, FlagType
<1> QED
  BY <1>2, <1>3, <1>4, <1>6, <1>7 DEF TypeInv, NetType, ThreadType, ContextType

(* The rest of a round. *)
LEMMA RoundType ==
  ASSUME TypeInv, OnMulticast \/ SkipClient \/ DropClient \/ ReadClient \/ ReadTimeout
                  \/ GetAppList \/ NextRound
  PROVE  TypeInv'
<1> USE UPnPAssumption
<1>1. UNCHANGED <<up, nlq, overrun, asked, events, replies, fails, netlink, multicast, scan,
                  searched, atStart>>
  BY DEF OnMulticast, SkipClient, DropClient, ReadClient, ReadTimeout, GetAppList, NextRound,
         network, local, history
<1>2. pc' \in Pcs /\ ready' \subseteq {Netlink, Multicast} \cup Fds
  BY DEF OnMulticast, SkipClient, DropClient, ReadClient, ReadTimeout, GetAppList, NextRound,
         Pcs, TypeInv, ThreadType
<1>3. mcast' = mcast \/ mcast' = FALSE
  BY DEF OnMulticast, SkipClient, DropClient, ReadClient, ReadTimeout, GetAppList, NextRound,
         network
<1>4. FlagType'
  BY <1>1, <1>3, Zenon DEF TypeInv, FlagType
<1>5. /\ serverState' \in {0, 1} /\ m_server' \in Found
  BY DEF OnMulticast, SkipClient, DropClient, ReadClient, ReadTimeout, GetAppList, NextRound,
         context, TypeInv, ContextType, Targets
<1>6. inq' \in [Fds -> Seq(Datagrams)] /\ heard' \subseteq Datagrams
      /\ tm' \in [Targets -> Found] /\ mixed' \subseteq Targets \cup {"m_server"}
  <2>1. CASE SkipClient \/ GetAppList \/ NextRound
    <3>1. inq' = inq /\ heard' = heard /\ tm' = tm /\ mixed' \subseteq mixed \cup {"m_server"}
      BY <2>1 DEF SkipClient, GetAppList, NextRound, sockets, context, history
    <3> QED
      BY <3>1 DEF TypeInv, ContextType
  <2>5. CASE OnMulticast
    <3>1. Multicasts \subseteq Datagrams
      BY DEF Multicasts, Datagrams, Kinds
    <3>2. /\ inq' = inq /\ tm' = tm /\ mixed' = mixed
          /\ heard' = heard \/ \E d \in Multicasts : heard' = heard \cup {d}
      BY <2>5 DEF OnMulticast, sockets, context
    <3> QED
      BY <3>1, <3>2 DEF TypeInv, ContextType
  <2>2. CASE DropClient
    <3>1. << >> \in Seq(Datagrams)
      OBVIOUS
    <3>2. /\ heard' = heard /\ tm' = tm /\ mixed' = mixed
          /\ \E f \in Fds : inq' = [inq EXCEPT ![f] = << >>]
      BY <2>2 DEF DropClient, remove_client, history
    <3> QED
      BY <3>1, <3>2 DEF TypeInv, ContextType
  <2>3. CASE ReadClient
    <3>1. PICK f \in Fds : /\ inq[f] # << >> /\ inq' = [inq EXCEPT ![f] = Tail(@)]
                           /\ \E s \in Seen(Head(inq[f])) :
                                handle_ssdp_resp(s) /\ Mark(Head(inq[f]), s)
                           /\ heard' = heard \cup {Head(inq[f])}
      BY <2>3 DEF ReadClient
    <3>2. inq[f] \in Seq(Datagrams) /\ Head(inq[f]) \in Datagrams /\ Tail(inq[f]) \in Seq(Datagrams)
      BY <3>1 DEF TypeInv, ContextType
    <3>3. tm' \in [Targets -> Found] /\ mixed' \subseteq Targets \cup {"m_server"}
      BY <3>1, <3>2, SeenType, HandleType DEF TypeInv, ContextType
    <3> QED
      BY <3>1, <3>2, <3>3 DEF TypeInv, ContextType
  <2>4. CASE ReadTimeout
    <3>1. /\ inq' = inq /\ heard' = heard
          /\ \E s \in Seen(Nothing) : handle_ssdp_resp(s) /\ Mark(Nothing, s)
      BY <2>4 DEF ReadTimeout, sockets, history
    <3>2. Nothing \in Datagrams
      BY DEF Nothing, Datagrams, Kinds
    <3> QED
      BY <3>1, <3>2, SeenType, HandleType DEF TypeInv, ContextType
  <2> QED
    BY <2>1, <2>2, <2>3, <2>4, <2>5
<1> QED
  BY <1>1, <1>2, <1>4, <1>5, <1>6 DEF TypeInv, NetType, ThreadType, ContextType

LEMMA TypeStutter ==
  ASSUME TypeInv, UNCHANGED vars
  PROVE  TypeInv'
<1>1. UNCHANGED <<up, nlq, overrun, mcast, asked, events, replies, fails, pc, inq, tm, serverState,
                  m_server, netlink, multicast, scan, ready, heard, mixed, searched, atStart>>
  BY DEF vars, network, sockets, context, local, history
<1>2. FlagType'
  BY <1>1, Zenon DEF TypeInv, FlagType
<1> QED
  BY <1>1, <1>2 DEF TypeInv, NetType, ThreadType, ContextType

LEMMA TypeNext == TypeInv /\ ListInv /\ [Next]_vars => TypeInv'
<1> SUFFICES ASSUME TypeInv, ListInv, [Next]_vars PROVE TypeInv'
  OBVIOUS
<1>1. Sockets
  BY DEF ListInv
<1> QED
  BY <1>1, WorldType, SetupType, SearchType, RoundType, TypeStutter DEF Next, Run

LEMMA TypeInit == Init => TypeInv
<1> SUFFICES ASSUME Init PROVE TypeInv
  OBVIOUS
<1> USE UPnPAssumption
<1>1. FlagType
  BY DEF Init, FlagType
<1>2. NetType /\ ThreadType
  BY DEF Init, NetType, ThreadType, Pcs
<1>3. ContextType
  <2>1. << >> \in Seq(Datagrams)
    OBVIOUS
  <2> QED
    BY <2>1 DEF Init, ContextType, Found
<1> QED
  BY <1>1, <1>2, <1>3 DEF TypeInv

(* The context, the descriptor sets and the queues of the discovery thread *)
(* keep to their types.                                                    *)
THEOREM UPnPTypeOK == Spec => []TypeOK
<1>1. Spec => [](TypeInv /\ ListInv)
  BY TypeInit, TypeNext, ListInit, ListNext, PTL DEF Spec
<1>2. TypeInv /\ ListInv => TypeOK
  BY DEF TypeInv, FlagType, NetType, ThreadType, ContextType, ListInv, Sockets, Lists, TypeOK
<1> QED
  BY <1>1, <1>2, PTL

-----------------------------------------------------------------------------
(* Locations.                                                              *)

(* Storing what was found in a text: what is stored was read before, and  *)
(* is marked unless the text was the datagram.                             *)
LEMMA StoreGenuine ==
  ASSUME TypeInv, LocationsGenuine, NEW d \in Datagrams, NEW s \in Seen(d),
         handle_ssdp_resp(s), Mark(d, s), m_server' = m_server, heard \subseteq heard',
         d.loc # NoLoc => d \in heard'
  PROVE  LocationsGenuine'
<1>1. s = d => d = [st |-> s.st, loc |-> s.loc]
  BY DEF Datagrams
<1>2. s.loc \in {NoLoc, Joined} \/ \E e \in heard' : e.loc = s.loc
  BY DEF Seen
<1>3. ASSUME NEW t \in Targets PROVE Genuine(t, t, tm[t])'
  <2>1. CASE s.st = t
    <3>1. tm'[t] = s.loc /\ (t \notin mixed' => s = d)
      BY <2>1 DEF handle_ssdp_resp, Mark, TypeInv, ContextType
    <3>2. tm'[t] # NoLoc /\ t \notin mixed' => [st |-> t, loc |-> tm'[t]] \in heard'
      BY <1>1, <2>1, <3>1
    <3> QED
      BY <1>2, <3>1, <3>2 DEF Genuine
  <2>2. CASE s.st # t
    <3>1. tm'[t] = tm[t] /\ (t \notin mixed' => t \notin mixed)
      BY <2>2 DEF handle_ssdp_resp, Mark, TypeInv, ContextType
    <3>2. Genuine(t, t, tm[t])
      BY DEF LocationsGenuine
    <3> QED
      BY <3>1, <3>2 DEF Genuine
  <2> QED
    BY <2>1, <2>2
<1>4. Genuine("m_server", "TmApplicationServer", m_server)'
  <2>1. "m_server" \notin mixed' => "m_server" \notin mixed
    BY DEF Mark, Targets
  <2> QED
    BY <2>1 DEF LocationsGenuine, Genuine
<1> QED
  BY <1>3, <1>4 DEF LocationsGenuine

LEMMA LocationsNext ==
  ASSUME TypeInv, LocationsGenuine, [Next]_vars
  PROVE  LocationsGenuine'
<1>1. ASSUME UNCHANGED <<tm, m_server, mixed>>, heard \subseteq heard' PROVE LocationsGenuine'
  BY <1>1 DEF LocationsGenuine, Genuine
<1>2. CASE World \/ UNCHANGED vars \/ open_netlink_socket \/ open_multicast_socket \/ GetIfAddrs
           \/ ScanAddress \/ ScanDone \/ Select \/ on_netlink_event \/ OnMulticast \/ SkipClient
           \/ DropClient \/ NextRound
  <2>1. UNCHANGED <<tm, m_server, mixed>> /\ heard \subseteq heard'
    <3>1. CASE World
      BY <3>1 DEF World, AddrUp, AddrDown, Reply, Stray, McastArrive, Arrive, Thread, context,
                  history
    <3>2. CASE UNCHANGED vars
      BY <3>2 DEF vars, context, history
    <3>3. CASE OnMulticast
      BY <3>3 DEF OnMulticast, context
    <3> QED
      BY <1>2, <3>1, <3>2, <3>3 DEF open_netlink_socket, open_multicast_socket, GetIfAddrs,
        ScanAddress, ScanDone, Select, on_netlink_event, SkipClient, DropClient, NextRound,
        context, history
  <2> QED
    BY <1>1, <2>1
<1>3. CASE ReadClient
  <2>1. PICK f \in Fds : /\ inq[f] # << >>
                         /\ \E s \in Seen(Head(inq[f])) :
                              handle_ssdp_resp(s) /\ Mark(Head(inq[f]), s)
                         /\ heard' = heard \cup {Head(inq[f])}
    BY <1>3 DEF ReadClient
  <2>2. Head(inq[f]) \in Datagrams
    BY <2>1 DEF TypeInv, ContextType
  <2>3. m_server' = m_server
    BY <1>3 DEF ReadClient
  <2> QED
    BY <2>1, <2>2, <2>3, StoreGenuine
<1>4. CASE ReadTimeout
  <2>1. /\ heard' = heard /\ m_server' = m_server
        /\ \E s \in Seen(Nothing) : handle_ssdp_resp(s) /\ Mark(Nothing, s)
    BY <1>4 DEF ReadTimeout
  <2>2. Nothing \in Datagrams /\ Nothing.loc = NoLoc
    BY DEF Nothing, Datagrams, Kinds
  <2> QED
    BY <2>1, <2>2, StoreGenuine
<1>5. CASE GetAppList
  <2>1. /\ UNCHANGED <<tm, heard>> /\ "TmApplicationServer" \in Targets
        /\ m_server' \in {m_server, NoLoc, tm["TmApplicationServer"]}
        /\ mixed \subseteq mixed' /\ mixed' \subseteq mixed \cup {"m_server"}
        /\ m_server' # m_server /\ "TmApplicationServer" \in mixed => "m_server" \in mixed'
    BY <1>5 DEF GetAppList, Targets
  <2>2. \A t \in Targets : Genuine(t, t, tm[t])'
    BY <2>1 DEF LocationsGenuine, Genuine, Targets
  <2>3. Genuine("m_server", "TmApplicationServer", m_server)'
    <3>1. Genuine("m_server", "TmApplicationServer", m_server)
      BY DEF LocationsGenuine
    <3>2. Genuine("TmApplicationServer", "TmApplicationServer", tm["TmApplicationServer"])
      BY <2>1 DEF LocationsGenuine
    <3> QED
      BY <2>1, <3>1, <3>2 DEF Genuine
  <2> QED
    BY <2>2, <2>3 DEF LocationsGenuine
<1> QED
  BY <1>2, <1>3, <1>4, <1>5 DEF Next, Run

(* Whatever answers come, repeat or cross: a location handle_ssdp_resp has *)
(* stored, and the one the server was created from, was read off some      *)
(* datagram or ran into the text behind it; and where the text parsed was  *)
(* the datagram alone, it came in an answer for that very service.         *)
THEOREM UPnPLocationsGenuine == Spec => []LocationsGenuine
<1>1. Spec => [](TypeInv /\ ListInv)
  BY TypeInit, TypeNext, ListInit, ListNext, PTL DEF Spec
<1>2. Init => LocationsGenuine
  BY DEF Init, LocationsGenuine, Genuine
<1>3. TypeInv /\ LocationsGenuine /\ [Next]_vars => LocationsGenuine'
  BY LocationsNext
<1> QED
  BY <1>1, <1>2, <1>3, PTL DEF Spec

(* The one attempt at the application list: once serverState is 1 neither  *)
(* it nor the server changes, whatever answers still arrive.               *)
THEOREM UPnPFetchedOnce == Spec => FetchedOnce
<1>1. [Next]_vars => [/\ serverState = 1 => UNCHANGED <<serverState, m_server>>
                      /\ m_server # NoLoc => m_server' = m_server]_vars
  <2> SUFFICES ASSUME Next
               PROVE  /\ serverState = 1 => UNCHANGED <<serverState, m_server>>
                      /\ m_server # NoLoc => m_server' = m_server
    OBVIOUS
  <2>1. CASE World
    BY <2>1 DEF World, AddrUp, AddrDown, Reply, Stray, McastArrive, Arrive, Thread, context
  <2>2. CASE GetAppList
    BY <2>2 DEF GetAppList
  <2>3. CASE Run /\ ~GetAppList
    BY <2>3 DEF Run, open_netlink_socket, open_multicast_socket, GetIfAddrs, ScanAddress,
      ScanDone, Select, on_netlink_event, OnMulticast, SkipClient, DropClient, ReadClient,
      ReadTimeout, NextRound, context
  <2> QED
    BY <2>1, <2>2, <2>3 DEF Next
<1> QED
  BY <1>1, PTL DEF Spec, FetchedOnce
-----------------------------------------------------------------------------
(* The scan of the addresses that are there when the thread starts.        *)

ScanInv ==
  /\ pc \in {"netlink", "multicast", "getifaddrs"} => atStart = {}
  /\ pc = "scan" => atStart \cap Near \subseteq searched \cup scan
  /\ Started => atStart \cap Near \subseteq searched

LEMMA ScanNext == ScanInv /\ [Next]_vars => ScanInv'
<1> SUFFICES ASSUME ScanInv, [Next]_vars PROVE ScanInv'
  OBVIOUS
<1>1. ASSUME UNCHANGED <<pc, atStart, searched, scan>> PROVE ScanInv'
  BY <1>1 DEF ScanInv, Started
<1>2. CASE World
  BY <1>1, <1>2 DEF World, AddrUp, AddrDown, Reply, Stray, Arrive, McastArrive, Thread, local, history
<1>3. CASE open_netlink_socket \/ open_multicast_socket
  <2>1. /\ pc \in {"netlink", "multicast"} /\ pc' \in {"multicast", "getifaddrs"}
        /\ atStart' = atStart
    BY <1>3 DEF open_netlink_socket, open_multicast_socket, history
  <2> QED
    BY <2>1 DEF ScanInv, Started
<1>4. CASE GetIfAddrs
  <2>1. /\ pc = "getifaddrs" /\ pc' \in {"scan", "exited"}
        /\ \/ scan' = up /\ atStart' = up
           \/ atStart' = atStart
    BY <1>4 DEF GetIfAddrs
  <2> QED
    BY <2>1 DEF ScanInv, Started
<1>5. CASE ScanAddress
  <2>1. PICK a \in scan :
          /\ scan' = scan \ {a}
          /\ \/ a \in Near /\ open_ssdp(a, "scan")
             \/ a \notin Near /\ UNCHANGED <<sockets, asked, clients, fails, pc, searched>>
    BY <1>5 DEF ScanAddress
  <2>2. pc = "scan" /\ atStart' = atStart
    BY <1>5 DEF ScanAddress
  <2>3. CASE a \in Near /\ open_ssdp(a, "scan")
    <3>1. searched' = searched \cup {a} /\ pc' \in {"scan", "exited"}
      BY <2>3 DEF open_ssdp, Exit
    <3> QED
      BY <2>1, <2>2, <3>1 DEF ScanInv, Started
  <2>4. CASE a \notin Near /\ UNCHANGED <<sockets, asked, clients, fails, pc, searched>>
    BY <2>1, <2>2, <2>4 DEF ScanInv, Started
  <2> QED
    BY <2>1, <2>3, <2>4
<1>6. CASE ScanDone
  BY <1>6 DEF ScanDone, local, history, ScanInv, Started
<1>7. CASE on_netlink_event
  <2>1. /\ pc = "on_netlink" /\ atStart' = atStart
        /\ \/ pc' = "on_multicast" /\ searched' = searched
           \/ open_ssdp(Head(nlq), "on_multicast")
    BY <1>7 DEF on_netlink_event
  <2>2. ASSUME open_ssdp(Head(nlq), "on_multicast")
        PROVE  pc' \in {"on_multicast", "exited"} /\ searched \subseteq searched'
    BY <2>2 DEF open_ssdp, Exit
  <2>3. pc' \in {"on_multicast", "exited"} /\ searched \subseteq searched'
    BY <2>1, <2>2
  <2> QED
    BY <2>1, <2>3 DEF ScanInv, Started
<1>8. CASE Select \/ OnMulticast \/ SkipClient \/ DropClient \/ ReadClient \/ ReadTimeout
           \/ GetAppList \/ NextRound
  <2>1. Started /\ UNCHANGED <<atStart, searched>>
    BY <1>8 DEF Select, OnMulticast, SkipClient, DropClient, ReadClient, ReadTimeout,
                GetAppList, NextRound, Hears, history, Started
  <2>2. pc' \in {"select", "on_netlink", "on_multicast", "clients", "hung", "exited"}
    BY <1>8 DEF Select, OnMulticast, SkipClient, DropClient, ReadClient, ReadTimeout,
                GetAppList, NextRound, Hears
  <2> QED
    BY <2>1, <2>2 DEF ScanInv, Started
<1>9. CASE UNCHANGED vars
  BY <1>1, <1>9 DEF vars, local, history
<1> QED
  BY <1>2, <1>3, <1>4, <1>5, <1>6, <1>7, <1>8, <1>9 DEF Next, Run

(* When the loop starts, every address of the 192.168.42 network that was  *)
(* there has been searched.                                                *)
THEOREM UPnPNearSearched == Spec => []NearSearched
<1>1. Init => ScanInv
  BY DEF Init, ScanInv, Started
<1>2. ScanInv => NearSearched
  BY DEF ScanInv, NearSearched
<1> QED
  BY <1>1, <1>2, ScanNext, PTL DEF Spec

-----------------------------------------------------------------------------
(* The hot-plug thread in the composition.                                 *)

LEMMA UsbSets == Phones \subseteq Devices /\ NoDevice \notin Devices
  BY AppAssumption DEF U!UsbConstants

UsbFlags == byIds \in BOOLEAN /\ registered \in BOOLEAN /\ looping \in BOOLEAN

UsbEvents == {"arrived", "left"} \X Devices

UsbData ==
  /\ attached \subseteq Devices /\ switched \subseteq attached /\ plugs \in 0..MaxPlugs
  /\ evq \in Seq(UsbEvents)
  /\ usb \in {"init", "register", "enumerate", "events", "open", "transfer", "close",
              "returned"}
  /\ todo \subseteq Devices /\ refused \subseteq Devices
  /\ device \in Devices \cup {NoDevice} /\ handle \in Devices \cup {NoDevice}
  /\ handle # NoDevice <=> usb \in {"transfer", "close"}
  /\ usb \in {"open", "transfer", "close"} => device \in Devices

UsbInv == UsbFlags /\ UsbData

LEMMA UsbInit == U!Init => UsbInv
<1> SUFFICES ASSUME U!Init PROVE UsbInv
  OBVIOUS
<1>1. UsbFlags
  BY Zenon DEF U!Init, UsbFlags
<1>2. << >> \in Seq(UsbEvents) /\ MaxPlugs \in Nat
  BY AppAssumption DEF U!UsbConstants
<1>3. UsbData
  BY <1>2, UsbSets DEF U!Init, UsbData
<1> QED
  BY <1>1, <1>3 DEF UsbInv

LEMMA BusType ==
  ASSUME UsbInv, NEW d \in Devices, U!Plug(d) \/ U!Unplug(d)
  PROVE  UsbInv'
<1>1. UNCHANGED <<usb, byIds, registered, todo, looping, device, handle>>
  BY DEF U!Plug, U!Unplug
<1>2. UsbFlags'
  BY <1>1, Zenon DEF UsbFlags, UsbInv
<1>3. evq \in Seq(UsbEvents) /\ <<"arrived", d>> \in UsbEvents
      /\ <<"left", d>> \in UsbEvents
  BY DEF UsbData, UsbInv, UsbEvents
<1>4. evq' = evq \/ \E e \in UsbEvents : evq' = Append(evq, e)
  BY <1>3 DEF U!Plug, U!Unplug, U!Tell
<1>5. evq' \in Seq(UsbEvents)
  BY <1>3, <1>4
<1>6. attached' \subseteq Devices /\ switched' \subseteq attached' /\ refused' \subseteq Devices
  BY DEF U!Plug, U!Unplug, UsbData, UsbInv
<1>7. plugs' \in 0..MaxPlugs
  BY AppAssumption DEF U!Plug, U!Unplug, UsbData, UsbInv, U!UsbConstants
<1>8. UsbData'
  BY <1>1, <1>5, <1>6, <1>7 DEF UsbData, UsbInv
<1> QED
  BY <1>2, <1>8 DEF UsbInv

LEMMA RunFlags ==
  ASSUME UsbFlags, U!Run
  PROVE  UsbFlags'
<1>1. /\ byIds' = byIds
      /\ registered' = registered \/ registered' = TRUE
      /\ looping' = looping \/ looping' = TRUE
  BY DEF U!Run, U!try_to_enable_mirror_link, U!libusb_init, U!Register, U!Enumerated,
         U!EnumerateDevice, U!HandleEvents, U!OpenFailed, U!libusb_open,
         U!libusb_open_device_with_vid_pid, U!TransferDone, U!TransferFailed, U!Close
<1> QED
  BY <1>1, Zenon DEF UsbFlags

LEMMA RunData ==
  ASSUME UsbData, U!Run
  PROVE  UsbData'
<1> USE UsbSets
<1>1. CASE U!libusb_init \/ U!Register \/ U!Enumerated \/ U!EnumerateDevice
  <2>1. /\ UNCHANGED <<attached, switched, plugs, evq, handle, refused>>
        /\ usb \in {"init", "register", "enumerate"} /\ todo' \subseteq Devices
    BY <1>1 DEF U!libusb_init, U!Register, U!Enumerated, U!EnumerateDevice, U!bus, UsbData
  <2>2. /\ usb' \in {"register", "returned", "enumerate", "events", "open"}
        /\ device' \in Devices \cup {NoDevice} /\ (usb' = "open" => device' \in Devices)
    BY <1>1 DEF U!libusb_init, U!Register, U!Enumerated, U!EnumerateDevice, UsbData
  <2> QED
    BY <2>1, <2>2 DEF UsbData
<1>2. CASE U!HandleEvents
  <2>1. evq \in Seq(UsbEvents) /\ evq # << >>
    BY <1>2 DEF U!HandleEvents, UsbData
  <2>2. Head(evq) \in UsbEvents /\ Tail(evq) \in Seq(UsbEvents)
    BY <2>1
  <2>3. Head(evq)[2] \in Devices
    BY <2>2 DEF UsbEvents
  <2>4. /\ UNCHANGED <<attached, switched, plugs, todo, handle, refused>>
        /\ evq' = Tail(evq) /\ usb = "events"
        /\ \/ device' = device /\ usb' = "events"
           \/ device' = Head(evq)[2] /\ usb' = "open"
    BY <1>2 DEF U!HandleEvents, U!bus
  <2> QED
    BY <2>2, <2>3, <2>4 DEF UsbData
<1>3. CASE U!OpenFailed
  <2>1. /\ UNCHANGED <<attached, switched, plugs, evq, todo, handle>>
        /\ usb = "open" /\ usb' \in {"events", "enumerate"}
        /\ device' = NoDevice /\ refused' = refused \cup {device}
    BY <1>3 DEF U!OpenFailed, U!Return, U!bus
  <2>2. device \in Devices
    BY <2>1 DEF UsbData
  <2> QED
    BY <2>1, <2>2 DEF UsbData
<1>4. CASE U!libusb_open \/ U!libusb_open_device_with_vid_pid
  BY <1>4 DEF U!libusb_open, U!libusb_open_device_with_vid_pid, U!bus, UsbData
<1>5. CASE U!TransferDone
  <2>1. evq \in Seq(UsbEvents) /\ handle \in Devices
    BY <1>5 DEF U!TransferDone, UsbData
  <2>2. << <<"left", handle>>, <<"arrived", handle>> >> \in Seq(UsbEvents)
    <3>1. <<"left", handle>> \in UsbEvents /\ <<"arrived", handle>> \in UsbEvents
      BY <2>1 DEF UsbEvents
    <3> QED
      BY <3>1
  <2>3. evq \o << <<"left", handle>>, <<"arrived", handle>> >> \in Seq(UsbEvents)
    BY <2>1, <2>2
  <2>4. evq' \in Seq(UsbEvents)
    BY <1>5, <2>1, <2>3 DEF U!TransferDone
  <2>5. /\ UNCHANGED <<attached, plugs, todo, device, handle, refused>>
        /\ usb = "transfer" /\ usb' = "close" /\ handle \in attached
        /\ switched' = switched \cup {handle}
    BY <1>5 DEF U!TransferDone
  <2> QED
    BY <2>4, <2>5 DEF UsbData
<1>6. CASE U!TransferFailed
  <2>1. /\ UNCHANGED <<attached, switched, plugs, evq, todo, device, handle>>
        /\ usb = "transfer" /\ usb' = "close" /\ refused' \subseteq refused \cup {handle}
    BY <1>6 DEF U!TransferFailed, U!bus
  <2>2. handle \in Devices
    BY <2>1 DEF UsbData
  <2> QED
    BY <2>1, <2>2 DEF UsbData
<1>7. CASE U!Close
  <2>1. /\ UNCHANGED <<attached, switched, plugs, evq, todo, refused>>
        /\ usb' \in {"events", "enumerate"} /\ device' = NoDevice /\ handle' = NoDevice
    BY <1>7 DEF U!Close, U!Return, U!bus
  <2> QED
    BY <2>1 DEF UsbData
<1> QED
  BY <1>1, <1>2, <1>3, <1>4, <1>5, <1>6, <1>7 DEF U!Run, U!try_to_enable_mirror_link

LEMMA UsbNext == UsbInv /\ [U!Next]_(U!vars) => UsbInv'
<1> SUFFICES ASSUME UsbInv, [U!Next]_(U!vars) PROVE UsbInv'
  OBVIOUS
<1>1. CASE UNCHANGED U!vars
  <2>1. UNCHANGED <<attached, switched, plugs, evq, usb, byIds, registered, todo, looping, device,
                    handle, refused>>
    BY <1>1 DEF U!vars, U!bus
  <2>2. UsbFlags'
    BY <2>1, Zenon DEF UsbFlags, UsbInv
  <2>3. UsbData'
    BY <2>1 DEF UsbData, UsbInv
  <2> QED
    BY <2>2, <2>3 DEF UsbInv
<1> QED
  BY <1>1, BusType, RunFlags, RunData DEF U!Next, UsbInv

LEMMA UsbTypes == UsbInv => U!TypeOK
  BY Zenon DEF UsbInv, UsbFlags, UsbData, UsbEvents, U!TypeOK

-----------------------------------------------------------------------------
(* No device on the bus is forgotten.                                      *)

(* What is left of the queue when its head is taken, and what is there     *)
(* when more is put behind.                                                *)
LEMMA QueueTail ==
  ASSUME NEW S, NEW q \in Seq(S), q # << >>, NEW e, e # Head(q),
         \E i \in 1..Len(q) : q[i] = e
  PROVE  \E i \in 1..Len(Tail(q)) : Tail(q)[i] = e
<1>1. PICK i \in 1..Len(q) : q[i] = e
  OBVIOUS
<1>2. /\ Len(q) \in Nat \ {0} /\ Head(q) = q[1] /\ Len(Tail(q)) = Len(q) - 1
      /\ \A k \in 1..(Len(q) - 1) : Tail(q)[k] = q[k + 1]
  OBVIOUS
<1>3. i # 1
  BY <1>1, <1>2
<1>4. i - 1 \in 1..(Len(q) - 1) /\ (i - 1) + 1 = i
  BY <1>1, <1>2, <1>3
<1>5. Tail(q)[i - 1] = e
  BY <1>1, <1>2, <1>4
<1> QED
  BY <1>2, <1>4, <1>5

LEMMA QueueGrows ==
  ASSUME NEW S, NEW q \in Seq(S), NEW p \in Seq(S), NEW i \in 1..Len(q)
  PROVE  i \in 1..Len(q \o p) /\ (q \o p)[i] = q[i]
  OBVIOUS

LEMMA QueueAppend ==
  ASSUME NEW S, NEW q \in Seq(S), NEW e \in S
  PROVE  /\ Len(q) + 1 \in 1..Len(Append(q, e)) /\ Append(q, e)[Len(q) + 1] = e
         /\ \A i \in 1..Len(q) : i \in 1..Len(Append(q, e)) /\ Append(q, e)[i] = q[i]
  OBVIOUS

LEMMA ForgottenInit == U!Init => NoDeviceForgotten
  BY DEF U!Init, NoDeviceForgotten

LEMMA ForgottenBus ==
  ASSUME UsbInv, NoDeviceForgotten, NEW d \in Devices, U!Plug(d) \/ U!Unplug(d),
         registered => U!Listening
  PROVE  NoDeviceForgotten'
<1> SUFFICES ASSUME registered, NEW c \in attached' \ (switched' \cup refused')
             PROVE  Pending(c)'
  BY DEF NoDeviceForgotten, U!Plug, U!Unplug
<1>1. UNCHANGED <<usb, todo, device, handle>>
  BY DEF U!Plug, U!Unplug
<1>2. evq \in Seq(UsbEvents) /\ <<"arrived", d>> \in UsbEvents /\ <<"left", d>> \in UsbEvents
  BY DEF UsbInv, UsbData, UsbEvents
<1>3. PICK e \in {<<"arrived", d>>, <<"left", d>>} :
        evq' = Append(evq, e) /\ (U!Plug(d) => e = <<"arrived", d>>)
  BY DEF U!Plug, U!Unplug, U!Tell
<1>4. CASE c = d
  <2>1. U!Plug(d)
    BY <1>4 DEF U!Unplug
  <2>2. evq' = Append(evq, <<"arrived", d>>)
    BY <1>3, <2>1
  <2>3. Len(evq) + 1 \in 1..Len(evq') /\ evq'[Len(evq) + 1] = <<"arrived", d>>
    BY <1>2, <2>2, QueueAppend
  <2> QED
    BY <1>4, <2>3 DEF Pending
<1>5. CASE c # d
  <2>1. c \in attached \ (switched \cup refused)
    BY <1>5 DEF U!Plug, U!Unplug
  <2>2. Pending(c)
    BY <2>1 DEF NoDeviceForgotten
  <2>3. \A i \in 1..Len(evq) : i \in 1..Len(evq') /\ evq'[i] = evq[i]
    BY <1>2, <1>3, QueueAppend
  <2> QED
    BY <1>1, <2>2, <2>3 DEF Pending
<1> QED
  BY <1>4, <1>5

LEMMA ForgottenRun ==
  ASSUME UsbInv, NoDeviceForgotten, U!Run
  PROVE  NoDeviceForgotten'
<1> SUFFICES ASSUME registered', NEW c \in attached' \ (switched' \cup refused')
             PROVE  Pending(c)'
  BY DEF NoDeviceForgotten
<1>1. evq \in Seq(UsbEvents)
  BY DEF UsbInv, UsbData
<1>2. ASSUME registered, c \in attached \ (switched \cup refused) PROVE Pending(c)
  BY <1>2 DEF NoDeviceForgotten
<1>3. CASE U!libusb_init
  BY <1>2, <1>3 DEF U!libusb_init, U!bus, Pending
<1>4. CASE U!Register
  <2>1. CASE todo' = attached
    BY <1>4, <2>1 DEF U!Register, U!bus, Pending
  <2>2. CASE UNCHANGED <<registered, todo>>
    BY <1>2, <1>4, <2>2 DEF U!Register, U!bus, Pending
  <2> QED
    BY <1>4, <2>1, <2>2 DEF U!Register
<1>5. CASE U!Enumerated
  BY <1>2, <1>5 DEF U!Enumerated, U!bus, Pending
<1>6. CASE U!EnumerateDevice
  BY <1>2, <1>6 DEF U!EnumerateDevice, U!bus, Pending
<1>7. CASE U!HandleEvents
  <2>1. /\ Pending(c) /\ usb = "events" /\ evq # << >> /\ evq' = Tail(evq)
        /\ UNCHANGED <<todo, handle>>
        /\ Head(evq)[1] = "arrived" => device' = Head(evq)[2] /\ usb' = "open"
    BY <1>2, <1>7 DEF U!HandleEvents, U!bus
  <2>2. CASE c \in todo
    BY <2>1, <2>2 DEF Pending
  <2>3. CASE \E i \in 1..Len(evq) : evq[i] = <<"arrived", c>>
    <3>1. CASE Head(evq) = <<"arrived", c>>
      BY <2>1, <3>1 DEF Pending
    <3>2. CASE Head(evq) # <<"arrived", c>>
      <4>1. \E i \in 1..Len(Tail(evq)) : Tail(evq)[i] = <<"arrived", c>>
        BY <1>1, <2>1, <2>3, <3>2, QueueTail
      <4> QED
        BY <2>1, <4>1 DEF Pending
    <3> QED
      BY <3>1, <3>2
  <2> QED
    BY <2>1, <2>2, <2>3 DEF Pending
<1>8. CASE U!OpenFailed
  BY <1>2, <1>8 DEF U!OpenFailed, U!Return, U!bus, Pending
<1>9. CASE U!libusb_open
  BY <1>2, <1>9 DEF U!libusb_open, U!bus, Pending
<1>10. CASE U!libusb_open_device_with_vid_pid
  BY <1>2, <1>10 DEF U!libusb_open_device_with_vid_pid, U!bus, Pending
<1>11. CASE U!TransferDone
  <2>1. /\ Pending(c) /\ usb = "transfer" /\ usb' = "close" /\ c # handle
        /\ UNCHANGED <<todo, device, handle>>
    BY <1>2, <1>11 DEF U!TransferDone
  <2>2. handle \in Devices
    BY <1>11 DEF U!TransferDone, UsbInv, UsbData
  <2>3. \A i \in 1..Len(evq) : i \in 1..Len(evq') /\ evq'[i] = evq[i]
    <3>1. << <<"left", handle>>, <<"arrived", handle>> >> \in Seq(UsbEvents)
      <4>1. <<"left", handle>> \in UsbEvents /\ <<"arrived", handle>> \in UsbEvents
        BY <2>2 DEF UsbEvents
      <4> QED
        BY <4>1
    <3>2. evq' = evq \/ \E p \in Seq(UsbEvents) : evq' = evq \o p
      BY <1>11, <3>1 DEF U!TransferDone
    <3> QED
      BY <1>1, <3>2, QueueGrows
  <2> QED
    BY <2>1, <2>3 DEF Pending
<1>12. CASE U!TransferFailed
  BY <1>2, <1>12 DEF U!TransferFailed, U!bus, Pending
<1>13. CASE U!Close
  BY <1>2, <1>13 DEF U!Close, U!Return, U!bus, Pending
<1> QED
  BY <1>3, <1>4, <1>5, <1>6, <1>7, <1>8, <1>9, <1>10, <1>11, <1>12, <1>13
     DEF U!Run, U!try_to_enable_mirror_link

(* The callback is registered only after libusb has been initialised.      *)
RegisteredInv == registered => U!Listening

LEMMA RegisteredNext == RegisteredInv /\ [U!Next]_(U!vars) => RegisteredInv'
<1> SUFFICES ASSUME RegisteredInv, [U!Next]_(U!vars) PROVE RegisteredInv'
  OBVIOUS
<1>1. CASE UNCHANGED U!vars
  BY <1>1 DEF U!vars, U!bus, RegisteredInv, U!Listening
<1>2. CASE U!Run
  BY <1>2 DEF U!Run, U!try_to_enable_mirror_link, U!libusb_init, U!Register, U!Enumerated,
    U!EnumerateDevice, U!HandleEvents, U!OpenFailed, U!libusb_open, U!Return,
    U!libusb_open_device_with_vid_pid, U!TransferDone, U!TransferFailed, U!Close,
    RegisteredInv, U!Listening
<1>3. ASSUME NEW d \in Devices, U!Plug(d) \/ U!Unplug(d) PROVE RegisteredInv'
  BY <1>3 DEF U!Plug, U!Unplug, RegisteredInv, U!Listening
<1> QED
  BY <1>1, <1>2, <1>3 DEF U!Next

LEMMA ForgottenNext ==
  UsbInv /\ RegisteredInv /\ NoDeviceForgotten /\ [U!Next]_(U!vars) => NoDeviceForgotten'
<1>1. ASSUME NoDeviceForgotten, UNCHANGED U!vars PROVE NoDeviceForgotten'
  BY <1>1 DEF U!vars, U!bus, NoDeviceForgotten, Pending
<1> QED
  BY <1>1, ForgottenBus, ForgottenRun DEF U!Next, RegisteredInv

(* USBThread::run by itself, and the command line tool: the bus and the    *)
(* program keep to their types, and a handle is held in the callback only. *)
THEOREM UsbTypeOK == U!Spec => []U!TypeOK
  BY UsbInit, UsbNext, UsbTypes, PTL DEF U!Spec

-----------------------------------------------------------------------------
(* The composition runs both threads as they are.                          *)

(* Every step of the composition is a step of the hot-plug thread or of    *)
(* the bus, or leaves both alone.                                          *)
LEMMA AppUsbStep == [AppNext]_appVars => [U!Next]_(U!vars)
<1> SUFFICES ASSUME [AppNext]_appVars PROVE U!Next \/ UNCHANGED usbVars
  BY DEF usbVars, U!vars, U!bus
<1>1. CASE \E d \in Phones : PhoneUp(d)
  BY <1>1 DEF PhoneUp
<1>2. CASE \E d \in Devices : Gone(d) \/ Plugged(d)
  BY <1>2 DEF Gone, Plugged, U!Next
<1>3. CASE OtherWorld \/ UPnPThread \/ UNCHANGED appVars
  BY <1>3 DEF OtherWorld, UPnPThread, appVars
<1>4. CASE USBThread
  BY <1>4 DEF USBThread, U!Next
<1> QED
  BY <1>1, <1>2, <1>3, <1>4 DEF AppNext

(* With the discovery thread beside it the hot-plug thread still does what *)
(* it does alone (MainWindow starts the two and nothing joins them).       *)
THEOREM AppImplementsUsb == AppSpec => U!Spec
<1>1. AppInit => U!Init
  BY DEF AppInit
<1> QED
  BY <1>1, AppUsbStep, PTL DEF AppSpec, U!Spec

(* For any number of devices, with or without the same ids, and however    *)
(* they come and go around the registration and the callbacks: once        *)
(* hotplug_callback is registered, a device on the bus is switched, has    *)
(* been refused, or its turn is to come.                                   *)
THEOREM AppNoDeviceForgotten == AppSpec => []NoDeviceForgotten
<1>1. U!Init => RegisteredInv
  BY DEF U!Init, RegisteredInv
<1>2. U!Spec => []NoDeviceForgotten
  BY <1>1, UsbInit, UsbNext, RegisteredNext, ForgottenInit, ForgottenNext, PTL DEF U!Spec
<1> QED
  BY <1>2, AppImplementsUsb, PTL
-----------------------------------------------------------------------------
(* What is proved of the discovery thread by itself, in the composition,   *)
(* where addresses also come and go with the phones.                       *)

LEMMA AppUPnPCases ==
  ASSUME [AppNext]_appVars
  PROVE  \/ [Next]_vars
         \/ /\ \/ UNCHANGED <<up, nlq, overrun>>
               \/ \E e \in Addrs \cup {NoAddr} : Notify(e) /\ up' \subseteq up \cup Addrs
            /\ UNCHANGED <<mcast, asked, events, replies, sockets, fails, pc, context, local,
                           heard, mixed, atStart>>
            /\ searched' \subseteq searched
<1> USE AppAssumption
<1>1. ASSUME NEW d \in Phones, PhoneUp(d)
      PROVE  /\ \E e \in Addrs \cup {NoAddr} : Notify(e) /\ up' \subseteq up \cup Addrs
             /\ UNCHANGED <<mcast, asked, events, replies, sockets, fails, pc, context, local,
                            heard, mixed, atStart>>
             /\ searched' \subseteq searched
  BY <1>1 DEF PhoneUp
<1>2. ASSUME NEW d \in Devices, Gone(d)
      PROVE  /\ \/ UNCHANGED <<up, nlq, overrun>>
                \/ \E e \in Addrs \cup {NoAddr} : Notify(e) /\ up' \subseteq up \cup Addrs
             /\ UNCHANGED <<mcast, asked, events, replies, sockets, fails, pc, context, local,
                            heard, mixed, atStart>>
             /\ searched' \subseteq searched
  BY <1>2 DEF Gone, Thread, history
<1>3. ASSUME NEW d \in Devices, Plugged(d) PROVE [Next]_vars
  BY <1>3 DEF Plugged
<1>4. CASE OtherWorld
  BY <1>4 DEF OtherWorld, World, Next
<1>5. CASE USBThread \/ UPnPThread \/ UNCHANGED appVars
  BY <1>5 DEF USBThread, UPnPThread, appVars, Next
<1> QED
  BY <1>1, <1>2, <1>3, <1>4, <1>5 DEF AppNext

DiscoveryInv == ListInv /\ TypeInv /\ LocationsGenuine

LEMMA AppDiscoveryNext ==
  ASSUME DiscoveryInv, [AppNext]_appVars
  PROVE  DiscoveryInv'
<1>1. CASE [Next]_vars
  <2>1. ListInv' /\ TypeInv'
    BY <1>1, ListNext, TypeNext DEF DiscoveryInv
  <2>2. TypeInv /\ LocationsGenuine
    BY DEF DiscoveryInv
  <2>3. LocationsGenuine'
    BY <1>1, <2>2, LocationsNext
  <2> QED
    BY <2>1, <2>3 DEF DiscoveryInv
<1>2. CASE /\ \/ UNCHANGED <<up, nlq, overrun>>
              \/ \E e \in Addrs \cup {NoAddr} : Notify(e) /\ up' \subseteq up \cup Addrs
           /\ UNCHANGED <<mcast, asked, events, replies, sockets, fails, pc, context, local,
                          heard, mixed, atStart>>
           /\ searched' \subseteq searched
  <2>1. UNCHANGED <<mcast, asked, events, replies, open, bound, inq, fails, pc, clients, tm,
                    serverState, m_server, netlink, multicast, scan, ready, walk, heard, mixed,
                    atStart>>
    BY <1>2 DEF sockets, context, local
  <2>2. ListInv'
    BY <2>1 DEF DiscoveryInv, ListInv, Sockets, Lists, ClientsAreSockets, WalkIsLive, InList
  <2>3. LocationsGenuine'
    BY <2>1 DEF DiscoveryInv, LocationsGenuine, Genuine
  <2>4. /\ nlq' \in Seq(Addrs \cup {NoAddr}) /\ Len(nlq') <= MaxNl
        /\ overrun' = overrun \/ overrun' \in BOOLEAN
    BY <1>2, NotifyType DEF DiscoveryInv, TypeInv, NetType
  <2>5. up' \subseteq Addrs /\ searched' \subseteq Addrs
    BY <1>2 DEF DiscoveryInv, TypeInv, NetType, ThreadType
  <2>6. FlagType'
    BY <2>1, <2>4, Zenon DEF DiscoveryInv, TypeInv, FlagType
  <2>7. NetType' /\ ThreadType' /\ ContextType'
    BY <2>1, <2>4, <2>5 DEF DiscoveryInv, TypeInv, NetType, ThreadType, ContextType
  <2> QED
    BY <2>2, <2>3, <2>6, <2>7 DEF DiscoveryInv, TypeInv
<1> QED
  BY <1>1, <1>2, AppUPnPCases

(* The hot-plug thread and the phones disturb nothing of the discovery     *)
(* thread: in the whole client, too, its list of clients and its sockets   *)
(* agree, the walk stays on live clients, and a stored location is genuine *)
(* where no earlier text mixed into the datagram it was read from.         *)
THEOREM AppKeepsDiscovery == AppSpec => [](ClientsAreSockets /\ WalkIsLive /\ LocationsGenuine)
<1>1. AppInit => DiscoveryInv
  <2>1. Init => LocationsGenuine
    BY DEF Init, LocationsGenuine, Genuine
  <2> QED
    BY <2>1, ListInit, TypeInit DEF AppInit, DiscoveryInv
<1>2. DiscoveryInv /\ [AppNext]_appVars => DiscoveryInv'
  <2> SUFFICES ASSUME DiscoveryInv, [AppNext]_appVars PROVE DiscoveryInv'
    OBVIOUS
  <2> QED
    BY AppDiscoveryNext
<1>3. DiscoveryInv => ClientsAreSockets /\ WalkIsLive /\ LocationsGenuine
  BY DEF DiscoveryInv, ListInv
<1> QED
  BY <1>1, <1>2, <1>3, PTL DEF AppSpec
=============================================================================
