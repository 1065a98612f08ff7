---------------------------- MODULE ClientProofs ----------------------------
(***************************************************************************)
(* Theorems about ClientThreads, for any phones, any listings and any      *)
(* number of clicks: what is on the heap, and that neither thread uses     *)
(* what the other has freed.                                               *)
(***************************************************************************)
EXTENDS ClientThreads, SequenceTheorems, TLAPS

(* The elements of a sequence. *)
Elems(s) == {s[i] : i \in 1..Len(s)}

LEMMA ElemsHead ==
  ASSUME NEW S, NEW s \in Seq(S), s # <<>>
  PROVE  /\ Head(s) \in S /\ Tail(s) \in Seq(S)
         /\ Head(s) \in Elems(s) /\ Elems(Tail(s)) \subseteq Elems(s)
BY DEF Elems

LEMMA ElemsAppend ==
  ASSUME NEW S, NEW s \in Seq(S), NEW e \in S
  PROVE  Append(s, e) \in Seq(S) /\ Elems(Append(s, e)) = Elems(s) \cup {e}
<1>1. Append(s, e) \in Seq(S) /\ Len(Append(s, e)) = Len(s) + 1
  OBVIOUS
<1>2. \A i \in 1..Len(s) + 1 : Append(s, e)[i] = IF i <= Len(s) THEN s[i] ELSE e
  OBVIOUS
<1>3. Len(s) \in Nat
  OBVIOUS
<1> QED  BY <1>1, <1>2, <1>3 DEF Elems

LEMMA ElemsConcat ==
  ASSUME NEW S, NEW s \in Seq(S), NEW t \in Seq(S)
  PROVE  s \o t \in Seq(S) /\ Elems(s \o t) = Elems(s) \cup Elems(t)
<1>1. s \o t \in Seq(S) /\ Len(s \o t) = Len(s) + Len(t) /\ Len(s) \in Nat /\ Len(t) \in Nat
  OBVIOUS
<1>2. \A i \in 1..Len(s) : (s \o t)[i] = s[i]
  OBVIOUS
<1>3. \A i \in 1..Len(t) : (s \o t)[Len(s) + i] = t[i]
  OBVIOUS
<1>4. ASSUME NEW i \in 1..Len(s \o t) PROVE (s \o t)[i] \in Elems(s) \cup Elems(t)
  <2>1. CASE i <= Len(s)  BY <1>1, <1>2, <2>1 DEF Elems
  <2>2. CASE i > Len(s)
    <3>1. i - Len(s) \in 1..Len(t) /\ i = Len(s) + (i - Len(s))  BY <1>1, <2>2
    <3> QED  BY <1>3, <3>1 DEF Elems
  <2> QED  BY <1>1, <2>1, <2>2
<1>5. Elems(s) \subseteq Elems(s \o t)
  BY <1>1, <1>2 DEF Elems
<1>6. Elems(t) \subseteq Elems(s \o t)
  <2> SUFFICES ASSUME NEW i \in 1..Len(t) PROVE t[i] \in Elems(s \o t)
    BY DEF Elems
  <2>1. Len(s) + i \in 1..Len(s \o t)  BY <1>1
  <2> QED  BY <1>3, <2>1 DEF Elems
<1> QED  BY <1>1, <1>4, <1>5, <1>6 DEF Elems

-----------------------------------------------------------------------------
(* The entries of a listing are applications of that server and request.   *)
LEMMA ListedType ==
  ASSUME NEW s \in ServerType
  PROVE  /\ Listed(s) \in Seq(AppType)
         /\ \A i \in 1..Len(Listed(s)) : /\ Listed(s)[i].server = s.id
                                         /\ Listed(s)[i].fetch = s.fetches + 1
                                         /\ Listed(s)[i].at = i
<1>1. s.phone \in Phones /\ s.id \in Place /\ s.fetches \in Nat
  BY DEF ServerType
<1>2. Listing[s.phone] \in Seq(AppName)
  BY <1>1, ClientAssumption DEF Phones, AppName
<1> DEFINE apps == Listing[s.phone]
           n    == Len(apps)
           f    == [i \in 1..n |-> [app |-> apps[n + 1 - i], server |-> s.id,
                                    fetch |-> s.fetches + 1, at |-> i]]
<1>3. n \in Nat /\ \A i \in 1..n : apps[n + 1 - i] \in AppName
  BY <1>2
<1>4. s.fetches + 1 \in Place
  BY <1>1 DEF Place
<1>5. ASSUME NEW i \in 1..n
      PROVE  f[i] \in AppType /\ f[i].server = s.id /\ f[i].fetch = s.fetches + 1 /\ f[i].at = i
  BY <1>1, <1>3, <1>4 DEF AppType
<1>7. Listed(s) = f
  BY DEF Listed
<1>6. f \in [1..n -> AppType]
  BY <1>5
<1> HIDE DEF f
<1>8. f \in Seq(AppType) /\ Len(f) = n
  BY <1>3, <1>6
<1> QED  BY <1>5, <1>7, <1>8

(* What an action of the worker leaves in m_server.                        *)
LEMMA ServerUpdate ==
  ASSUME NEW s \in ServerType
  PROVE  /\ \A new \in {<<>>, Listed(s)} :
               [s EXCEPT !.appList = new \o @, !.fetches = @ + 1] \in ServerType
         /\ \A a \in AppType \cup {Test, NULL} : [s EXCEPT !.address = a] \in ServerType
<1>1. ASSUME NEW new \in {<<>>, Listed(s)}
      PROVE  [s EXCEPT !.appList = new \o @, !.fetches = @ + 1] \in ServerType
  <2> DEFINE list == new \o s.appList
             n    == s.fetches + 1
  <2>1. list \in Seq(AppType)
    <3>1. s.appList \in Seq(AppType)  BY DEF ServerType
    <3>2. Listed(s) \in Seq(AppType)  BY ListedType
    <3>3. <<>> \in Seq(AppType)  OBVIOUS
    <3>4. new \in Seq(AppType)  BY <3>2, <3>3
    <3> QED  BY <3>1, <3>4, ElemsConcat
  <2>2. n \in Nat
    BY DEF ServerType
  <2> HIDE DEF list, n
  <2>3. [s EXCEPT !.appList = list, !.fetches = n] \in ServerType
    BY <2>1, <2>2 DEF ServerType
  <2> QED  BY <2>3 DEF list, n
<1>2. ASSUME NEW a \in AppType \cup {Test, NULL} PROVE [s EXCEPT !.address = a] \in ServerType
  BY DEF ServerType
<1> QED  BY <1>1, <1>2

LEMMA FirstServer ==
  ASSUME NEW n \in Nat, NEW p \in Phones
  PROVE  [id |-> n + 1, phone |-> p, appList |-> <<>>, fetches |-> 0, address |-> NULL]
           \in ServerType
BY DEF ServerType, Place

-----------------------------------------------------------------------------
(* The arguments of slots are what the slots expect, and the slots that    *)
(* use the server have one.                                                *)
Slots ==
  /\ wpc = "create" => m_server = NULL /\ arg \in Phones
  /\ wpc \in {"list", "walk", "launch", "launched", "crashed"} => m_server # NULL
  /\ wpc = "launch" => arg \in AppType \cup {Test}
  /\ gpc = "exited" => wpc = "finished" /\ m_server = NULL

Typed == TypeOK /\ Slots

LEMMA TypedInit == Init => Typed
<1> SUFFICES ASSUME Init PROVE Typed
  OBVIOUS
<1>1. rows \in Seq(AppType \cup {Test})
  <2>1. Test \in AppType \cup {Test}  OBVIOUS
  <2> HIDE DEF AppType
  <2> QED  BY <2>1 DEF Init
<1>2. MaxClicks \in Nat
  BY ClientAssumption
<1>3. /\ gq \in Seq(AppType \cup {Started}) /\ wq \in Seq(Events) /\ nextApp \in Seq(AppType)
  BY DEF Init
<1>4. wpc \in WorkerPCs
  BY DEF Init, WorkerPCs
<1>5. connected \in BOOLEAN /\ quit \in BOOLEAN /\ overlap \in BOOLEAN
  BY DEF Init
<1>6. /\ arg \in Phones \cup AppType \cup {Test, NULL} /\ m_server \in ServerType \cup {NULL}
      /\ servers \in Nat /\ clicks \in 0..MaxClicks
  BY <1>2 DEF Init
<1>7. live \subseteq Place /\ freedApps \subseteq AppType /\ texts \subseteq AppType
  BY DEF Init
<1>8. TypeOK
  BY <1>1, <1>3, <1>4, <1>5, <1>6, <1>7 DEF Init, TypeOK
<1> QED  BY <1>8 DEF Init, Typed, Slots

LEMMA EventTypes ==
  ASSUME Typed, wq # <<>>
  PROVE  /\ Head(wq) \in Events /\ Tail(wq) \in Seq(Events)
         /\ Head(wq).op = "start" => Head(wq).arg \in Phones
         /\ Head(wq).op = "launch" => Head(wq).arg \in AppType \cup {Test}
<1>1. Head(wq) \in Events /\ Tail(wq) \in Seq(Events)
  BY ElemsHead DEF Typed, TypeOK
<1> QED  BY <1>1 DEF Events

LEMMA EmitType ==
  ASSUME Typed, NEW e \in Events, Emit(e)
  PROVE  wq' \in Seq(Events)
BY ElemsAppend DEF Typed, TypeOK, Emit

LEMMA UserTyped == Typed /\ User => Typed'
<1> SUFFICES ASSUME Typed, User PROVE Typed'
  OBVIOUS
<1> USE DEF Typed, Slots, Click
<1>1. CASE on_startButton_clicked
  <2>1. PICK p \in Phones : Emit([op |-> "start", arg |-> p])
    BY <1>1 DEF on_startButton_clicked
  <2>2. wq' \in Seq(Events)
    BY <2>1, EmitType DEF Events
  <2>3. overlap' \in BOOLEAN /\ rows' \in Seq(AppType \cup {Test})
    BY <1>1 DEF on_startButton_clicked, TypeOK, Starting
  <2>4. clicks' \in 0..MaxClicks
    BY <1>1, ClientAssumption DEF on_startButton_clicked, TypeOK
  <2> QED  BY <1>1, <2>2, <2>3, <2>4 DEF on_startButton_clicked, TypeOK, heap
<1>2. CASE on_stopButton_clicked
  <2>1. wq' \in Seq(Events)
    BY <1>2, EmitType DEF Events, on_stopButton_clicked
  <2>2. clicks' \in 0..MaxClicks
    BY <1>2, ClientAssumption DEF on_stopButton_clicked, TypeOK
  <2> QED  BY <1>2, <2>1, <2>2 DEF on_stopButton_clicked, TypeOK, heap
<1>3. CASE on_viewDoubleClick
  <2>1. PICK i \in 1..Len(rows) : Emit([op |-> "launch", arg |-> rows[i]])
    BY <1>3 DEF on_viewDoubleClick
  <2>2. rows[i] \in AppType \cup {Test}
    BY DEF TypeOK
  <2>3. wq' \in Seq(Events)
    BY <2>1, <2>2, EmitType DEF Events
  <2>4. clicks' \in 0..MaxClicks
    BY <1>3, ClientAssumption DEF on_viewDoubleClick, TypeOK
  <2> QED  BY <1>3, <2>3, <2>4 DEF on_viewDoubleClick, TypeOK, heap
<1>4. CASE CloseWindow
  BY <1>4 DEF CloseWindow, TypeOK, heap
<1> QED  BY <1>1, <1>2, <1>3, <1>4 DEF User

LEMMA GuiTyped == Typed /\ Gui => Typed'
<1> SUFFICES ASSUME Typed, Gui PROVE Typed'
  OBVIOUS
<1> USE DEF Typed, Slots
<1>1. CASE onThreadStart
  <2>1. gq' \in Seq(AppType \cup {Started})
    BY <1>1, ElemsHead DEF onThreadStart, TypeOK
  <2> QED  BY <1>1, <2>1 DEF onThreadStart, TypeOK, worker, heap
<1>2. CASE on_addApp
  <2>1. gq' \in Seq(AppType \cup {Started}) /\ Head(gq) \in AppType
    BY <1>2, ElemsHead DEF on_addApp, TypeOK
  <2>2. rows' \in Seq(AppType \cup {Test})
    BY <1>2, <2>1, ElemsAppend DEF on_addApp, TypeOK
  <2> QED  BY <1>2, <2>1, <2>2 DEF on_addApp, TypeOK, worker, heap
<1>3. CASE Exit
  <2>1. live' \subseteq Place
    BY <1>3 DEF Exit, TypeOK
  <2> QED  BY <1>3, <2>1 DEF Exit, TypeOK
<1> QED  BY <1>1, <1>2, <1>3 DEF Gui

LEMMA WorkerTyped == Typed /\ (Worker \/ Session) => Typed'
<1> SUFFICES ASSUME Typed, Worker \/ Session PROVE Typed'
  OBVIOUS
<1> USE DEF Typed, Slots, gui, heap
<1>a. \A x \in {"boot", "loop", "create", "list", "walk", "launch", "launched", "session",
               "stuck", "crashed", "finished"} : x \in WorkerPCs
  BY DEF WorkerPCs
<1>1. CASE Boot
  <2>1. gq' \in Seq(AppType \cup {Started})
    BY <1>1, ElemsAppend DEF Boot, TypeOK
  <2> QED  BY <1>1, <1>a, <2>1 DEF Boot, TypeOK
<1>2. CASE Finish
  BY <1>2, <1>a DEF Finish, TypeOK
<1>3. CASE onStart
  <2>1. wq' \in Seq(Events) /\ arg' \in Phones
    BY <1>3, EventTypes DEF onStart, Take
  <2> QED  BY <1>3, <1>a, <2>1 DEF onStart, Take, TypeOK
<1>4. CASE Create
  <2>1. arg \in Phones /\ servers \in Nat
    BY <1>4 DEF Create, TypeOK
  <2>2. CASE wpc' = "list"
    <3>1. m_server' \in ServerType
      BY <1>4, <2>1, <2>2, FirstServer DEF Create
    <3>2. servers' \in Nat /\ live' \subseteq Place
      BY <1>4, <2>1, <2>2 DEF Create, TypeOK, Place
    <3> QED  BY <1>4, <1>a, <2>2, <3>1, <3>2, NullIsNoServer DEF Create, TypeOK
  <2>3. CASE wpc' # "list"
    BY <1>4, <1>a, <2>3 DEF Create, TypeOK
  <2> QED  BY <2>2, <2>3
<1>5. CASE List
  <2>1. m_server \in ServerType
    BY <1>5 DEF List, TypeOK
  <2>2. CASE wpc' = "walk"
    <3>1. PICK new \in {<<>>, Listed(m_server)} :
            /\ m_server' = [m_server EXCEPT !.appList = new \o @, !.fetches = @ + 1]
            /\ nextApp' = m_server'.appList
            /\ texts' = texts \cup {new[j] : j \in 1..Len(new)}
      BY <1>5, <2>2 DEF List
    <3>2. m_server' \in ServerType
      BY <2>1, <3>1, ServerUpdate
    <3>3. nextApp' \in Seq(AppType)
      BY <3>1, <3>2 DEF ServerType
    <3>4. new \in Seq(AppType)
      <4>1. Listed(m_server) \in Seq(AppType)  BY <2>1, ListedType
      <4>2. <<>> \in Seq(AppType)  OBVIOUS
      <4> QED  BY <4>1, <4>2
    <3>5. texts' \subseteq AppType
      BY <3>1, <3>4 DEF TypeOK
    <3> QED  BY <1>5, <1>a, <2>2, <3>2, <3>3, <3>5, NullIsNoServer DEF List, TypeOK
  <2>3. CASE wpc' # "walk"
    BY <1>5, <1>a, <2>3 DEF List, TypeOK
  <2> QED  BY <2>2, <2>3
<1>6. CASE WalkApp
  <2>1. Head(nextApp) \in AppType /\ Tail(nextApp) \in Seq(AppType)
    BY <1>6, ElemsHead DEF WalkApp, TypeOK
  <2>2. gq' \in Seq(AppType \cup {Started})
    BY <1>6, <2>1, ElemsAppend DEF WalkApp, TypeOK
  <2> QED  BY <1>6, <2>1, <2>2 DEF WalkApp, TypeOK
<1>7. CASE WalkFreed
  <2>1. Head(nextApp) \in AppType /\ Tail(nextApp) \in Seq(AppType) /\ <<>> \in Seq(AppType)
    BY <1>7, ElemsHead DEF WalkFreed, TypeOK
  <2>2. gq' \in Seq(AppType \cup {Started})
    <3>1. Append(gq, Head(nextApp)) \in Seq(AppType \cup {Started})
      BY <2>1, ElemsAppend DEF TypeOK
    <3>2. gq' = gq \/ gq' = Append(gq, Head(nextApp))
      BY <1>7 DEF WalkFreed
    <3> QED  BY <3>1, <3>2 DEF TypeOK
  <2>3. nextApp' \in Seq(AppType)
    BY <1>7, <2>1 DEF WalkFreed, TypeOK
  <2>4. wpc' \in {"walk", "crashed"}
    BY <1>7 DEF WalkFreed
  <2> QED  BY <1>7, <1>a, <2>2, <2>3, <2>4 DEF WalkFreed, TypeOK
<1>8. CASE WalkEnds
  BY <1>8, <1>a DEF WalkEnds, TypeOK
<1>9. CASE onStop
  <2>1. wq' \in Seq(Events)
    BY <1>9, EventTypes DEF onStop, Take
  <2>2. live' \subseteq Place
    BY <1>9 DEF onStop, TypeOK
  <2> QED  BY <1>9, <2>1, <2>2 DEF onStop, Take, TypeOK
<1>10. CASE onLaunch
  <2>1. wq' \in Seq(Events) /\ Head(wq).arg \in AppType \cup {Test}
    BY <1>10, EventTypes DEF onLaunch, Take
  <2> QED  BY <1>10, <1>a, <2>1 DEF onLaunch, Take, TypeOK
<1>11. CASE Launch
  <2>1. m_server \in ServerType /\ arg \in AppType \cup {Test, NULL}
    BY <1>11 DEF Launch, TypeOK
  <2>2. m_server' \in ServerType
    BY <1>11, <2>1, ServerUpdate DEF Launch
  <2>3. wpc' \in {"launched", "loop", "stuck"}
    BY <1>11 DEF Launch
  <2> QED  BY <1>11, <1>a, <2>2, <2>3, NullIsNoServer DEF Launch, TypeOK
<1>12. CASE process_app_launched
  <2>1. wpc' \in {"loop", "session"}
    BY <1>12 DEF process_app_launched
  <2> QED  BY <1>12, <1>a, <2>1 DEF process_app_launched, TypeOK
<1>13. CASE Session
  BY <1>13, <1>a DEF Session, TypeOK
<1> QED
  BY <1>1, <1>2, <1>3, <1>4, <1>5, <1>6, <1>7, <1>8, <1>9, <1>10, <1>11, <1>12, <1>13
  DEF Worker

LEMMA TypedStep == Typed /\ [Next]_vars => Typed'
<1>1. Typed /\ UNCHANGED vars => Typed'
  BY DEF Typed, TypeOK, Slots, vars, gui, worker, heap
<1> QED  BY <1>1, UserTyped, GuiTyped, WorkerTyped DEF Next

(* The variables keep to their types, whatever is clicked.                 *)
THEOREM ClientTypeOK == Spec => []TypeOK
<1>1. Typed => TypeOK
  BY DEF Typed
<1> QED  BY <1>1, TypedInit, TypedStep, PTL DEF Spec

-----------------------------------------------------------------------------
(* A record comes onto the heap when there is none and leaves it with the  *)
(* pointer.                                                                *)
LEMMA TrackedStep == Typed /\ ServersTracked /\ [Next]_vars => ServersTracked'
<1> SUFFICES ASSUME Typed, ServersTracked, [Next]_vars PROVE ServersTracked'
  OBVIOUS
<1> DEFINE One(m, l) == l = IF m = NULL THEN {} ELSE {m.id}
<1>a. One(m_server, live)
  BY DEF ServersTracked
<1>b. Typed'
  BY TypedStep
<1>1. CASE Create
  <2>1. live = {}
    BY <1>1, <1>a DEF Create, Typed, Slots
  <2>2. CASE wpc' = "list"
    <3>1. m_server'.id = servers + 1 /\ live' = live \cup {servers + 1}
      BY <1>1, <2>2 DEF Create
    <3>2. m_server' # NULL
      BY <1>b, <2>2 DEF Typed, Slots
    <3> QED  BY <1>1, <1>b, <2>1, <3>1, <3>2 DEF ServersTracked, Typed, Slots
  <2>3. CASE wpc' # "list"
    BY <1>1, <2>1, <2>3 DEF Create, ServersTracked, gui, Typed, Slots
  <2> QED  BY <2>2, <2>3
<1>2. CASE onStop \/ Exit
  <2>1. live' = {} /\ m_server' = NULL
    BY <1>2, <1>a DEF onStop, Exit
  <2> QED  BY <2>1 DEF ServersTracked
<1>3. CASE List \/ Launch
  <2>1. m_server \in ServerType /\ m_server # NULL
    BY <1>3 DEF List, Launch, Typed, TypeOK, Slots
  <2>2. m_server'.id = m_server.id /\ live' = live
    <3>1. CASE List
      BY <3>1, <2>1 DEF List, ServerType
    <3>2. CASE Launch
      BY <3>2, <2>1 DEF Launch, ServerType, heap
    <3> QED  BY <1>3, <3>1, <3>2
  <2>3. m_server' # NULL /\ gpc' # "exited"
    <3>1. gpc # "exited" /\ gpc' = gpc
      BY <1>3 DEF List, Launch, gui, Typed, Slots
    <3>2. CASE wpc' \in {"walk", "launched"}
      BY <1>b, <3>1, <3>2 DEF Typed, Slots
    <3>3. CASE wpc' \notin {"walk", "launched"}
      <4>1. m_server' = m_server \/ m_server' = [m_server EXCEPT !.address = arg]
        BY <1>3, <3>3 DEF List, Launch
      <4>2. arg \in AppType \cup {Test, NULL} \/ m_server' = m_server
        BY <1>3, <3>3 DEF List, Launch, Typed, Slots
      <4> QED  BY ZenonT(40), <2>1, <3>1, <4>1, <4>2, ServerUpdate, NullIsNoServer
    <3> QED  BY <3>1, <3>2, <3>3
  <2> QED  BY <1>a, <2>1, <2>2, <2>3 DEF ServersTracked
<1>4. CASE UNCHANGED <<m_server, live>>
  <2>1. One(m_server', live')
    BY <1>4, <1>a
  <2>2. gpc' = "exited" => m_server' = NULL
    BY <1>b DEF Typed, Slots
  <2> QED  BY <2>1, <2>2 DEF ServersTracked
<1>5. [Next]_vars =>
        Create \/ onStop \/ Exit \/ List \/ Launch \/ UNCHANGED <<m_server, live>>
  BY DEF Next, User, Gui, Worker, on_startButton_clicked, on_stopButton_clicked,
     on_viewDoubleClick, CloseWindow, onThreadStart, on_addApp, Boot, Finish, onStart,
     WalkApp, WalkFreed, WalkEnds, onLaunch, process_app_launched, Session, Take, vars, gui,
     worker, heap
<1> QED  BY <1>1, <1>2, <1>3, <1>4, <1>5

(* No order of start, stop and close frees a record twice, loses one or    *)
(* leaves m_server pointing to one that is gone.                           *)
THEOREM ClientServersTracked == Spec => []ServersTracked
<1>1. Init => ServersTracked
  BY DEF Init, ServersTracked
<1>2. (Typed /\ ServersTracked) /\ [Next]_vars => (Typed /\ ServersTracked)'
  BY TypedStep, TrackedStep
<1> QED  BY <1>1, <1>2, TypedInit, PTL DEF Spec

-----------------------------------------------------------------------------
(* Texts are never freed, and whatever points to one was listed by a       *)
(* server that exists or existed.                                          *)
Reachable ==
  /\ Elems(gq) \subseteq {Started} \cup texts
  /\ Elems(nextApp) \subseteq texts
  /\ m_server # NULL => Elems(m_server.appList) \subseteq texts /\ m_server.id <= servers
  /\ freedApps \subseteq texts
  /\ \A t \in texts : t.server <= servers

(* What is left of a walk is of this server, what the last request listed  *)
(* comes first, as a run, and those of it that are freed come before.      *)
Walking(s, rest, freed) ==
  \A j \in 1..Len(rest) :
    /\ rest[j].server = s.id /\ rest[j].fetch <= s.fetches
    /\ rest[j].fetch = s.fetches =>
         /\ \A i \in 1..j : rest[i].fetch = s.fetches
         /\ rest[j].at = rest[1].at + (j - 1)
         /\ \A f \in freed : (f.server = s.id /\ f.fetch = s.fetches) => f.at < rest[j].at

WalkInv ==
  m_server # NULL =>
    /\ m_server.fetches = 0 => wpc \in {"list", "stuck"}
    /\ wpc = "crashed" => m_server.fetches > 1
    /\ \A f \in freedApps : f.server = m_server.id => f.fetch <= m_server.fetches
    /\ \A i \in 1..Len(m_server.appList) :
         m_server.appList[i].server = m_server.id /\ m_server.appList[i].fetch <= m_server.fetches
    /\ wpc = "walk" => Walking(m_server, nextApp, freedApps)

(* Moving the walk on. *)
LEMMA WalkingTail ==
  ASSUME NEW s \in ServerType, NEW rest \in Seq(AppType), rest # <<>>,
         NEW freed \in SUBSET AppType, Walking(s, rest, freed)
  PROVE  /\ Walking(s, Tail(rest), freed \cup {Head(rest)})
         /\ Head(rest).server = s.id /\ Head(rest).fetch <= s.fetches
<1>1. /\ Len(rest) \in Nat /\ Len(rest) >= 1 /\ Head(rest) = rest[1] /\ 1 \in 1..Len(rest)
      /\ Len(Tail(rest)) = Len(rest) - 1
      /\ \A j \in 1..Len(Tail(rest)) : Tail(rest)[j] = rest[j + 1]
  OBVIOUS
<1>2. ASSUME NEW j \in 1..Len(rest) PROVE rest[j].at \in Nat /\ rest[j].fetch \in Nat
  <2>1. rest[j] \in AppType
    OBVIOUS
  <2> QED  BY <2>1 DEF AppType, Place
<1>3. Head(rest).server = s.id /\ Head(rest).fetch <= s.fetches
  BY <1>1 DEF Walking
<1> SUFFICES ASSUME NEW j \in 1..Len(Tail(rest))
             PROVE  /\ Tail(rest)[j].server = s.id /\ Tail(rest)[j].fetch <= s.fetches
                    /\ Tail(rest)[j].fetch = s.fetches =>
                         /\ \A i \in 1..j : Tail(rest)[i].fetch = s.fetches
                         /\ Tail(rest)[j].at = Tail(rest)[1].at + (j - 1)
                         /\ \A f \in freed \cup {Head(rest)} :
                              (f.server = s.id /\ f.fetch = s.fetches) => f.at < Tail(rest)[j].at
  BY <1>3 DEF Walking
<1>4. /\ j \in Nat /\ 1 \in 1..Len(Tail(rest)) /\ 2 \in 1..Len(rest) /\ j + 1 \in 1..Len(rest)
      /\ Tail(rest)[j] = rest[j + 1] /\ Tail(rest)[1] = rest[2]
  BY <1>1
<1>5. Tail(rest)[j].server = s.id /\ Tail(rest)[j].fetch <= s.fetches
  BY <1>4 DEF Walking
<1>6. ASSUME Tail(rest)[j].fetch = s.fetches
      PROVE  /\ \A i \in 1..j : Tail(rest)[i].fetch = s.fetches
             /\ Tail(rest)[j].at = Tail(rest)[1].at + (j - 1)
             /\ \A f \in freed \cup {Head(rest)} :
                  (f.server = s.id /\ f.fetch = s.fetches) => f.at < Tail(rest)[j].at
  <2>1. /\ \A i \in 1..(j + 1) : rest[i].fetch = s.fetches
        /\ rest[j + 1].at = rest[1].at + ((j + 1) - 1)
        /\ \A f \in freed : (f.server = s.id /\ f.fetch = s.fetches) => f.at < rest[j + 1].at
    BY <1>4, <1>6 DEF Walking
  <2>2. \A i \in 1..j : i + 1 \in 1..(j + 1) /\ i \in 1..Len(Tail(rest))
    BY <1>1, <1>4
  <2>3. \A i \in 1..j : Tail(rest)[i].fetch = s.fetches
    BY <1>1, <2>1, <2>2
  <2>4. rest[2].at = rest[1].at + (2 - 1)
    <3>1. 2 \in 1..(j + 1)
      BY <1>4
    <3>2. rest[2].fetch = s.fetches
      BY <2>1, <3>1
    <3> QED  BY <1>4, <3>2 DEF Walking
  <2>5. rest[1].at \in Nat /\ rest[2].at \in Nat /\ rest[j + 1].at \in Nat
    BY <1>1, <1>2, <1>4
  <2>6. rest[j + 1].at = rest[2].at + (j - 1) /\ rest[1].at < rest[j + 1].at
    <3> DEFINE first == rest[1].at
               next  == rest[2].at
               this  == rest[j + 1].at
    <3>1. this = first + ((j + 1) - 1) /\ next = first + (2 - 1)
      BY <2>1, <2>4
    <3>2. first \in Nat /\ next \in Nat /\ this \in Nat /\ j \in Nat /\ j >= 1
      BY <1>4, <2>5
    <3> HIDE DEF first, next, this
    <3>3. this = next + (j - 1) /\ first < this
      BY <3>1, <3>2
    <3> QED  BY <3>3 DEF first, next, this
  <2> QED  BY <1>1, <1>4, <2>1, <2>3, <2>6
<1> QED  BY <1>5, <1>6

(* Behind an application that is freed there is none of the last request.  *)
LEMMA WalkingFreed ==
  ASSUME NEW s \in ServerType, NEW rest \in Seq(AppType), rest # <<>>,
         NEW freed \in SUBSET AppType, Walking(s, rest, freed), Head(rest) \in freed
  PROVE  /\ s.fetches > 1
         /\ \A j \in 1..Len(Tail(rest)) : Tail(rest)[j].fetch < s.fetches
         /\ Walking(s, Tail(rest), freed)
<1>a. /\ Len(rest) \in Nat /\ Head(rest) = rest[1] /\ 1 \in 1..Len(rest)
      /\ Len(Tail(rest)) = Len(rest) - 1
      /\ \A j \in 1..Len(Tail(rest)) : Tail(rest)[j] = rest[j + 1]
  OBVIOUS
<1>b. \A j \in 1..Len(Tail(rest)) : j + 1 \in 1..Len(rest)
  BY <1>a
<1>1. /\ Len(rest) \in Nat /\ Head(rest) = rest[1] /\ 1 \in 1..Len(rest)
      /\ \A j \in 1..Len(Tail(rest)) : Tail(rest)[j] = rest[j + 1] /\ j + 1 \in 1..Len(rest)
  BY <1>a, <1>b
<1>2. ASSUME NEW j \in 1..Len(rest) PROVE rest[j].at \in Nat /\ rest[j].fetch \in Nat \ {0}
  <2>1. rest[j] \in AppType
    OBVIOUS
  <2> QED  BY <2>1 DEF AppType, Place
<1>3. s.fetches \in Nat
  BY DEF ServerType
<1>4. rest[1].server = s.id /\ rest[1].fetch <= s.fetches /\ rest[1].fetch # s.fetches
  BY <1>1, <1>2 DEF Walking
<1>5. \A j \in 1..Len(rest) : rest[j].fetch < s.fetches
  <2> SUFFICES ASSUME NEW j \in 1..Len(rest) PROVE rest[j].fetch < s.fetches
    OBVIOUS
  <2>1. rest[j].fetch <= s.fetches
    BY DEF Walking
  <2>2. rest[j].fetch # s.fetches
    <3>1. 1 \in 1..j
      OBVIOUS
    <3> QED  BY <1>4, <3>1 DEF Walking
  <2> QED  BY <1>2, <1>3, <2>1, <2>2
<1>6. s.fetches > 1
  BY <1>1, <1>2, <1>3, <1>5
<1>7. \A j \in 1..Len(Tail(rest)) : Tail(rest)[j].fetch < s.fetches
  BY <1>1, <1>5
<1>8. freed \cup {Head(rest)} = freed
  OBVIOUS
<1> QED  BY <1>6, <1>7, <1>8, WalkingTail

(* The steps that change what the two invariants speak of.                 *)
LEMMA HeapSteps ==
  ASSUME [Next]_vars
  PROVE  \/ onThreadStart \/ on_addApp \/ Exit \/ Boot \/ Create \/ List \/ WalkApp \/ WalkFreed
         \/ onStop \/ Launch
         \/ /\ UNCHANGED <<gq, nextApp, m_server, servers, freedApps, texts>>
            /\ wpc' \in {"walk", "crashed"} => wpc' = wpc
            /\ wpc \in {"list", "stuck"} => wpc' = wpc
BY DEF Next, User, Gui, Worker, on_startButton_clicked, on_stopButton_clicked,
   on_viewDoubleClick, CloseWindow, Finish, onStart, WalkEnds, onLaunch,
   process_app_launched, Session, Take, vars, gui, worker, heap

LEMMA ReachableStep == Typed /\ Reachable /\ [Next]_vars => Reachable'
<1> SUFFICES ASSUME Typed, Reachable, [Next]_vars PROVE Reachable'
  OBVIOUS
<1> USE DEF Reachable
<1>a. /\ gq \in Seq(AppType \cup {Started}) /\ nextApp \in Seq(AppType) /\ servers \in Nat
      /\ m_server # NULL => m_server \in ServerType
      /\ texts \subseteq AppType
  BY DEF Typed, TypeOK
<1>1. CASE onThreadStart \/ on_addApp
  <2>1. Elems(gq') \subseteq Elems(gq)
    BY <1>1, <1>a, ElemsHead DEF onThreadStart, on_addApp
  <2> QED  BY <1>1, <2>1 DEF onThreadStart, on_addApp, worker, heap
<1>2. CASE Exit \/ onStop
  BY <1>2 DEF Exit, onStop, Take, gui
<1>3. CASE Boot
  <2>1. Elems(gq') = Elems(gq) \cup {Started}
    BY <1>3, <1>a, ElemsAppend DEF Boot
  <2> QED  BY <1>3, <2>1 DEF Boot, heap
<1>4. CASE Create
  <2>1. CASE wpc' = "list"
    <3>1. /\ m_server'.appList = <<>> /\ m_server'.id = servers + 1 /\ servers' = servers + 1
          /\ UNCHANGED <<gq, nextApp, freedApps, texts>>
      BY <1>4, <2>1 DEF Create, gui
    <3>2. Elems(m_server'.appList) = {}
      BY <3>1 DEF Elems
    <3>3. \A t \in texts : t.server <= servers + 1
      BY <1>a DEF AppType, Place
    <3> QED  BY <1>a, <3>1, <3>2, <3>3
  <2>2. CASE wpc' # "list"
    BY <1>4, <2>2 DEF Create, gui
  <2> QED  BY <2>1, <2>2
<1>5. CASE List
  <2>1. m_server \in ServerType /\ m_server # NULL
    BY <1>5, <1>a DEF List, Typed, Slots
  <2>2. CASE wpc' = "walk"
    <3>1. PICK new \in {<<>>, Listed(m_server)} :
            /\ m_server' = [m_server EXCEPT !.appList = new \o @, !.fetches = @ + 1]
            /\ nextApp' = m_server'.appList
            /\ texts' = texts \cup {new[j] : j \in 1..Len(new)}
      BY <1>5, <2>2 DEF List
    <3>2. new \in Seq(AppType) /\ \A j \in 1..Len(new) : new[j].server = m_server.id
      <4>1. CASE new = <<>>  BY <4>1
      <4>2. CASE new = Listed(m_server)  BY <2>1, <4>2, ListedType
      <4> QED  BY <3>1, <4>1, <4>2
    <3>3. m_server.appList \in Seq(AppType)
      BY <2>1 DEF ServerType
    <3>4. m_server'.appList = new \o m_server.appList /\ m_server'.id = m_server.id
      BY <2>1, <3>1 DEF ServerType
    <3>5. Elems(m_server'.appList) = Elems(new) \cup Elems(m_server.appList)
      BY <3>2, <3>3, <3>4, ElemsConcat
    <3>6. texts' = texts \cup Elems(new)
      BY <3>1 DEF Elems
    <3>7. \A t \in texts' : t.server <= servers
      BY <2>1, <3>2, <3>6 DEF Elems
    <3>8. UNCHANGED <<gq, servers, freedApps>>
      BY <1>5 DEF List, gui
    <3> QED  BY <2>1, <3>1, <3>4, <3>5, <3>6, <3>7, <3>8
  <2>3. CASE wpc' # "walk"
    BY <1>5, <2>3 DEF List, gui
  <2> QED  BY <2>2, <2>3
<1>6. CASE WalkApp
  <2>1. Head(nextApp) \in texts /\ Head(nextApp) \in AppType
        /\ Elems(nextApp') \subseteq Elems(nextApp)
    BY <1>6, <1>a, ElemsHead DEF WalkApp
  <2>2. Elems(gq') = Elems(gq) \cup {Head(nextApp)}
    BY <1>6, <1>a, <2>1, ElemsAppend DEF WalkApp
  <2> QED  BY <1>6, <2>1, <2>2 DEF WalkApp
<1>7. CASE WalkFreed
  <2>1. Head(nextApp) \in texts /\ Head(nextApp) \in AppType
        /\ Elems(Tail(nextApp)) \subseteq Elems(nextApp) /\ Elems(<<>>) = {}
    <3>1. Elems(<<>>) = {}  BY DEF Elems
    <3> QED  BY <1>7, <1>a, <3>1, ElemsHead DEF WalkFreed
  <2>2. Elems(Append(gq, Head(nextApp))) = Elems(gq) \cup {Head(nextApp)}
    BY <1>a, <2>1, ElemsAppend
  <2>3. gq' \in {gq, Append(gq, Head(nextApp))} /\ nextApp' \in {nextApp, <<>>, Tail(nextApp)}
    BY <1>7 DEF WalkFreed
  <2>4. UNCHANGED <<m_server, servers, freedApps, texts>>
    BY <1>7 DEF WalkFreed, heap
  <2>5. Elems(gq') \subseteq {Started} \cup texts
    <3>1. CASE gq' = gq  BY <3>1
    <3>2. CASE gq' = Append(gq, Head(nextApp))
      <4>1. Elems(gq') = Elems(gq) \cup {Head(nextApp)}  BY <2>2, <3>2
      <4> QED  BY <2>1, <4>1
    <3> QED  BY <2>3, <3>1, <3>2
  <2>6. Elems(nextApp') \subseteq texts
    BY <2>1, <2>3
  <2> QED  BY <2>4, <2>5, <2>6
<1>8. CASE Launch
  <2>1. m_server \in ServerType /\ m_server # NULL
    BY <1>8, <1>a DEF Launch, Typed, Slots
  <2>2. m_server'.id = m_server.id /\ m_server'.appList = m_server.appList
    BY <1>8, <2>1 DEF Launch, ServerType
  <2> QED  BY <1>8, <2>1, <2>2 DEF Launch, gui, heap
<1>9. CASE UNCHANGED <<gq, nextApp, m_server, servers, freedApps, texts>>
  BY <1>9
<1> QED  BY <1>1, <1>2, <1>3, <1>4, <1>5, <1>6, <1>7, <1>8, <1>9, HeapSteps

LEMMA WalkInvStep == Typed /\ Reachable /\ WalkInv /\ [Next]_vars => WalkInv'
<1> SUFFICES ASSUME Typed, Reachable, WalkInv, [Next]_vars PROVE WalkInv'
  OBVIOUS
<1> USE DEF WalkInv
<1>a. /\ nextApp \in Seq(AppType) /\ servers \in Nat
      /\ m_server # NULL => m_server \in ServerType
      /\ freedApps \in SUBSET AppType
  BY DEF Typed, TypeOK
<1>1. CASE onThreadStart \/ on_addApp
  BY <1>1 DEF onThreadStart, on_addApp, worker, heap
<1>2. CASE Exit \/ onStop
  BY <1>2 DEF Exit, onStop
<1>3. CASE Boot
  BY <1>3 DEF Boot, heap
<1>4. CASE Create
  <2>1. CASE wpc' = "list"
    <3>1. /\ m_server'.appList = <<>> /\ m_server'.id = servers + 1 /\ m_server'.fetches = 0
          /\ freedApps' = freedApps
      BY <1>4, <2>1 DEF Create
    <3>2. \A f \in freedApps : f.server # servers + 1
      BY <1>a DEF Reachable, AppType, Place
    <3> QED  BY <2>1, <3>1, <3>2
  <2>2. CASE wpc' # "list"
    BY <1>4, <2>2 DEF Create, Typed, Slots
  <2> QED  BY <2>1, <2>2
<1>5. CASE List
  <2>1. m_server \in ServerType /\ m_server # NULL
    BY <1>5, <1>a DEF List, Typed, Slots
  <2>2. CASE wpc' = "walk"
    <3>1. PICK new \in {<<>>, Listed(m_server)} :
            /\ m_server' = [m_server EXCEPT !.appList = new \o @, !.fetches = @ + 1]
            /\ nextApp' = m_server'.appList
      BY <1>5, <2>2 DEF List
    <3>2. /\ new \in Seq(AppType)
          /\ \A j \in 1..Len(new) : /\ new[j].server = m_server.id /\ new[j].at = j
                                     /\ new[j].fetch = m_server.fetches + 1
      <4>1. CASE new = <<>>  BY <4>1
      <4>2. CASE new = Listed(m_server)  BY <2>1, <4>2, ListedType
      <4> QED  BY <3>1, <4>1, <4>2
    <3> DEFINE old == m_server.appList
               n   == m_server.fetches
    <3>3. /\ m_server'.appList = new \o old /\ m_server'.id = m_server.id
          /\ m_server'.fetches = n + 1 /\ n \in Nat /\ old \in Seq(AppType)
      BY <2>1, <3>1 DEF ServerType
    <3>4. freedApps' = freedApps /\ nextApp' = new \o old
      BY <1>5, <3>1, <3>3 DEF List
    <3>5. \A f \in freedApps : f.server = m_server.id => f.fetch \in Nat /\ f.fetch <= n
      BY <1>a, <2>1 DEF AppType, Place
    <3>6. \A i \in 1..Len(old) :
            old[i].server = m_server.id /\ old[i].fetch <= n /\ old[i].fetch \in Nat
      <4>1. \A i \in 1..Len(old) : old[i] \in AppType
        BY <3>3
      <4> QED  BY <2>1, <4>1 DEF AppType, Place
    <3> HIDE DEF old, n
    <3>7. /\ Len(new) \in Nat /\ Len(old) \in Nat /\ Len(new \o old) = Len(new) + Len(old)
          /\ \A i \in 1..Len(new) : (new \o old)[i] = new[i]
          /\ \A i \in 1..Len(new \o old) : i > Len(new) =>
               (new \o old)[i] = old[i - Len(new)] /\ i - Len(new) \in 1..Len(old)
      BY <3>2, <3>3
    <3>8. ASSUME NEW i \in 1..Len(new \o old)
          PROVE  /\ (new \o old)[i].server = m_server.id /\ (new \o old)[i].fetch <= n + 1
                 /\ i > Len(new) => (new \o old)[i].fetch # n + 1
                 /\ i <= Len(new) => (new \o old)[i].fetch = n + 1 /\ (new \o old)[i].at = i
      <4>1. CASE i > Len(new)
        BY <3>3, <3>6, <3>7, <4>1
      <4>2. CASE i <= Len(new)
        <5>1. i \in 1..Len(new)
          BY <3>7, <4>2
        <5> QED  BY <3>2, <3>3, <3>7, <4>2, <5>1 DEF n
      <4> QED  BY <3>7, <4>1, <4>2
    <3>9. Walking(m_server', nextApp', freedApps')
      <4> SUFFICES ASSUME NEW j \in 1..Len(new \o old)
                   PROVE  /\ (new \o old)[j].server = m_server.id
                          /\ (new \o old)[j].fetch <= n + 1
                          /\ (new \o old)[j].fetch = n + 1 =>
                               /\ \A i \in 1..j : (new \o old)[i].fetch = n + 1
                               /\ (new \o old)[j].at = (new \o old)[1].at + (j - 1)
                               /\ \A f \in freedApps :
                                    (f.server = m_server.id /\ f.fetch = n + 1)
                                      => f.at < (new \o old)[j].at
        BY <3>3, <3>4 DEF Walking
      <4>1. ASSUME (new \o old)[j].fetch = n + 1
            PROVE  /\ \A i \in 1..j : (new \o old)[i].fetch = n + 1
                   /\ (new \o old)[j].at = (new \o old)[1].at + (j - 1)
        <5>1. j <= Len(new) /\ j \in Nat
          BY <3>7, <3>8, <4>1
        <5>2. \A i \in 1..j : i \in 1..Len(new \o old) /\ i <= Len(new)
          BY <3>7, <5>1
        <5>3. 1 \in 1..j
          OBVIOUS
        <5>4. (new \o old)[j].at = j /\ (new \o old)[1].at = 1
          BY <3>8, <5>1, <5>2, <5>3
        <5> QED  BY <3>8, <5>1, <5>2, <5>4
      <4>2. \A f \in freedApps : f.server = m_server.id => f.fetch # n + 1
        BY <3>3, <3>5
      <4> QED  BY <3>8, <4>1, <4>2
    <3>10. \A f \in freedApps' : f.server = m_server'.id => f.fetch <= m_server'.fetches
      BY <3>3, <3>4, <3>5
    <3>11. m_server'.fetches # 0
      BY <3>3
    <3> QED  BY <2>2, <3>3, <3>8, <3>9, <3>10, <3>11
  <2>3. CASE wpc' # "walk"
    BY <1>5, <2>3 DEF List
  <2> QED  BY <2>2, <2>3
<1>6. CASE WalkApp
  <2>1. /\ nextApp # <<>> /\ nextApp' = Tail(nextApp) /\ freedApps' = freedApps \cup {Head(nextApp)}
        /\ UNCHANGED <<m_server, wpc>> /\ wpc = "walk" /\ m_server # NULL
    BY <1>6 DEF WalkApp, Typed, Slots
  <2>2. /\ Walking(m_server, Tail(nextApp), freedApps \cup {Head(nextApp)})
        /\ Head(nextApp).server = m_server.id /\ Head(nextApp).fetch <= m_server.fetches
    BY <1>a, <2>1, WalkingTail
  <2> QED  BY <2>1, <2>2
<1>7. CASE WalkFreed
  <2>1. /\ nextApp # <<>> /\ Head(nextApp) \in freedApps /\ wpc = "walk" /\ m_server # NULL
        /\ UNCHANGED <<m_server, freedApps>> /\ nextApp' \in {nextApp, <<>>, Tail(nextApp)}
    BY <1>7 DEF WalkFreed, heap, Typed, Slots
  <2>2. m_server.fetches > 1 /\ Walking(m_server, Tail(nextApp), freedApps)
    BY <1>a, <2>1, WalkingFreed
  <2>3. Walking(m_server, <<>>, freedApps)
    BY DEF Walking
  <2>4. Walking(m_server, nextApp', freedApps)
    BY <2>1, <2>2, <2>3
  <2>5. m_server.fetches # 0
    BY <2>2
  <2> QED  BY <2>1, <2>2, <2>4, <2>5
<1>8. CASE Launch
  <2>1. m_server \in ServerType /\ m_server # NULL /\ wpc = "launch"
    BY <1>8, <1>a DEF Launch, Typed, Slots
  <2>2. /\ m_server'.id = m_server.id /\ m_server'.appList = m_server.appList
        /\ m_server'.fetches = m_server.fetches
    BY <1>8, <2>1 DEF Launch, ServerType
  <2>3. wpc' \in {"launched", "loop", "stuck"} /\ freedApps' = freedApps
    BY <1>8 DEF Launch, heap
  <2> QED  BY <2>1, <2>2, <2>3
<1>9. CASE /\ UNCHANGED <<gq, nextApp, m_server, servers, freedApps, texts>>
           /\ wpc' \in {"walk", "crashed"} => wpc' = wpc
           /\ wpc \in {"list", "stuck"} => wpc' = wpc
  BY <1>9
<1> QED  BY <1>1, <1>2, <1>3, <1>4, <1>5, <1>6, <1>7, <1>8, <1>9, HeapSteps

(* No queued pointer loses its text, and a walk meets an application that  *)
(* was freed only in a second listing of the same server.                  *)
THEOREM ClientNoDangling == Spec => []NoDangling
<1> DEFINE Inv == Typed /\ Reachable /\ WalkInv
<1>1. Init => Inv
  BY TypedInit DEF Init, Reachable, WalkInv, Elems
<1>2. Inv /\ [Next]_vars => Inv'
  BY TypedStep, ReachableStep, WalkInvStep
<1>3. Inv => NoDangling
  <2> SUFFICES ASSUME Inv PROVE NoDangling
    OBVIOUS
  <2>1. TextsAlive
    BY DEF Reachable, TextsAlive, Elems
  <2>2. wpc \in {"walk", "crashed"} => m_server # NULL /\ m_server \in ServerType
    BY DEF Typed, TypeOK, Slots
  <2>3. nextApp \in Seq(AppType) /\ freedApps \in SUBSET AppType
    BY DEF Typed, TypeOK
  <2>4. (wpc = "walk" /\ nextApp # <<>> /\ Head(nextApp) \in freedApps) => m_server.fetches > 1
    BY <2>2, <2>3, WalkingFreed DEF WalkInv
  <2> QED  BY <2>1, <2>2, <2>4 DEF NoDangling, WalkFresh, WalkInv
<1> QED  BY <1>1, <1>2, <1>3, PTL DEF Spec

-----------------------------------------------------------------------------
(* What a queue of the worker may hold, and in which order.                *)
Stops(q)   == \A e \in Elems(q) : e.op = "stop"
NoStart(q) == \A e \in Elems(q) : e.op # "start"
OfTest(e)  == e.op = "launch" /\ e.arg = Test
NoTest(q)  == \A e \in Elems(q) : ~OfTest(e)

TestFirst(q) == \A i, j \in 1..Len(q) : (i < j /\ q[i].op = "start") => ~OfTest(q[j])
StartLast(q) == \A i, j \in 1..Len(q) : (i < j /\ q[i].op = "start") => q[j].op = "stop"

LEMMA QueueTail ==
  ASSUME NEW q \in Seq(Events), q # <<>>
  PROVE  /\ Elems(Tail(q)) \subseteq Elems(q) /\ Head(q) \in Elems(q)
         /\ TestFirst(q) => TestFirst(Tail(q)) /\ (Head(q).op = "start" => NoTest(Tail(q)))
         /\ StartLast(q) => StartLast(Tail(q)) /\ (Head(q).op = "start" => Stops(Tail(q)))
<1>1. /\ Len(q) \in Nat /\ Len(Tail(q)) = Len(q) - 1 /\ 1 \in 1..Len(q) /\ Head(q) = q[1]
      /\ \A i \in 1..Len(q) - 1 : Tail(q)[i] = q[i + 1]
  OBVIOUS
<1>2. Elems(Tail(q)) \subseteq Elems(q) /\ Head(q) \in Elems(q)
  BY ElemsHead
<1>3. \A i \in 1..Len(Tail(q)) : i + 1 \in 1..Len(q) /\ 1 < i + 1 /\ Tail(q)[i] = q[i + 1]
  BY <1>1
<1>4. \A i, j \in 1..Len(Tail(q)) : i < j => i + 1 < j + 1
  BY <1>1
<1> QED  BY <1>1, <1>2, <1>3, <1>4 DEF TestFirst, StartLast, NoTest, Stops, Elems

LEMMA QueueAppend ==
  ASSUME NEW q \in Seq(Events), NEW e \in Events
  PROVE  /\ Append(q, e) \in Seq(Events) /\ Elems(Append(q, e)) = Elems(q) \cup {e}
         /\ (TestFirst(q) /\ (OfTest(e) => NoStart(q))) => TestFirst(Append(q, e))
         /\ (StartLast(q) /\ (e.op # "stop" => NoStart(q))) => StartLast(Append(q, e))
<1>1. Append(q, e) \in Seq(Events) /\ Elems(Append(q, e)) = Elems(q) \cup {e}
  BY ElemsAppend
<1>2. /\ Len(q) \in Nat /\ Len(Append(q, e)) = Len(q) + 1 /\ Append(q, e)[Len(q) + 1] = e
      /\ \A i \in 1..Len(q) : Append(q, e)[i] = q[i] /\ q[i] \in Elems(q)
  BY DEF Elems
<1>3. \A i, j \in 1..Len(Append(q, e)) :
        i < j => i \in 1..Len(q) /\ (j \in 1..Len(q) \/ j = Len(q) + 1)
  BY <1>2
<1>4. ASSUME TestFirst(q), OfTest(e) => NoStart(q) PROVE TestFirst(Append(q, e))
  BY <1>2, <1>3, <1>4 DEF TestFirst, NoStart
<1>5. ASSUME StartLast(q), e.op # "stop" => NoStart(q) PROVE StartLast(Append(q, e))
  BY <1>2, <1>3, <1>5 DEF StartLast, NoStart
<1> QED  BY <1>1, <1>4, <1>5

(* The steps that change what the invariants below speak of; the others    *)
(* only leave a slot or the event loop.                                    *)
Leave ==
  /\ UNCHANGED <<gq, rows, connected, wq, arg, m_server, nextApp, overlap>>
  /\ \/ wpc' = wpc
     \/ wpc = "loop" /\ wpc' = "finished"
     \/ wpc = "walk" /\ nextApp = <<>> /\ wpc' = "loop"
     \/ wpc = "launched" /\ wpc' = "loop"
     \/ wpc = "launched" /\ wpc' = "session" /\ m_server.address # NULL
     \/ wpc = "session" /\ wpc' \in {"loop", "stuck"}

LEMMA WindowSteps ==
  ASSUME [Next]_vars
  PROVE  \/ on_startButton_clicked \/ on_stopButton_clicked \/ on_viewDoubleClick
         \/ onThreadStart \/ on_addApp \/ Exit \/ Boot \/ onStart \/ Create \/ List
         \/ WalkApp \/ WalkFreed \/ onStop \/ onLaunch \/ Launch \/ Leave
<1>1. CloseWindow \/ Finish \/ WalkEnds \/ Session \/ UNCHANGED vars => Leave
  BY DEF CloseWindow, Finish, WalkEnds, Session, Leave, vars, gui, worker, heap
<1>2. process_app_launched => Leave
  BY DEF process_app_launched, Leave, gui, heap
<1> QED  BY <1>1, <1>2 DEF Next, User, Gui, Worker

-----------------------------------------------------------------------------
(* Before onThreadStart the worker has heard nothing; afterwards the       *)
(* window's queue holds applications only.                                 *)
Signals ==
  /\ ~connected =>
       /\ wq = <<>> /\ m_server = NULL
       /\ \/ wpc = "boot" /\ gq = <<>>
          \/ wpc \in {"loop", "finished"} /\ Len(gq) = 1 /\ gq[1] = Started
  /\ connected => wpc # "boot" /\ gq \in Seq(AppType)

(* The row of the constructor is there before the first start only, and a  *)
(* launch of it is handled before the first start, when there is no server *)
(* to launch on.                                                           *)
NoServerYet == m_server = NULL /\ wpc \in {"boot", "loop", "finished"}

Launching == wpc \in {"launch", "launched", "session"}

TestRow ==
  /\ Test \in Elems(rows) => NoServerYet /\ NoStart(wq)
  /\ NoServerYet \/ NoTest(wq)
  /\ TestFirst(wq)
  /\ Launching => m_server # NULL /\ arg \in AppType

LEMMA SignalsStep == Typed /\ Signals /\ [Next]_vars => Signals'
<1> SUFFICES ASSUME Typed, Signals, [Next]_vars PROVE Signals'
  OBVIOUS
<1> USE DEF Signals
<1>a. /\ gq \in Seq(AppType \cup {Started}) /\ nextApp \in Seq(AppType) /\ connected \in BOOLEAN
  BY DEF Typed, TypeOK
<1>1. CASE on_startButton_clicked \/ on_stopButton_clicked \/ on_viewDoubleClick
  <2>1. UNCHANGED <<gq, connected, m_server, wpc>>
    BY <1>1 DEF on_startButton_clicked, on_stopButton_clicked, on_viewDoubleClick
  <2>2. ~connected => wq' = wq
    BY <1>1 DEF on_startButton_clicked, on_stopButton_clicked, on_viewDoubleClick, Emit
  <2> QED  BY <2>1, <2>2
<1>2. CASE onThreadStart
  <2>1. gq' = Tail(gq) /\ connected' = TRUE /\ wpc' = wpc /\ gq # <<>> /\ Head(gq) = Started
    BY <1>2 DEF onThreadStart, worker
  <2>2. CASE connected
    <3>1. Head(gq) \in AppType  BY <2>1, <2>2
    <3> QED  BY <2>1, <3>1, EventsAreNoApps
  <2>3. CASE ~connected
    <3>1. wpc # "boot" /\ Len(gq) = 1
      BY <2>1, <2>3
    <3>2. Tail(gq) \in Seq(AppType \cup {Started}) /\ Len(Tail(gq)) = 0
      BY <1>a, <2>1, <3>1
    <3>3. gq' = <<>>
      BY <2>1, <3>2, EmptySeq
    <3>4. <<>> \in Seq(AppType)
      OBVIOUS
    <3> QED  BY <2>1, <3>1, <3>3, <3>4
  <2> QED  BY <2>2, <2>3
<1>3. CASE on_addApp
  <2>1. /\ gq' = Tail(gq) /\ UNCHANGED <<connected, wpc, m_server, wq>> /\ gq # <<>>
        /\ Head(gq) # Started
    BY <1>3 DEF on_addApp, worker
  <2>2. connected
    BY <1>a, <2>1
  <2> QED  BY <2>1, <2>2, ElemsHead
<1>4. CASE Exit \/ onStop
  <2>1. CASE Exit
    BY <2>1 DEF Exit
  <2>2. CASE onStop
    BY <2>2 DEF onStop, Take, gui
  <2> QED  BY <1>4, <2>1, <2>2
<1>5. CASE Boot
  <2>1. /\ gq' = Append(gq, Started) /\ wpc = "boot" /\ wpc' = "loop"
        /\ UNCHANGED <<connected, wq, m_server>>
    BY <1>5 DEF Boot
  <2>2. ~connected /\ gq = <<>>
    BY <1>a, <2>1
  <2>3. Len(gq') = 1 /\ gq'[1] = Started
    BY <2>1, <2>2
  <2> QED  BY <2>1, <2>2, <2>3
<1>6. CASE onStart \/ onLaunch
  BY <1>6 DEF onStart, onLaunch, Take, gui
<1>7. CASE Create \/ List \/ Launch
  BY <1>7 DEF Create, List, Launch, gui
<1>8. CASE WalkApp \/ WalkFreed
  <2>1. wpc = "walk" /\ wpc' # "boot" /\ connected' = connected /\ nextApp # <<>>
    BY <1>8 DEF WalkApp, WalkFreed
  <2>2. connected
    BY <2>1
  <2>3. gq' = gq \/ gq' = Append(gq, Head(nextApp))
    BY <1>8 DEF WalkApp, WalkFreed
  <2>4. Head(nextApp) \in AppType
    BY <1>a, <2>1, ElemsHead
  <2>5. Append(gq, Head(nextApp)) \in Seq(AppType)
    BY <2>2, <2>4, ElemsAppend
  <2> QED  BY <2>1, <2>2, <2>3, <2>5
<1>9. CASE Leave
  BY <1>9 DEF Leave
<1> QED
  BY <1>1, <1>2, <1>3, <1>4, <1>5, <1>6, <1>7, <1>8, <1>9, WindowSteps

(* A click emits one event at most, at the end of the queue.               *)
LEMMA Emitted ==
  ASSUME Typed, NEW e \in Events, Emit(e)
  PROVE  /\ Elems(wq') \subseteq Elems(wq) \cup {e} /\ Elems(wq) \subseteq Elems(wq')
         /\ (TestFirst(wq) /\ (OfTest(e) => NoStart(wq))) => TestFirst(wq')
         /\ (StartLast(wq) /\ (e.op # "stop" => NoStart(wq))) => StartLast(wq')
<1>1. wq \in Seq(Events)
  BY DEF Typed, TypeOK
<1> QED  BY <1>1, QueueAppend DEF Emit

LEMMA TestRowStep == Typed /\ TestRow /\ [Next]_vars => TestRow'
<1> SUFFICES ASSUME Typed, TestRow, [Next]_vars PROVE TestRow'
  OBVIOUS
<1> USE DEF TestRow, NoServerYet, Launching
<1>a. /\ wq \in Seq(Events) /\ rows \in Seq(AppType \cup {Test}) /\ Elems(<<>>) = {}
      /\ gq \in Seq(AppType \cup {Started})
  BY DEF Typed, TypeOK, Elems
<1>1. CASE on_startButton_clicked
  <2>1. PICK p \in Phones : Emit([op |-> "start", arg |-> p])
    BY <1>1 DEF on_startButton_clicked
  <2> DEFINE e == [op |-> "start", arg |-> p]
  <2>2. e \in Events /\ ~OfTest(e)
    BY DEF Events, OfTest
  <2>3. /\ Elems(wq') \subseteq Elems(wq) \cup {e} /\ TestFirst(wq')
    BY <2>1, <2>2, Emitted
  <2>4. rows' = <<>> /\ UNCHANGED <<wpc, m_server, arg>>
    BY <1>1 DEF on_startButton_clicked
  <2> QED  BY <1>a, <2>2, <2>3, <2>4 DEF NoTest
<1>2. CASE on_stopButton_clicked
  <2> DEFINE e == [op |-> "stop", arg |-> NULL]
  <2>1. e \in Events /\ ~OfTest(e) /\ e.op # "start"
    BY DEF Events, OfTest
  <2>2. Elems(wq') \subseteq Elems(wq) \cup {e} /\ TestFirst(wq')
    BY <1>2, <2>1, Emitted DEF on_stopButton_clicked
  <2>3. UNCHANGED <<rows, wpc, m_server, arg>>
    BY <1>2 DEF on_stopButton_clicked
  <2> QED  BY <2>1, <2>2, <2>3 DEF NoTest, NoStart
<1>3. CASE on_viewDoubleClick
  <2>1. PICK i \in 1..Len(rows) : Emit([op |-> "launch", arg |-> rows[i]])
    BY <1>3 DEF on_viewDoubleClick
  <2> DEFINE e == [op |-> "launch", arg |-> rows[i]]
  <2>2. e \in Events /\ e.op = "launch" /\ e.arg = rows[i] /\ rows[i] \in Elems(rows)
    BY <1>a DEF Events, Elems
  <2>3. OfTest(e) => NoServerYet /\ NoStart(wq)
    BY <2>2 DEF OfTest
  <2> HIDE DEF e
  <2>4. Elems(wq') \subseteq Elems(wq) \cup {e} /\ TestFirst(wq')
    BY <2>1, <2>2, <2>3, Emitted DEF e
  <2>5. UNCHANGED <<rows, wpc, m_server, arg>>
    BY <1>3 DEF on_viewDoubleClick
  <2> QED  BY <2>2, <2>3, <2>4, <2>5 DEF NoTest, NoStart
<1>4. CASE onThreadStart
  BY <1>4 DEF onThreadStart, worker
<1>5. CASE on_addApp
  <2>1. rows' = Append(rows, Head(gq)) /\ UNCHANGED <<wpc, wq, m_server, arg>> /\ gq # <<>>
        /\ Head(gq) # Started
    BY <1>5 DEF on_addApp, worker
  <2>2. Head(gq) # Test
    BY <1>a, <2>1, ElemsHead, EventsAreNoApps
  <2>3. Elems(rows') = Elems(rows) \cup {Head(gq)}
    <3>1. Head(gq) \in AppType \cup {Test}
      BY <1>a, <2>1, ElemsHead
    <3> QED  BY <1>a, <2>1, <3>1, ElemsAppend
  <2> QED  BY <2>1, <2>2, <2>3
<1>6. CASE Exit
  BY <1>6 DEF Exit, Typed, TypeOK
<1>7. CASE Boot \/ WalkApp \/ WalkFreed
  BY <1>7 DEF Boot, WalkApp, WalkFreed
<1>8. CASE onStart
  <2>1. /\ wq # <<>> /\ Head(wq).op = "start" /\ wq' = Tail(wq) /\ rows' = rows
        /\ wpc' \in {"create", "list"}
    BY <1>8 DEF onStart, Take, gui
  <2>2. NoTest(wq') /\ TestFirst(wq')
    BY <1>a, <2>1, QueueTail
  <2>3. Test \notin Elems(rows)
    BY <1>a, <2>1, QueueTail DEF NoStart
  <2> QED  BY <2>1, <2>2, <2>3
<1>9. CASE Create \/ List
  BY <1>9 DEF Create, List, gui
<1>10. CASE onStop
  <2>1. /\ wq # <<>> /\ wq' = Tail(wq) /\ UNCHANGED <<rows, wpc>> /\ m_server' = NULL
        /\ wpc = "loop"
    BY <1>10 DEF onStop, Take, gui
  <2> QED  BY <1>a, <2>1, QueueTail DEF NoTest, NoStart
<1>11. CASE onLaunch
  <2>1. wq # <<>> /\ wq' = Tail(wq) /\ UNCHANGED <<rows, m_server>> /\ wpc = "loop" /\ Head(wq).op = "launch"
    BY <1>11 DEF onLaunch, Take, gui
  <2>2. CASE m_server = NULL
    <3>1. wpc' = wpc
      BY <1>11, <2>2 DEF onLaunch
    <3> QED  BY <1>a, <2>1, <2>2, <3>1, QueueTail DEF NoTest, NoStart
  <2>3. CASE m_server # NULL
    <3>1. arg' = Head(wq).arg
      BY <1>11, <2>3 DEF onLaunch
    <3>2. arg' \in AppType
      BY <1>a, <2>1, <2>3, <3>1, QueueTail, EventTypes DEF NoTest, OfTest
    <3>3. NoTest(wq') /\ TestFirst(wq') /\ Test \notin Elems(rows')
      BY <1>a, <2>1, <2>3, QueueTail DEF NoTest
    <3> QED  BY <2>1, <2>3, <3>2, <3>3
  <2> QED  BY <2>2, <2>3
<1>12. CASE Launch
  <2>1. m_server \in ServerType /\ m_server # NULL /\ arg \in AppType /\ ~NoServerYet
    BY <1>12 DEF Launch, Typed, TypeOK, Slots
  <2>2. m_server' # NULL
    BY <1>12, <2>1, ServerUpdate, NullIsNoServer DEF Launch
  <2>3. UNCHANGED <<rows, wq, arg>>
    BY <1>12 DEF Launch, gui
  <2> QED  BY <2>1, <2>2, <2>3
<1>13. CASE Leave
  BY <1>13 DEF Leave
<1> QED
  BY <1>1, <1>2, <1>3, <1>4, <1>5, <1>6, <1>7, <1>8, <1>9, <1>10, <1>11, <1>12, <1>13,
     WindowSteps

-----------------------------------------------------------------------------
(* As long as no start is clicked while another is under way: a start      *)
(* finds the list on the screen empty, and nothing but stops comes after   *)
(* it in the queue; what the user can click, what is on its way to him and *)
(* what he has clicked are applications of the server there is.            *)
Cleared == rows = <<>> /\ Elems(gq) \subseteq {Started}

StartClears ==
  ~overlap =>
    /\ ~NoStart(wq) => Cleared /\ wpc \notin {"create", "list", "walk"}
    /\ StartLast(wq)
    /\ wpc \in {"create", "list"} => Cleared /\ Stops(wq)

Owned(id, s) == \A a \in Elems(s) : a.server = id

OfServer ==
  (~overlap /\ m_server # NULL) =>
    /\ Owned(m_server.id, rows) /\ Owned(m_server.id, gq)
    /\ Owned(m_server.id, m_server.appList)
    /\ wpc = "walk" => Owned(m_server.id, nextApp)
    /\ \A e \in Elems(wq) : e.op = "launch" => e.arg.server = m_server.id
    /\ Launching => arg.server = m_server.id
    /\ m_server.address # NULL => m_server.address.server = m_server.id
    /\ wpc = "session" => m_server.address # NULL

(* What was clicked too early stays so.                                    *)
LEMMA OverlapStays == ASSUME [Next]_vars, ~overlap' PROVE ~overlap
BY DEF Next, User, Gui, Worker, on_startButton_clicked, on_stopButton_clicked,
   on_viewDoubleClick, CloseWindow, onThreadStart, on_addApp, Exit, Boot, Finish, onStart,
   Create, List, WalkApp, WalkFreed, WalkEnds, onStop, onLaunch, Launch,
   process_app_launched, Session, Take, vars

LEMMA StartClearsStep == Typed /\ StartClears /\ [Next]_vars => StartClears'
<1> SUFFICES ASSUME Typed, StartClears, [Next]_vars, ~overlap' PROVE StartClears'
  BY DEF StartClears
<1> USE DEF Cleared
<1>a. /\ wq \in Seq(Events) /\ Elems(<<>>) = {} /\ gq \in Seq(AppType \cup {Started})
  BY DEF Typed, TypeOK, Elems
<1>b. ~overlap
  BY OverlapStays
<1>c. /\ ~NoStart(wq) => Cleared /\ wpc \notin {"create", "list", "walk"}
      /\ StartLast(wq)
      /\ wpc \in {"create", "list"} => Cleared /\ Stops(wq)
  BY <1>b DEF StartClears
<1> HIDE DEF StartClears
<1> DEFINE Goal == /\ ~NoStart(wq') => Cleared' /\ wpc' \notin {"create", "list", "walk"}
                   /\ StartLast(wq')
                   /\ wpc' \in {"create", "list"} => Cleared' /\ Stops(wq')
<1> SUFFICES Goal
  BY DEF StartClears
<1>1. CASE on_startButton_clicked
  <2>1. PICK p \in Phones : Emit([op |-> "start", arg |-> p])
    BY <1>1 DEF on_startButton_clicked
  <2> DEFINE e == [op |-> "start", arg |-> p]
  <2>2. e \in Events
    BY DEF Events
  <2>3. ~Starting /\ rows' = <<>> /\ UNCHANGED <<wpc, gq>>
    BY <1>1 DEF on_startButton_clicked
  <2>4. NoStart(wq) /\ Elems(gq) \subseteq {Started} /\ wpc \notin {"create", "list", "walk"}
    BY <2>3 DEF Starting, NoStart, Elems
  <2>5. StartLast(wq')
    BY <1>c, <2>1, <2>2, <2>4, Emitted
  <2> QED  BY <2>3, <2>4, <2>5
<1>2. CASE on_stopButton_clicked
  <2> DEFINE e == [op |-> "stop", arg |-> NULL]
  <2>1. e \in Events /\ e.op = "stop"
    BY DEF Events
  <2>2. Elems(wq') \subseteq Elems(wq) \cup {e} /\ StartLast(wq')
    BY <1>2, <1>c, <2>1, Emitted DEF on_stopButton_clicked
  <2>3. UNCHANGED <<rows, wpc, gq>>
    BY <1>2 DEF on_stopButton_clicked
  <2> QED  BY <1>c, <2>1, <2>2, <2>3 DEF Stops, NoStart
<1>3. CASE on_viewDoubleClick
  <2>1. PICK i \in 1..Len(rows) : Emit([op |-> "launch", arg |-> rows[i]])
    BY <1>3 DEF on_viewDoubleClick
  <2> DEFINE e == [op |-> "launch", arg |-> rows[i]]
  <2>2. e \in Events /\ e.op = "launch"
    BY DEF Events, Typed, TypeOK
  <2>3. rows # <<>>
    OBVIOUS
  <2> HIDE DEF e
  <2>4. Elems(wq') \subseteq Elems(wq) \cup {e} /\ StartLast(wq')
    BY <1>c, <2>1, <2>2, <2>3, Emitted DEF e
  <2>5. UNCHANGED <<rows, wpc, gq>>
    BY <1>3 DEF on_viewDoubleClick
  <2> QED  BY <1>c, <2>2, <2>3, <2>4, <2>5 DEF NoStart
<1>4. CASE onThreadStart
  <2>1. Elems(gq') \subseteq Elems(gq) /\ UNCHANGED <<rows, wpc, wq>>
    BY <1>4, <1>a, ElemsHead DEF onThreadStart, worker
  <2> QED  BY <1>c, <2>1
<1>5. CASE on_addApp
  <2>1. Head(gq) \in Elems(gq) /\ Head(gq) # Started /\ UNCHANGED <<wpc, wq>>
    BY <1>5, <1>a, ElemsHead DEF on_addApp, worker
  <2> QED  BY <1>c, <2>1
<1>6. CASE Exit
  BY <1>6, <1>c DEF Exit
<1>7. CASE Boot
  <2>1. Elems(gq') = Elems(gq) \cup {Started} /\ UNCHANGED <<rows, wq>> /\ wpc' = "loop"
    BY <1>7, <1>a, ElemsAppend DEF Boot
  <2> QED  BY <1>c, <2>1
<1>8. CASE onStart
  <2>1. /\ wq # <<>> /\ Head(wq).op = "start" /\ wq' = Tail(wq) /\ UNCHANGED <<rows, gq>>
    BY <1>8 DEF onStart, Take, gui
  <2>2. Stops(wq') /\ StartLast(wq') /\ ~NoStart(wq)
    BY <1>a, <1>c, <2>1, QueueTail DEF NoStart
  <2> QED  BY <1>c, <2>1, <2>2 DEF Stops, NoStart
<1>9. CASE Create
  BY <1>9, <1>c DEF Create, gui
<1>10. CASE List
  <2>1. Stops(wq) /\ UNCHANGED <<rows, gq, wq>> /\ wpc' \in {"walk", "stuck"}
    BY <1>10, <1>c DEF List, gui
  <2> QED  BY <1>c, <2>1 DEF Stops, NoStart
<1>11. CASE WalkApp \/ WalkFreed
  <2>1. wpc = "walk" /\ wpc' \in {"walk", "crashed"} /\ UNCHANGED <<rows, wq>>
    BY <1>11 DEF WalkApp, WalkFreed
  <2> QED  BY <1>c, <2>1
<1>12. CASE onStop \/ onLaunch
  <2>1. /\ wq # <<>> /\ wq' = Tail(wq) /\ UNCHANGED <<rows, gq>> /\ wpc' \in {"loop", "launch"}
    BY <1>12 DEF onStop, onLaunch, Take, gui
  <2>2. StartLast(wq') /\ Elems(wq') \subseteq Elems(wq)
    BY <1>a, <1>c, <2>1, QueueTail
  <2> QED  BY <1>c, <2>1, <2>2 DEF NoStart
<1>13. CASE Launch
  BY <1>13, <1>c DEF Launch, gui
<1>14. CASE Leave
  BY <1>14, <1>c DEF Leave
<1> QED
  BY <1>1, <1>2, <1>3, <1>4, <1>5, <1>6, <1>7, <1>8, <1>9, <1>10, <1>11, <1>12, <1>13, <1>14,
     WindowSteps

LEMMA OfServerStep ==
  Typed /\ Signals /\ TestRow /\ StartClears /\ OfServer /\ [Next]_vars => OfServer'
<1> SUFFICES ASSUME Typed, Signals, TestRow, StartClears, OfServer, [Next]_vars,
                    ~overlap', m_server' # NULL
             PROVE  OfServer'
  BY DEF OfServer
<1> USE DEF Owned, Launching
<1>a. /\ wq \in Seq(Events) /\ gq \in Seq(AppType \cup {Started}) /\ rows \in Seq(AppType \cup {Test})
      /\ nextApp \in Seq(AppType) /\ Elems(<<>>) = {}
      /\ m_server # NULL => m_server \in ServerType /\ m_server.appList \in Seq(AppType)
  BY DEF Typed, TypeOK, Elems, ServerType
<1>b. ~overlap
  BY OverlapStays
<1>c. m_server # NULL =>
        /\ Owned(m_server.id, rows) /\ Owned(m_server.id, gq)
        /\ Owned(m_server.id, m_server.appList)
        /\ wpc = "walk" => Owned(m_server.id, nextApp)
        /\ \A e \in Elems(wq) : e.op = "launch" => e.arg.server = m_server.id
        /\ Launching => arg.server = m_server.id
        /\ m_server.address # NULL => m_server.address.server = m_server.id
        /\ wpc = "session" => m_server.address # NULL
  BY <1>b DEF OfServer
<1> DEFINE Goal ==
        /\ Owned(m_server'.id, rows') /\ Owned(m_server'.id, gq')
        /\ Owned(m_server'.id, m_server'.appList)
        /\ wpc' = "walk" => Owned(m_server'.id, nextApp')
        /\ \A e \in Elems(wq') : e.op = "launch" => e.arg.server = m_server'.id
        /\ Launching' => arg'.server = m_server'.id
        /\ m_server'.address # NULL => m_server'.address.server = m_server'.id
        /\ wpc' = "session" => m_server'.address # NULL
<1> SUFFICES Goal
  BY DEF OfServer
<1>1. CASE on_startButton_clicked
  <2>1. PICK p \in Phones : Emit([op |-> "start", arg |-> p])
    BY <1>1 DEF on_startButton_clicked
  <2>2. [op |-> "start", arg |-> p] \in Events
    BY DEF Events
  <2>3. Elems(wq') \subseteq Elems(wq) \cup {[op |-> "start", arg |-> p]}
    BY <2>1, <2>2, Emitted
  <2>4. rows' = <<>> /\ UNCHANGED <<wpc, gq, m_server, nextApp, arg>>
    BY <1>1 DEF on_startButton_clicked
  <2> QED  BY <1>a, <1>c, <2>3, <2>4
<1>2. CASE on_stopButton_clicked
  <2>1. [op |-> "stop", arg |-> NULL] \in Events
    BY DEF Events
  <2>2. Elems(wq') \subseteq Elems(wq) \cup {[op |-> "stop", arg |-> NULL]}
    BY <1>2, <2>1, Emitted DEF on_stopButton_clicked
  <2>3. UNCHANGED <<rows, wpc, gq, m_server, nextApp, arg>>
    BY <1>2 DEF on_stopButton_clicked
  <2> QED  BY <1>c, <2>2, <2>3
<1>3. CASE on_viewDoubleClick
  <2>1. PICK i \in 1..Len(rows) : Emit([op |-> "launch", arg |-> rows[i]])
    BY <1>3 DEF on_viewDoubleClick
  <2>2. [op |-> "launch", arg |-> rows[i]] \in Events /\ rows[i] \in Elems(rows)
    BY <1>a DEF Events, Elems
  <2>3. Elems(wq') \subseteq Elems(wq) \cup {[op |-> "launch", arg |-> rows[i]]}
    BY <2>1, <2>2, Emitted
  <2>4. UNCHANGED <<rows, wpc, gq, m_server, nextApp, arg>>
    BY <1>3 DEF on_viewDoubleClick
  <2> QED  BY <1>c, <2>2, <2>3, <2>4
<1>4. CASE onThreadStart
  <2>1. Elems(gq') \subseteq Elems(gq)
    BY <1>4, <1>a, ElemsHead DEF onThreadStart
  <2>2. UNCHANGED <<rows, wpc, wq, m_server, nextApp, arg>>
    BY <1>4 DEF onThreadStart, worker
  <2> QED  BY <1>c, <2>1, <2>2
<1>5. CASE on_addApp
  <2>1. /\ Head(gq) \in Elems(gq) /\ Elems(gq') \subseteq Elems(gq) /\ Head(gq) \in AppType
    BY <1>5, <1>a, ElemsHead DEF on_addApp
  <2>2. rows' = Append(rows, Head(gq)) /\ UNCHANGED <<wpc, wq, m_server, nextApp, arg>>
    BY <1>5 DEF on_addApp, worker
  <2>3. Elems(rows') = Elems(rows) \cup {Head(gq)}
    BY <1>a, <2>1, <2>2, ElemsAppend
  <2> QED  BY <1>c, <2>1, <2>2, <2>3
<1>6. CASE Exit \/ onStop
  BY <1>6 DEF Exit, onStop
<1>7. CASE Boot
  <2>1. m_server = NULL /\ m_server' = m_server
    BY <1>7 DEF Boot, Signals, Typed, TypeOK
  <2> QED  BY <2>1
<1>8. CASE onStart
  <2>1. Elems(wq') \subseteq Elems(wq)
    BY <1>8, <1>a, ElemsHead DEF onStart, Take
  <2>2. wpc' \in {"create", "list"} /\ UNCHANGED <<rows, gq, m_server, nextApp>>
    BY <1>8 DEF onStart, Take, gui
  <2> QED  BY <1>c, <2>1, <2>2
<1>9. CASE Create
  <2>1. m_server = NULL
    BY <1>9 DEF Create, Typed, Slots
  <2>2. /\ wpc' = "list" /\ m_server'.appList = <<>> /\ m_server'.address = NULL
        /\ UNCHANGED <<rows, gq, wq>>
    BY <1>9, <2>1 DEF Create, gui
  <2>3. rows = <<>> /\ Elems(gq) \subseteq {Started} /\ Stops(wq)
    BY <1>9, <1>b DEF Create, StartClears, Cleared
  <2>4. Elems(gq) = {}
    <3>1. gq \in Seq(AppType)
      BY <1>9 DEF Create, Signals, Typed, TypeOK
    <3>2. \A a \in Elems(gq) : a \in AppType
      BY <3>1 DEF Elems
    <3> QED  BY <2>3, <3>2, EventsAreNoApps
  <2> QED  BY <1>a, <2>2, <2>3, <2>4 DEF Stops
<1>10. CASE List
  <2>1. m_server \in ServerType /\ m_server # NULL
    BY <1>10, <1>a DEF List, Typed, Slots
  <2>2. CASE wpc' = "walk"
    <3>1. PICK new \in {<<>>, Listed(m_server)} :
            /\ m_server' = [m_server EXCEPT !.appList = new \o @, !.fetches = @ + 1]
            /\ nextApp' = m_server'.appList
      BY <1>10, <2>2 DEF List
    <3>2. new \in Seq(AppType) /\ Owned(m_server.id, new)
      <4>1. CASE new = <<>>  BY <1>a, <4>1
      <4>2. CASE new = Listed(m_server)  BY <2>1, <4>2, ListedType DEF Elems
      <4> QED  BY <3>1, <4>1, <4>2
    <3>3. /\ m_server'.appList = new \o m_server.appList /\ m_server'.id = m_server.id
          /\ m_server'.address = m_server.address
      BY <2>1, <3>1 DEF ServerType
    <3>4. Elems(m_server'.appList) = Elems(new) \cup Elems(m_server.appList)
      BY <1>a, <2>1, <3>2, <3>3, ElemsConcat
    <3>5. UNCHANGED <<rows, gq, wq, arg>>
      BY <1>10 DEF List, gui
    <3> QED  BY <1>c, <2>1, <2>2, <3>1, <3>2, <3>3, <3>4, <3>5
  <2>3. CASE wpc' # "walk"
    <3>1. wpc' = "stuck" /\ UNCHANGED <<rows, gq, wq, m_server>>
      BY <1>10, <2>3 DEF List, gui
    <3> QED  BY <1>c, <2>1, <3>1
  <2> QED  BY <2>2, <2>3
<1>11. CASE WalkApp \/ WalkFreed
  <2>1. /\ wpc = "walk" /\ wpc' \in {"walk", "crashed"} /\ nextApp # <<>>
        /\ UNCHANGED <<rows, wq, m_server, arg>>
        /\ gq' = gq \/ gq' = Append(gq, Head(nextApp))
        /\ nextApp' \in {nextApp, <<>>, Tail(nextApp)}
    BY <1>11 DEF WalkApp, WalkFreed
  <2>2. /\ Head(nextApp) \in Elems(nextApp) /\ Elems(Tail(nextApp)) \subseteq Elems(nextApp)
        /\ Head(nextApp) \in AppType
    BY <1>a, <2>1, ElemsHead
  <2>3. Elems(gq') \subseteq Elems(gq) \cup {Head(nextApp)}
    <3>1. Elems(Append(gq, Head(nextApp))) = Elems(gq) \cup {Head(nextApp)}
      BY <1>a, <2>2, ElemsAppend
    <3>2. CASE gq' = gq  BY <3>2
    <3>3. CASE gq' = Append(gq, Head(nextApp))
      <4>1. Elems(gq') = Elems(gq) \cup {Head(nextApp)}  BY <3>1, <3>3
      <4> QED  BY <4>1
    <3> QED  BY <2>1, <3>2, <3>3
  <2>4. Elems(nextApp') \subseteq Elems(nextApp)
    BY <1>a, <2>1, <2>2
  <2> QED  BY <1>c, <2>1, <2>2, <2>3, <2>4
<1>12. CASE onLaunch
  <2>1. /\ m_server # NULL /\ Head(wq).op = "launch" /\ arg' = Head(wq).arg /\ wpc' = "launch"
        /\ wq' = Tail(wq) /\ wq # <<>> /\ UNCHANGED <<rows, gq, m_server>>
    BY <1>12 DEF onLaunch, Take, gui
  <2>2. Head(wq) \in Elems(wq) /\ Elems(wq') \subseteq Elems(wq)
    BY <1>a, <2>1, ElemsHead
  <2> QED  BY <1>c, <2>1, <2>2
<1>13. CASE Launch
  <2>1. m_server \in ServerType /\ m_server # NULL /\ arg \in AppType
    BY <1>13, <1>a DEF Launch, TestRow
  <2>2. /\ m_server'.id = m_server.id /\ m_server'.appList = m_server.appList
        /\ m_server'.address \in {m_server.address, arg}
        /\ wpc' \in {"launched", "loop", "stuck"}
    BY <1>13, <2>1 DEF Launch, ServerType
  <2>3. wpc = "launch" /\ UNCHANGED <<rows, gq, wq, arg>>
    BY <1>13 DEF Launch, gui
  <2> QED  BY <1>c, <2>1, <2>2, <2>3
<1>14. CASE Leave
  BY <1>14, <1>c DEF Leave
<1> QED
  BY <1>1, <1>2, <1>3, <1>4, <1>5, <1>6, <1>7, <1>8, <1>9, <1>10, <1>11, <1>12, <1>13, <1>14,
     WindowSteps

WindowInv == Typed /\ Signals /\ TestRow /\ StartClears /\ OfServer

LEMMA WindowInit == Init => WindowInv
<1> SUFFICES ASSUME Init PROVE WindowInv
  OBVIOUS
<1>1. wq = <<>> /\ m_server = NULL /\ wpc = "boot" /\ gq = <<>> /\ connected = FALSE
  BY DEF Init
<1>2. Elems(wq) = {}
  BY <1>1 DEF Elems
<1>3. Len(wq) = 0
  BY <1>1
<1>4. TestFirst(wq) /\ StartLast(wq)
  BY <1>3 DEF TestFirst, StartLast
<1> QED
  BY <1>1, <1>2, <1>4, TypedInit
  DEF WindowInv, Signals, TestRow, StartClears, OfServer, NoServerYet, NoStart, NoTest,
      Launching

LEMMA WindowStep == WindowInv /\ [Next]_vars => WindowInv'
BY TypedStep, SignalsStep, TestRowStep, StartClearsStep, OfServerStep DEF WindowInv

(* Whatever is clicked and however the two queues are served, a launch is  *)
(* of an application of the server there is, and a session is at an        *)
(* address that this server gave.                                          *)
THEOREM ClientLaunchKnown == Spec => []LaunchKnown
<1>1. WindowInv => LaunchKnown
  BY DEF WindowInv, TestRow, OfServer, LaunchKnown, Launching
<1> QED  BY <1>1, WindowInit, WindowStep, PTL DEF Spec

-----------------------------------------------------------------------------
(* What is shown, what is on its way and what the walk has still to show   *)
(* are, one after the other, the list, up to some of what was listed       *)
(* before.                                                                 *)
Rest == IF wpc = "walk" THEN nextApp ELSE <<>>

UpTo(list, shown, n) ==
  \E t \in Seq(AppType) : shown \o t = list /\ \A i \in 1..Len(t) : t[i].fetch < n

Delivered ==
  (/\ ~overlap /\ m_server # NULL /\ NoStart(wq)
   /\ wpc \in {"walk", "loop", "launch", "launched", "session"})
    => UpTo(m_server.appList, (rows \o gq) \o Rest, m_server.fetches)

(* Moving the head of one sequence to the end of the one before.           *)
LEMMA MoveHead ==
  ASSUME NEW S, NEW s \in Seq(S), NEW t \in Seq(S), t # <<>>
  PROVE  Append(s, Head(t)) \o Tail(t) = s \o t
<1> DEFINE l == Append(s, Head(t)) \o Tail(t)
           r == s \o t
<1>1. /\ Head(t) = t[1] /\ Tail(t) \in Seq(S) /\ Len(Tail(t)) = Len(t) - 1
      /\ Len(t) \in Nat /\ Len(t) >= 1 /\ Len(s) \in Nat
      /\ \A i \in 1..Len(t) - 1 : Tail(t)[i] = t[i + 1]
  OBVIOUS
<1>2. Head(t) \in S
  BY <1>1
<1>3. /\ Append(s, Head(t)) \in Seq(S) /\ Len(Append(s, Head(t))) = Len(s) + 1
      /\ \A i \in 1..Len(s) : Append(s, Head(t))[i] = s[i]
      /\ Append(s, Head(t))[Len(s) + 1] = Head(t)
  BY <1>2
<1>4. /\ l \in Seq(S) /\ Len(l) = Len(s) + 1 + (Len(t) - 1)
      /\ \A i \in 1..Len(l) : l[i] = IF i <= Len(s) + 1 THEN Append(s, Head(t))[i]
                                                        ELSE Tail(t)[i - (Len(s) + 1)]
  BY <1>1, <1>3, ConcatProperties
<1>5. /\ r \in Seq(S) /\ Len(r) = Len(s) + Len(t)
      /\ \A i \in 1..Len(r) : r[i] = IF i <= Len(s) THEN s[i] ELSE t[i - Len(s)]
  BY ConcatProperties
<1> HIDE DEF l, r
<1>6. Len(l) = Len(r)
  BY <1>1, <1>4, <1>5
<1>7. ASSUME NEW i \in 1..Len(l) PROVE l[i] = r[i]
  <2>1. CASE i <= Len(s)
    <3>1. i \in 1..Len(s) /\ i <= Len(s) + 1 /\ i \in 1..Len(r)  BY <1>1, <1>6, <2>1
    <3>2. l[i] = s[i]  BY <1>3, <1>4, <3>1
    <3> QED  BY <1>5, <3>1, <3>2
  <2>2. CASE i = Len(s) + 1
    <3>1. i - Len(s) = 1  BY <1>1, <2>2
    <3>2. r[i] = t[1]  BY <1>1, <1>5, <1>6, <2>2, <3>1
    <3> QED  BY <1>1, <1>3, <1>4, <2>2, <3>2
  <2>3. CASE i > Len(s) + 1
    <3>1. i - (Len(s) + 1) \in 1..Len(t) - 1 /\ (i - (Len(s) + 1)) + 1 = i - Len(s)
      BY <1>1, <1>4, <2>3
    <3>2. l[i] = t[i - Len(s)]
      BY <1>1, <1>4, <2>3, <3>1
    <3> QED  BY <1>1, <1>4, <1>5, <1>6, <2>3, <3>2
  <2> QED  BY SMTT(30), <1>1, <1>4, <2>1, <2>2, <2>3
<1> QED  BY <1>4, <1>5, <1>6, <1>7, SeqEqual DEF l, r

(* A concatenation can be taken apart again.                               *)
LEMMA ConcatSplit ==
  ASSUME NEW S, NEW T, NEW s \in Seq(S), NEW t \in Seq(T)
  PROVE  /\ Len(s) \in 0..Len(s \o t) /\ s = SubSeq(s \o t, 1, Len(s))
         /\ \A i \in (Len(s) + 1)..Len(s \o t) :
              i - Len(s) \in 1..Len(t) /\ (s \o t)[i] = t[i - Len(s)]
<1> DEFINE U == S \cup T
<1>1. s \in Seq(U) /\ t \in Seq(U)
  OBVIOUS
<1> HIDE DEF U
<1>2. /\ s \o t \in Seq(U) /\ Len(s \o t) = Len(s) + Len(t) /\ Len(s) \in Nat /\ Len(t) \in Nat
      /\ \A i \in 1..Len(s \o t) : (s \o t)[i] = IF i <= Len(s) THEN s[i] ELSE t[i - Len(s)]
  BY <1>1, ConcatProperties
<1> DEFINE c == s \o t
<1> HIDE DEF c
<1>3. c \in Seq(U) /\ Len(s) \in 0..Len(c) /\ \A i \in 1..Len(s) : c[i] = s[i]
  BY <1>2 DEF c
<1>4. s = SubSeq(c, 1, Len(s))
  <2>1. SubSeq(c, 1, Len(s)) \in Seq(U) /\ Len(SubSeq(c, 1, Len(s))) = Len(s)
        /\ \A i \in 1..Len(s) : SubSeq(c, 1, Len(s))[i] = c[i]
    BY <1>2, <1>3
  <2> QED  BY <1>1, <1>3, <2>1, SeqEqual
<1>5. \A i \in (Len(s) + 1)..Len(s \o t) :
        i - Len(s) \in 1..Len(t) /\ (s \o t)[i] = t[i - Len(s)]
  BY <1>2
<1> QED  BY <1>3, <1>4, <1>5 DEF c

LEMMA DeliveredStep ==
  WindowInv /\ WalkInv /\ Delivered /\ [Next]_vars => Delivered'
<1> SUFFICES ASSUME WindowInv, WalkInv, Delivered, [Next]_vars,
                    ~overlap', m_server' # NULL, NoStart(wq'),
                    wpc' \in {"walk", "loop", "launch", "launched", "session"}
             PROVE  UpTo(m_server'.appList, (rows' \o gq') \o Rest', m_server'.fetches)
  BY DEF Delivered
<1> DEFINE S == AppType \cup {Test, Started}
           Shown == (rows \o gq) \o Rest
<1>a. /\ wq \in Seq(Events) /\ gq \in Seq(S) /\ rows \in Seq(S) /\ nextApp \in Seq(S)
      /\ <<>> \in Seq(S) /\ Elems(<<>>) = {} /\ freedApps \in SUBSET AppType
      /\ m_server # NULL => m_server \in ServerType /\ m_server.appList \in Seq(S)
  <2>1. /\ wq \in Seq(Events) /\ gq \in Seq(AppType \cup {Started})
        /\ rows \in Seq(AppType \cup {Test}) /\ nextApp \in Seq(AppType)
        /\ m_server # NULL => m_server \in ServerType /\ m_server.appList \in Seq(AppType)
        /\ freedApps \in SUBSET AppType
    BY DEF WindowInv, Typed, TypeOK, ServerType
  <2> QED  BY <2>1 DEF Elems
<1> HIDE DEF S
<1>b. ~overlap
  BY OverlapStays
<1>c. (m_server # NULL /\ NoStart(wq)
       /\ wpc \in {"walk", "loop", "launch", "launched", "session"})
         => UpTo(m_server.appList, Shown, m_server.fetches)
  BY <1>b DEF Delivered
<1>1. CASE on_startButton_clicked
  <2>1. PICK p \in Phones : Emit([op |-> "start", arg |-> p])
    BY <1>1 DEF on_startButton_clicked
  <2> DEFINE e == [op |-> "start", arg |-> p]
  <2>2. e \in Events /\ e.op = "start"
    BY DEF Events
  <2>3. m_server # NULL
    BY <1>1 DEF on_startButton_clicked
  <2>4. connected
    BY <2>3 DEF WindowInv, Signals, Typed, TypeOK
  <2>5. wq' = Append(wq, e)
    BY <2>1, <2>4 DEF Emit
  <2> HIDE DEF e
  <2>6. e \in Elems(wq')
    BY <1>a, <2>2, <2>5, ElemsAppend
  <2> QED  BY <2>2, <2>6 DEF NoStart
<1>2. CASE on_stopButton_clicked \/ on_viewDoubleClick
  <2>1. PICK e \in Events : Emit(e)
    <3>1. [op |-> "stop", arg |-> NULL] \in Events
      BY DEF Events
    <3>2. \A i \in 1..Len(rows) : [op |-> "launch", arg |-> rows[i]] \in Events
      BY DEF Events, WindowInv, Typed, TypeOK
    <3> QED  BY <1>2, <3>1, <3>2 DEF on_stopButton_clicked, on_viewDoubleClick
  <2>2. Elems(wq) \subseteq Elems(wq')
    BY <2>1, Emitted DEF WindowInv
  <2>3. NoStart(wq)
    BY <2>2 DEF NoStart
  <2>4. UNCHANGED <<rows, wpc, gq, m_server, nextApp>>
    BY <1>2 DEF on_stopButton_clicked, on_viewDoubleClick
  <2> QED  BY <1>c, <2>3, <2>4 DEF Rest
<1>3. CASE onThreadStart
  <2>1. m_server # NULL /\ gq # <<>> /\ Head(gq) = Started
    BY <1>3 DEF onThreadStart, worker
  <2>2. gq \in Seq(AppType)
    BY <2>1 DEF WindowInv, Signals, Typed, TypeOK
  <2> QED  BY <2>1, <2>2, ElemsHead, EventsAreNoApps
<1>4. CASE on_addApp
  <2>1. /\ gq # <<>> /\ gq' = Tail(gq) /\ rows' = Append(rows, Head(gq))
        /\ UNCHANGED <<wpc, wq, m_server, nextApp>>
    BY <1>4 DEF on_addApp, worker
  <2>2. rows' \o gq' = rows \o gq
    BY <1>a, <2>1, MoveHead
  <2> QED  BY <1>c, <2>1, <2>2 DEF Rest
<1>5. CASE Exit \/ onStop
  BY <1>5 DEF Exit, onStop
<1>6. CASE Boot
  BY <1>6 DEF Boot, WindowInv, Signals, Typed, TypeOK
<1>7. CASE onStart \/ Create
  BY <1>7 DEF onStart, Create, gui, WindowInv, Typed, Slots
<1>8. CASE List
  <2>1. /\ m_server \in ServerType /\ m_server # NULL /\ wpc' = "walk" /\ wpc = "list"
        /\ UNCHANGED <<rows, gq>>
    BY <1>8, <1>a DEF List, gui, WindowInv, Typed, Slots
  <2>2. PICK new \in {<<>>, Listed(m_server)} :
          /\ m_server' = [m_server EXCEPT !.appList = new \o @, !.fetches = @ + 1]
          /\ nextApp' = m_server'.appList
    BY <1>8, <2>1 DEF List
  <2>3. m_server' \in ServerType
    BY <2>1, <2>2, ServerUpdate
  <2>4. nextApp' \in Seq(AppType)
    BY <2>2, <2>3 DEF ServerType
  <2>5. rows = <<>> /\ Elems(gq) \subseteq {Started}
    BY <1>b, <2>1 DEF WindowInv, StartClears, Cleared
  <2>6. gq = <<>>
    <3>1. gq \in Seq(AppType)
      BY <2>1 DEF WindowInv, Signals, Typed, TypeOK
    <3>2. gq # <<>> => Head(gq) \in AppType /\ Head(gq) \in Elems(gq)
      BY <3>1, ElemsHead
    <3> QED  BY <2>5, <3>2, EventsAreNoApps
  <2>7. (<<>> \o <<>>) \o nextApp' = nextApp' /\ nextApp' \o <<>> = nextApp'
    BY <2>4, ConcatEmptySeq
  <2>8. <<>> \in Seq(AppType) /\ \A i \in 1..Len(<<>>) : <<>>[i].fetch < m_server'.fetches
    OBVIOUS
  <2>9. (rows' \o gq') \o Rest' = nextApp' /\ nextApp' = m_server'.appList
    BY <2>1, <2>2, <2>5, <2>6, <2>7 DEF Rest
  <2> QED  BY <2>7, <2>8, <2>9 DEF UpTo
<1>9. CASE WalkApp
  <2>1. /\ nextApp # <<>> /\ wpc = "walk" /\ gq' = Append(gq, Head(nextApp))
        /\ nextApp' = Tail(nextApp) /\ UNCHANGED <<rows, wpc, wq, m_server>>
    BY <1>9 DEF WalkApp
  <2>2. gq' \o nextApp' = gq \o nextApp
    BY <1>a, <2>1, MoveHead
  <2>3. gq' \in Seq(S) /\ nextApp' \in Seq(S)
    <3>1. Head(nextApp) \in S /\ Tail(nextApp) \in Seq(S)
      BY <1>a, <2>1, ElemsHead
    <3> QED  BY <1>a, <2>1, <3>1, ElemsAppend
  <2>4. (rows \o gq') \o nextApp' = (rows \o gq) \o nextApp
    <3>1. (rows \o gq') \o nextApp' = rows \o (gq' \o nextApp')
      BY SMTT(30), <1>a, <2>3, ConcatAssociative
    <3>2. (rows \o gq) \o nextApp = rows \o (gq \o nextApp)
      BY SMTT(30), <1>a, ConcatAssociative
    <3> QED  BY <2>2, <3>1, <3>2
  <2> QED  BY <1>c, <2>1, <2>4 DEF Rest
<1>10. CASE WalkFreed
  <2>1. /\ nextApp # <<>> /\ Head(nextApp) \in freedApps /\ wpc = "walk" /\ wpc' = "walk"
        /\ gq' = Append(gq, Head(nextApp)) /\ nextApp' \in {<<>>, Tail(nextApp)}
        /\ UNCHANGED <<m_server, rows, wq>> /\ m_server # NULL
    BY <1>10 DEF WalkFreed, WindowInv, Typed, Slots
  <2> DEFINE tail == Tail(nextApp)
  <2>2. nextApp \in Seq(AppType)
    BY DEF WindowInv, Typed, TypeOK
  <2>3. \A j \in 1..Len(tail) : tail[j].fetch < m_server.fetches
    BY <1>a, <2>1, <2>2, WalkingFreed DEF WalkInv
  <2>4. tail \in Seq(AppType) /\ tail \in Seq(S) /\ Head(nextApp) \in S
    BY <1>a, <2>1, <2>2, ElemsHead
  <2>5. PICK t \in Seq(AppType) : /\ ((rows \o gq) \o nextApp) \o t = m_server.appList
                                  /\ \A i \in 1..Len(t) : t[i].fetch < m_server.fetches
    BY <1>c, <2>1 DEF UpTo, Rest
  <2>6. gq' \o tail = gq \o nextApp /\ gq' \in Seq(S)
    BY <1>a, <2>1, <2>4, MoveHead, ElemsAppend
  <2> HIDE DEF tail
  <2>7. (rows \o gq') \o tail = (rows \o gq) \o nextApp
    <3>a. rows \in Seq(S) /\ gq' \in Seq(S) /\ tail \in Seq(S)
      BY <1>a, <2>4, <2>6
    <3>1. (rows \o gq') \o tail = rows \o (gq' \o tail)
      BY <3>a, ConcatAssociative
    <3>2. (rows \o gq) \o nextApp = rows \o (gq \o nextApp)
      BY SMTT(30), <1>a, ConcatAssociative
    <3> QED  BY <2>6, <3>1, <3>2
  <2>8. CASE nextApp' = tail
    BY <2>1, <2>5, <2>7, <2>8 DEF UpTo, Rest
  <2>9. CASE nextApp' = <<>>
    <3>1. t \in Seq(S)
      BY <2>5 DEF S
    <3>2. rows \o gq' \in Seq(S)
      BY <1>a, <2>6, ElemsConcat
    <3>3. ((rows \o gq') \o <<>>) \o (tail \o t) = ((rows \o gq) \o nextApp) \o t
      <4>1. (rows \o gq') \o <<>> = rows \o gq'
        BY <3>2, ConcatEmptySeq
      <4>2. (rows \o gq') \o (tail \o t) = ((rows \o gq') \o tail) \o t
        BY SMTT(30), <2>4, <3>1, <3>2, ConcatAssociative
      <4> QED  BY <2>7, <4>1, <4>2
    <3>4. tail \o t \in Seq(AppType)
      BY <2>4, <2>5, ElemsConcat
    <3>5. \A i \in 1..Len(tail \o t) : (tail \o t)[i].fetch < m_server.fetches
      <4>1. Elems(tail \o t) = Elems(tail) \cup Elems(t)
        BY <2>4, <2>5, ElemsConcat
      <4>2. \A e \in Elems(tail) \cup Elems(t) : e.fetch < m_server.fetches
        BY <2>3, <2>5 DEF Elems, tail
      <4> QED  BY <4>1, <4>2 DEF Elems
    <3> QED  BY <2>1, <2>5, <2>9, <3>3, <3>4, <3>5 DEF UpTo, Rest
  <2> QED  BY <2>1, <2>8, <2>9 DEF tail
<1>11. CASE onLaunch
  <2>1. /\ wq # <<>> /\ Head(wq).op = "launch" /\ wq' = Tail(wq) /\ wpc = "loop"
        /\ wpc' # "walk" /\ UNCHANGED <<rows, gq, m_server>>
    BY <1>11 DEF onLaunch, Take, gui
  <2>2. NoStart(wq)
    <3>1. \A e \in Elems(wq) : e = Head(wq) \/ e \in Elems(Tail(wq))
      <4>a. Head(wq) = wq[1]
        BY <1>a, <2>1
      <4> SUFFICES ASSUME NEW i \in 1..Len(wq), i # 1 PROVE wq[i] \in Elems(Tail(wq))
        BY <4>a DEF Elems
      <4>1. /\ Len(wq) \in Nat /\ Len(Tail(wq)) = Len(wq) - 1
            /\ \A j \in 1..Len(wq) - 1 : Tail(wq)[j] = wq[j + 1]
        BY <1>a, <2>1
      <4>2. i - 1 \in 1..Len(wq) - 1 /\ (i - 1) + 1 = i
        BY <4>1
      <4> QED  BY <4>1, <4>2 DEF Elems
    <3> QED  BY <2>1, <3>1 DEF NoStart
  <2> QED  BY <1>c, <2>1, <2>2 DEF Rest
<1>12. CASE Launch
  <2>1. m_server \in ServerType /\ m_server # NULL /\ wpc = "launch" /\ arg \in AppType
    BY <1>12, <1>a DEF Launch, WindowInv, Typed, Slots, TestRow, Launching
  <2>2. m_server'.appList = m_server.appList /\ m_server'.fetches = m_server.fetches
    BY <1>12, <2>1 DEF Launch, ServerType
  <2>3. UNCHANGED <<rows, gq, wq>> /\ wpc' # "walk"
    BY <1>12 DEF Launch, gui
  <2> QED  BY <1>c, <2>1, <2>2, <2>3 DEF Rest
<1>13. CASE Leave
  <2>1. /\ UNCHANGED <<rows, gq, wq, m_server, nextApp>>
        /\ wpc \in {"walk", "loop", "launch", "launched", "session"}
        /\ wpc' = wpc \/ (wpc = "walk" /\ nextApp = <<>>) \/ (wpc # "walk" /\ wpc' # "walk")
    BY <1>13 DEF Leave
  <2>2. Rest' = Rest
    BY <2>1 DEF Rest
  <2> QED  BY <1>c, <2>1, <2>2
<1> QED
  BY <1>1, <1>2, <1>3, <1>4, <1>5, <1>6, <1>7, <1>8, <1>9, <1>10, <1>11, <1>12, <1>13,
     WindowSteps

(* When everything is delivered and no start was clicked while another    *)
(* was under way, the rows are the list of the server there is, whole or   *)
(* up to some of what an earlier request to it had listed, which is freed  *)
(* by now: the two queues lose nothing, reorder nothing and mix nothing in *)
(* that an earlier server listed.                                          *)
THEOREM ClientQuietRows == Spec => []QuietRows
<1> DEFINE Inv == WindowInv /\ Reachable /\ WalkInv /\ Delivered
<1>1. Init => Inv
  BY WindowInit DEF Init, Reachable, WalkInv, Elems, Delivered
<1>2. Inv /\ [Next]_vars => Inv'
  BY WindowStep, ReachableStep, WalkInvStep, DeliveredStep DEF WindowInv
<1>3. Inv => QuietRows
  <2> DEFINE list == m_server.appList
  <2> SUFFICES ASSUME Inv, wpc = "loop", gq = <<>>, wq = <<>>, m_server # NULL, ~overlap
               PROVE  \E n \in 0..Len(list) :
                        /\ rows = SubSeq(list, 1, n)
                        /\ \A i \in (n + 1)..Len(list) : list[i].fetch < m_server.fetches
    BY DEF QuietRows
  <2>1. NoStart(wq)
    BY DEF NoStart, Elems
  <2>2. PICK t \in Seq(AppType) : /\ ((rows \o <<>>) \o <<>>) \o t = list
                                  /\ \A i \in 1..Len(t) : t[i].fetch < m_server.fetches
    BY <2>1 DEF Delivered, Rest, UpTo
  <2>3. rows \in Seq(AppType \cup {Test})
    BY DEF WindowInv, Typed, TypeOK
  <2>4. rows \o <<>> = rows
    BY <2>3, ConcatEmptySeq
  <2>5. rows \o t = list
    BY <2>2, <2>4
  <2> HIDE DEF list
  <2>6. /\ Len(rows) \in 0..Len(rows \o t) /\ rows = SubSeq(rows \o t, 1, Len(rows))
        /\ \A i \in (Len(rows) + 1)..Len(rows \o t) :
             i - Len(rows) \in 1..Len(t) /\ (rows \o t)[i] = t[i - Len(rows)]
    BY <2>3, ConcatSplit
  <2> QED  BY <2>2, <2>5, <2>6
<1> QED  BY <1>1, <1>2, <1>3, PTL DEF Spec
=============================================================================
