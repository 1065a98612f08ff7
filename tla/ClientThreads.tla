--------------------------- MODULE ClientThreads ----------------------------
(***************************************************************************)
(* MirrorLinkClient/: the window and its thread manager in the GUI thread, *)
(* the MirrorLinkClient object in a worker thread, and the queued signals  *)
(* between them.  Every thread delivers the events of its queue in order,  *)
(* one at a time, and an event only when the slot of the one before it has *)
(* returned.                                                               *)
(*                                                                         *)
(* The calls of remote_server.c and the VNC session run inside the slots.  *)
(* They are modelled by their outcomes for a phone whose documents are     *)
(* well formed (RemoteServer has the others).  A phone that takes the      *)
(* connection and says nothing, and a session whose server is gone, never  *)
(* return: conn_read_all has no timeout, and vnc_session_task ends only by *)
(* a ByeBye.                                                               *)
(***************************************************************************)
EXTENDS Integers, Sequences, FiniteSets

CONSTANTS
  Listing,    \* the phone's application list, by phone: a sequence of apps
  Test,       \* the row of the constructor marked "to be removed"
  Started,    \* the event of QThread::started
  NULL,
  MaxClicks   \* bound: what the user does

ASSUME ClientAssumption ==
  /\ \A p \in DOMAIN Listing : Listing[p] \in Seq(UNION {{Listing[q][i] : i \in 1..Len(Listing[q])} : q \in DOMAIN Listing})
  /\ Cardinality({Test, Started, NULL}) = 3
  /\ MaxClicks \in Nat

Phones == DOMAIN Listing

VARIABLES
  \* the GUI thread
  gpc,        \* "exec" (its event loop), "closing" (~ThreadManager), "exited"
  gq,         \* events for objects of the GUI thread
  rows,       \* the list the user sees
  connected,  \* ThreadManager::onThreadStart has run
  clicks,
  \* the worker thread
  wpc,        \* the place in the slot that runs, "loop" between two slots
  wq,         \* events for MirrorLinkClient
  quit,       \* QThread::quit was called
  arg,        \* argument of the slot
  m_server,   \* the server, or NULL
  nextApp,    \* the loop over the applications: the rest of the list
  \* the heap
  servers,    \* how many records were allocated; they are numbered
  live,       \* those not freed
  freedApps,  \* applications freed
  texts,      \* names and descriptions that are allocated
  overlap     \* ghost: start was clicked before the last one was through

gui    == <<gpc, gq, rows, connected, clicks>>
worker == <<wpc, wq, quit, arg, m_server, nextApp>>
heap   == <<servers, live, freedApps, texts>>
vars   == <<gui, worker, heap, overlap>>

(* An application is identified by its server, the request that listed it  *)
(* and its place in the answer.                                            *)
AppName == UNION {{Listing[p][i] : i \in 1..Len(Listing[p])} : p \in Phones}
Place   == Nat \ {0}
AppType == [app : AppName, server : Place, fetch : Place, at : Nat]

(* appList is the chain of next pointers; fetches counts the requests for  *)
(* the list; address is that of the launch that stored it, in vnc_ip and   *)
(* vnc_port.                                                               *)
ServerType ==
  [id : Place, phone : Phones, appList : Seq(AppType), fetches : Nat,
   address : AppType \cup {Test, NULL}]

(* A null pointer points to no record.                                     *)
ASSUME NullIsNoServer == NULL \notin ServerType

(* Neither the event of QThread::started nor the row of the constructor is *)
(* an application.                                                         *)
ASSUME EventsAreNoApps == Started \notin AppType /\ Test \notin AppType

Events == [op : {"start"}, arg : Phones] \cup [op : {"stop"}, arg : {NULL}]
          \cup [op : {"launch"}, arg : AppType \cup {Test}]

WorkerPCs == {"boot", "loop", "create", "list", "walk", "launch", "launched",
              "session", "stuck", "crashed", "finished"}

TypeOK ==
  /\ gpc \in {"exec", "closing", "exited"}
  /\ gq \in Seq(AppType \cup {Started})
  /\ rows \in Seq(AppType \cup {Test})
  /\ connected \in BOOLEAN /\ quit \in BOOLEAN /\ overlap \in BOOLEAN
  /\ clicks \in 0..MaxClicks
  /\ wpc \in WorkerPCs
  /\ wq \in Seq(Events)
  /\ arg \in Phones \cup AppType \cup {Test, NULL}
  /\ m_server \in ServerType \cup {NULL}
  /\ nextApp \in Seq(AppType)
  /\ servers \in Nat
  /\ live \subseteq Place
  /\ freedApps \subseteq AppType /\ texts \subseteq AppType

(* MainWindow and ThreadManager constructed, the worker thread started.    *)
Init ==
  /\ gpc = "exec" /\ gq = <<>> /\ rows = <<Test>> /\ connected = FALSE /\ clicks = 0
  /\ wpc = "boot" /\ wq = <<>> /\ quit = FALSE /\ arg = NULL
  /\ m_server = NULL /\ nextApp = <<>>
  /\ servers = 0 /\ live = {} /\ freedApps = {} /\ texts = {}
  /\ overlap = FALSE

-----------------------------------------------------------------------------
(* The GUI thread.                                                         *)

Click == gpc = "exec" /\ clicks < MaxClicks /\ clicks' = clicks + 1

(* A signal of ThreadManager: nobody hears it before onThreadStart.        *)
Emit(e) == wq' = IF connected THEN Append(wq, e) ELSE wq

(* A start is not through: it waits, its slot runs, or rows are to come.   *)
Starting ==
  \/ \E i \in 1..Len(wq) : wq[i].op = "start"
  \/ wpc \in {"create", "list", "walk"}
  \/ \E i \in 1..Len(gq) : gq[i] # Started

on_startButton_clicked ==
  /\ Click
  /\ rows' = <<>>
  /\ \E p \in Phones : Emit([op |-> "start", arg |-> p])
  /\ overlap' = (overlap \/ Starting)
  /\ UNCHANGED <<gpc, gq, connected, wpc, quit, arg, m_server, nextApp, heap>>

on_stopButton_clicked ==
  /\ Click
  /\ Emit([op |-> "stop", arg |-> NULL])
  /\ UNCHANGED <<gpc, gq, rows, connected, wpc, quit, arg, m_server, nextApp, heap, overlap>>

on_viewDoubleClick ==
  /\ Click
  /\ \E i \in 1..Len(rows) : Emit([op |-> "launch", arg |-> rows[i]])
  /\ UNCHANGED <<gpc, gq, rows, connected, wpc, quit, arg, m_server, nextApp, heap, overlap>>

(* QThread::started *)
onThreadStart ==
  /\ gpc = "exec" /\ gq # <<>> /\ Head(gq) = Started
  /\ gq' = Tail(gq) /\ connected' = TRUE
  /\ UNCHANGED <<gpc, rows, clicks, worker, heap, overlap>>

(* Mutant: rows are added at the top. *)
on_addApp_OnTop ==
  /\ gpc = "exec" /\ gq # <<>> /\ Head(gq) # Started
  /\ gq' = Tail(gq) /\ rows' = <<Head(gq)>> \o rows
  /\ UNCHANGED <<gpc, connected, clicks, worker, heap, overlap>>

(* ThreadManager::onAddApp and, directly, MainWindow::on_addApp.           *)
on_addApp ==
  /\ gpc = "exec" /\ gq # <<>> /\ Head(gq) # Started
  /\ gq' = Tail(gq) /\ rows' = Append(rows, Head(gq))
  /\ UNCHANGED <<gpc, connected, clicks, worker, heap, overlap>>

(* Mutant: wait() without quit(). *)
CloseWindow_NoQuit ==
  /\ gpc = "exec"
  /\ gpc' = "closing"
  /\ UNCHANGED <<gq, rows, connected, clicks, worker, heap, overlap>>

(* The window is closed: main returns and destroys it, ~ThreadManager asks *)
(* the worker to quit and waits.                                           *)
CloseWindow ==
  /\ gpc = "exec"
  /\ gpc' = "closing" /\ quit' = TRUE
  /\ UNCHANGED <<gq, rows, connected, clicks, wpc, wq, arg, m_server, nextApp, heap, overlap>>

(* Mutant: the destructor does nothing. *)
Exit_KeepsServer ==
  /\ gpc = "closing" /\ wpc = "finished"
  /\ gpc' = "exited" /\ m_server' = NULL
  /\ UNCHANGED <<gq, rows, connected, clicks, wpc, wq, quit, arg, nextApp, heap, overlap>>

(* wait() has returned: ~MirrorLinkClient destroys the server.             *)
Exit ==
  /\ gpc = "closing" /\ wpc = "finished"
  /\ gpc' = "exited"
  /\ live' = IF m_server = NULL THEN live ELSE live \ {m_server.id}
  /\ m_server' = NULL
  /\ UNCHANGED <<gq, rows, connected, clicks, wpc, wq, quit, arg, nextApp,
                 servers, freedApps, texts, overlap>>

Gui == onThreadStart \/ on_addApp \/ Exit

User == on_startButton_clicked \/ on_stopButton_clicked \/ on_viewDoubleClick \/ CloseWindow

-----------------------------------------------------------------------------
(* The worker thread.                                                      *)

Boot ==
  /\ wpc = "boot"
  /\ wpc' = "loop" /\ gq' = Append(gq, Started)
  /\ UNCHANGED <<gpc, rows, connected, clicks, wq, quit, arg, m_server, nextApp, heap, overlap>>

(* After quit() events that are already queued may still be delivered.     *)
Finish ==
  /\ wpc = "loop" /\ quit
  /\ wpc' = "finished"
  /\ UNCHANGED <<gui, wq, quit, arg, m_server, nextApp, heap, overlap>>

Take(op) ==
  /\ wpc = "loop" /\ wq # <<>> /\ Head(wq).op = op
  /\ wq' = Tail(wq)
  /\ UNCHANGED <<gui, quit, overlap>>

(* A server that is there is kept, whatever address the window gave.       *)
onStart ==
  /\ Take("start")
  /\ arg' = Head(wq).arg
  /\ wpc' = IF m_server = NULL THEN "create" ELSE "list"
  /\ UNCHANGED <<m_server, nextApp, heap>>

(* remote_server_create: a server, none, or no end.                        *)
Create ==
  /\ wpc = "create"
  /\ \/ /\ m_server' = [id |-> servers + 1, phone |-> arg, appList |-> <<>>,
                        fetches |-> 0, address |-> NULL]
        /\ servers' = servers + 1 /\ live' = live \cup {servers + 1}
        /\ wpc' = "list"
     \/ wpc' \in {"loop", "stuck"} /\ UNCHANGED <<m_server, servers, live>>
  /\ UNCHANGED <<gui, wq, quit, arg, nextApp, freedApps, texts, overlap>>

(* The entries of a listing, each put in front of the list.                *)
Listed(s) ==
  LET apps == Listing[s.phone]
      n    == Len(apps)
  IN  [i \in 1..n |-> [app |-> apps[n + 1 - i], server |-> s.id,
                       fetch |-> s.fetches + 1, at |-> i]]

(* remote_server_get_application_list, whose result is not looked at: the  *)
(* walk begins at the head of the list, old entries included.              *)
List ==
  /\ wpc = "list"
  /\ \/ \E new \in {<<>>, Listed(m_server)} :
          /\ m_server' = [m_server EXCEPT !.appList = new \o @, !.fetches = @ + 1]
          /\ nextApp' = m_server'.appList
          /\ texts' = texts \cup {new[i] : i \in 1..Len(new)}
          /\ wpc' = "walk"
     \/ wpc' = "stuck" /\ UNCHANGED <<m_server, nextApp, texts>>
  /\ UNCHANGED <<gui, wq, quit, arg, servers, live, freedApps, overlap>>

(* Mutant: the emit waits for the GUI thread (a blocking connection). *)
WalkApp_Blocks ==
  /\ wpc = "walk" /\ nextApp # <<>> /\ gq = <<>> /\ Head(nextApp) \notin freedApps
  /\ gq' = Append(gq, Head(nextApp))
  /\ freedApps' = freedApps \cup {Head(nextApp)}
  /\ nextApp' = Tail(nextApp)
  /\ UNCHANGED <<gpc, rows, connected, clicks, wpc, wq, quit, arg, m_server,
                 servers, live, texts, overlap>>

(* One round: the application is shown and freed; the server keeps the     *)
(* head of the list.                                                       *)
WalkApp ==
  /\ wpc = "walk" /\ nextApp # <<>> /\ Head(nextApp) \notin freedApps
  /\ gq' = Append(gq, Head(nextApp))
  /\ freedApps' = freedApps \cup {Head(nextApp)}
  /\ nextApp' = Tail(nextApp)
  /\ UNCHANGED <<gpc, rows, connected, clicks, wpc, wq, quit, arg, m_server,
                 servers, live, texts, overlap>>

(* The block was freed by an earlier walk: what it holds is indeterminate, *)
(* and it is freed again.  The program is stopped, or the fields are still *)
(* there, or the next pointer is null.                                     *)
WalkFreed ==
  /\ wpc = "walk" /\ nextApp # <<>> /\ Head(nextApp) \in freedApps
  /\ \/ wpc' = "crashed" /\ UNCHANGED <<gq, nextApp>>
     \/ /\ gq' = Append(gq, Head(nextApp)) /\ nextApp' \in {<<>>, Tail(nextApp)}
        /\ UNCHANGED wpc
  /\ UNCHANGED <<gpc, rows, connected, clicks, wq, quit, arg, m_server, heap, overlap>>

WalkEnds ==
  /\ wpc = "walk" /\ nextApp = <<>>
  /\ wpc' = "loop"
  /\ UNCHANGED <<gui, wq, quit, arg, m_server, nextApp, heap, overlap>>

(* Mutant: the texts of the applications are freed with the server. *)
onStop_FreesTexts ==
  /\ Take("stop")
  /\ live' = IF m_server = NULL THEN live ELSE live \ {m_server.id}
  /\ texts' = IF m_server = NULL THEN texts ELSE {t \in texts : t.server # m_server.id}
  /\ m_server' = NULL
  /\ UNCHANGED <<wpc, arg, nextApp, servers, freedApps>>

(* remote_server_destory frees the record and the URLs, neither the        *)
(* applications nor their texts.                                           *)
onStop ==
  /\ Take("stop")
  /\ live' = IF m_server = NULL THEN live ELSE live \ {m_server.id}
  /\ m_server' = NULL
  /\ UNCHANGED <<wpc, arg, nextApp, servers, freedApps, texts>>

(* Mutant: the server is not tested. *)
onLaunch_NoTest ==
  /\ Take("launch")
  /\ wpc' = "launch" /\ arg' = Head(wq).arg
  /\ UNCHANGED <<m_server, nextApp, heap>>

onLaunch ==
  /\ Take("launch")
  /\ IF m_server = NULL THEN UNCHANGED <<wpc, arg>>
     ELSE /\ arg' = Head(wq).arg
          /\ wpc' = "launch"
  /\ UNCHANGED <<m_server, nextApp, heap>>

(* remote_server_launch_application: the address is stored and the result  *)
(* is 0; the result is 0 without an address, when no response came; an     *)
(* error; no end.                                                          *)
Launch ==
  /\ wpc = "launch"
  /\ \/ /\ m_server' = [m_server EXCEPT !.address = arg]
        /\ wpc' = "launched"
     \/ wpc' \in {"launched", "loop", "stuck"} /\ UNCHANGED m_server
  /\ UNCHANGED <<gui, wq, quit, arg, nextApp, heap, overlap>>

(* process_app_launched: conn_open may fail, and does without an address.  *)
process_app_launched ==
  /\ wpc = "launched"
  /\ wpc' \in {"loop"} \cup (IF m_server.address = NULL THEN {} ELSE {"session"})
  /\ UNCHANGED <<gui, wq, quit, arg, m_server, nextApp, heap, overlap>>

(* vnc_session_task: the server says ByeBye, or is gone. *)
Session ==
  /\ wpc = "session"
  /\ wpc' \in {"loop", "stuck"}
  /\ UNCHANGED <<gui, wq, quit, arg, m_server, nextApp, heap, overlap>>

Worker ==
  \/ Boot \/ Finish \/ onStart \/ Create \/ List \/ WalkApp \/ WalkFreed \/ WalkEnds
  \/ onStop \/ onLaunch \/ Launch \/ process_app_launched

-----------------------------------------------------------------------------
Next == User \/ Gui \/ Worker \/ Session

Spec == Init /\ [][Next]_vars

(* Both event loops run.  The user does what he likes and a session lasts  *)
(* as long as the phone wants.                                             *)
FairSpec == Spec /\ WF_vars(Gui) /\ WF_vars(Worker)

-----------------------------------------------------------------------------
(* The records on the heap are the one m_server points to: no order of     *)
(* start, stop and close frees one twice, leaves m_server dangling or      *)
(* leaks one, and when the program has ended none is left.                 *)
ServersTracked ==
  /\ live = IF m_server = NULL THEN {} ELSE {m_server.id}
  /\ gpc = "exited" => live = {}

(* A queued addApp carries pointers to the application's texts; the worker *)
(* may free the application and handle a stop before it is delivered.  The *)
(* texts are still there then.                                             *)
TextsAlive ==
  \A i \in 1..Len(gq) : gq[i] = Started \/ gq[i] \in texts

(* The walk stands on a freed application only when the list of the same   *)
(* server is asked for again: start was clicked twice without a stop.      *)
WalkFresh ==
  /\ (wpc = "walk" /\ nextApp # <<>> /\ Head(nextApp) \in freedApps) => m_server.fetches > 1
  /\ wpc = "crashed" => m_server.fetches > 1

(* The two together: no thread uses what another has freed.                *)
NoDangling == TextsAlive /\ WalkFresh

(* What is launched on a server is an application that server has listed   *)
(* (if no start was clicked while another was under way), and never the    *)
(* row of the constructor, whatever was clicked before.  A session is at   *)
(* an address that this server gave for one of them: of this launch, or,   *)
(* as a launch without a response counts as a success, of an earlier one,  *)
(* but never of an earlier server.                                         *)
LaunchKnown ==
  wpc \in {"launch", "launched", "session"} =>
    /\ m_server # NULL /\ arg \in AppType
    /\ ~overlap => arg.server = m_server.id
    /\ (~overlap /\ wpc = "session") => m_server.address.server = m_server.id

(* When everything is delivered, the rows are the list of the server there *)
(* is, in its order, with nothing lost of the last request for it: nothing *)
(* of an earlier server, and nothing twice where start was clicked once.   *)
(* Clicked again without a stop, start asks the same server again, whose   *)
(* list keeps the applications it has freed: they are shown a second time, *)
(* behind the new ones, as far as their next pointers still lead.  If it   *)
(* is clicked while another is under way (overlap), the rows of the two    *)
(* mix, and nothing is said of them.                                       *)
QuietRows ==
  (wpc = "loop" /\ gq = <<>> /\ wq = <<>> /\ m_server # NULL /\ ~overlap) =>
    \E n \in 0..Len(m_server.appList) :
      /\ rows = SubSeq(m_server.appList, 1, n)
      /\ \A i \in (n + 1)..Len(m_server.appList) :
           m_server.appList[i].fetch < m_server.fetches

(* Every request is handled, the stop included, unless a slot does not     *)
(* return (a silent phone, a session) or the program is gone.              *)
Held == wpc \in {"session", "stuck", "crashed", "finished"}
RequestsHandled == wq # <<>> ~> (wq = <<>> \/ Held)

(* Closing the window ends the program under the same condition.           *)
CloseEnds == gpc = "closing" ~> (gpc = "exited" \/ wpc \in {"session", "stuck", "crashed"})
=============================================================================
