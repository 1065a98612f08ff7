---------------------------- MODULE RemoteServer ----------------------------
(***************************************************************************)
(* UI/remote_server.c: the record of a MirrorLink server, built from its   *)
(* description, and the SOAP actions on it.  A call of http_client_send is *)
(* one step with the outcomes that HttpExchange allows; an XML document is *)
(* given element by element, each by the device at the moment the code     *)
(* looks at it, so that one action is one round of a loop of the parser.   *)
(*                                                                         *)
(* The fields of remote_server follow each other in memory: the element    *)
(* sinfo[SERVICE_TYPE_MAX], one past the array, lies on appList and on the *)
(* first sixteen bytes of vnc_ip.                                          *)
(***************************************************************************)
EXTENDS Integers, Sequences, FiniteSets

CONSTANTS
  Apps,         \* applications of the device, by appID
  Urls,         \* URLs of its services
  Text,         \* the address of a URL's text, where something else belongs
  NULL,
  MaxServices,  \* bound: services of a description, for proper and other devices
  MaxUrls,      \* bound: URLs of a description, likewise
  MaxListed     \* bound: entries of the application lists, likewise

ASSUME RemoteAssumption ==
  /\ Text \notin Apps /\ NULL \notin Apps /\ Text # NULL
  /\ {MaxServices, MaxUrls, MaxListed} \subseteq [BOOLEAN -> Nat]

VARIABLES
  proper,       \* the device sends documents of the standard form, whole
  rpc,          \* "idle", in the loop over a description or a listing, crashed
  server,       \* the record, or NULL
  type,         \* local variable of the loop over the services
  ret,          \* result of the last action
  \* ghosts: what the device has sent
  outcome,      \* of the last exchange; "nothing" for an action that makes none
  service,      \* the current service: its number, the type it named last
  announced,    \* by type and kind, the URLs of the services that named the type
  untyped,      \* kinds of the URLs of services that had named none
  listed        \* the entries of all its listings

sent == <<service, announced, untyped, listed>>
rsVars == <<proper, rpc, server, type, ret, outcome, service, announced, untyped, listed>>

Types == {"APP", "CLP", "NOT"}     \* SERVICE_TYPE_MAX is "MAX"
Kinds == {"surl", "curl", "eurl"}

Server ==
  [url : [Types -> [Kinds -> Seq(Urls)]],
   appList : Seq(Apps \cup {Text}),
   vnc_ip : Apps \cup {Text, NULL}, vnc_port : Apps \cup {NULL}]

(* A null pointer points to no record.                                     *)
ASSUME NullIsNoServer == NULL \notin Server

NoUrls == [t \in Types |-> [k \in Kinds |-> <<>>]]

(* calloc; an address is modelled by the application it was sent for.  A   *)
(* URL is the texts that str_append has joined.                            *)
NewServer ==
  [url |-> NoUrls,
   appList |-> <<>>, vnc_ip |-> NULL, vnc_port |-> NULL]

(* What http_client_send may come back with: see HttpExchange!Answers.  A  *)
(* response without a body is one that was cut, or has no Content-Length:  *)
(* any device's connection may break.                                      *)
Outcomes == {"nothing", "error", "body", "empty"}

Crash(o) == rpc' = "crashed" /\ outcome' = o /\ UNCHANGED <<proper, server, type, ret, sent>>

-----------------------------------------------------------------------------
(* remote_server_create: its callers have no server then.  A document that *)
(* is not there has no root, and a missing root no children.               *)
remote_server_create ==
  /\ rpc = "idle" /\ server = NULL
  /\ \E o \in Outcomes : outcome' = o /\ rpc' = IF o = "body" THEN "description" ELSE "idle"
  /\ service' = [n |-> 0, inside |-> FALSE, named |-> {}, urls |-> 0]
  /\ announced' = NoUrls /\ untyped' = {} /\ listed' = <<>>
  /\ UNCHANGED <<proper, server, type, ret>>

(* <deviceType>.  The record is made for a TmServerDevice.  The standard   *)
(* wants it once and first.                                                *)
DeviceType ==
  /\ rpc = "description"
  /\ proper => server = NULL /\ service.n = 0
  /\ \/ /\ server' = NewServer
        /\ announced' = NoUrls /\ untyped' = {}
     \/ ~proper /\ UNCHANGED <<server, announced, untyped>>
  /\ service' = [service EXCEPT !.inside = FALSE]
  /\ UNCHANGED <<proper, rpc, type, ret, outcome, listed>>

(* <UDN>.  The text is stored in the record, if there is one.              *)
UDN ==
  /\ rpc = "description" /\ (proper => server # NULL)
  /\ IF server = NULL THEN Crash(outcome)
     ELSE /\ service' = [service EXCEPT !.inside = FALSE]
          /\ UNCHANGED <<proper, rpc, server, type, ret, outcome, announced, untyped, listed>>

(* Mutant: the type is set once, before the loop. *)
Service_KeepsType ==
  /\ rpc = "description" /\ service.n < MaxServices[proper] /\ (proper => server # NULL)
  /\ UNCHANGED type
  /\ service' = [service EXCEPT !.n = @ + 1, !.inside = TRUE, !.named = {}]
  /\ UNCHANGED <<proper, rpc, server, ret, outcome, announced, untyped, listed>>

(* <service>: the type is not known yet. *)
Service ==
  /\ rpc = "description" /\ service.n < MaxServices[proper] /\ (proper => server # NULL)
  /\ type' = "MAX"
  /\ service' = [service EXCEPT !.n = @ + 1, !.inside = TRUE, !.named = {}]
  /\ UNCHANGED <<proper, rpc, server, ret, outcome, announced, untyped, listed>>

(* <serviceType>: one of the three, or another that leaves the type.  In a *)
(* standard description it is the first of the service, and there is one   *)
(* service of a type.                                                      *)
ServiceType ==
  /\ rpc = "description" /\ service.inside
  /\ \E t \in Types \cup {"other"} :
       /\ proper => t # "other" /\ service.named = {} /\ announced[t] = NoUrls[t]
       /\ type' = IF t = "other" THEN type ELSE t
       /\ service' = [service EXCEPT !.named = IF t = "other" THEN @ ELSE {t}]
  /\ UNCHANGED <<proper, rpc, server, ret, outcome, announced, untyped, listed>>

(* str_append(&server->sinfo[type].xurl, ...) *)
PutUrl(s, k, u) ==
  IF type # "MAX" THEN [s EXCEPT !.url[type][k] = Append(@, u)]
  ELSE IF k = "surl" THEN [s EXCEPT !.appList = <<Text>>]
  ELSE [s EXCEPT !.vnc_ip = Text]

(* <SCPDURL>, <controlURL>, <eventSubURL>.  In a standard description      *)
(* after the type, and once.                                               *)
Url ==
  /\ rpc = "description" /\ service.inside /\ service.urls < MaxUrls[proper]
  /\ \E k \in Kinds, u \in Urls :
       /\ proper => service.named # {} /\ \A t \in service.named : announced[t][k] = <<>>
       /\ IF server = NULL THEN Crash(outcome)
          ELSE /\ server' = PutUrl(server, k, u)
               /\ announced' = [t \in Types |-> IF t \notin service.named THEN announced[t]
                                  ELSE [announced[t] EXCEPT ![k] = Append(@, u)]]
               /\ untyped' = untyped \cup (IF service.named = {} THEN {k} ELSE {})
               /\ service' = [service EXCEPT !.urls = @ + 1]
               /\ UNCHANGED <<proper, rpc, type, ret, outcome, listed>>

(* The end of the document.  A standard description names the services it  *)
(* controls with their control URLs.                                       *)
EndDescription ==
  /\ rpc = "description"
  /\ proper => server # NULL /\ \A t \in {"APP", "CLP"} : announced[t]["curl"] # <<>>
  /\ rpc' = "idle"
  /\ UNCHANGED <<proper, server, type, ret, outcome, sent>>

-----------------------------------------------------------------------------
(* The part of remote_server_invoke_action that the actions share.  There  *)
(* is no test for a server without that service: its URL is a null pointer *)
(* for strlen.  Any code but 200 is the result; no response is 0.          *)
Refused(stype) == server.url[stype]["curl"] = <<>> /\ Crash("nothing")

Answered(stype, o) ==
  /\ server.url[stype]["curl"] # <<>>
  /\ o \in Outcomes

NotHandled(o) ==
  /\ o \in {"nothing", "error"}
  /\ ret' = IF o = "error" THEN 500 ELSE 0
  /\ outcome' = o
  /\ UNCHANGED <<proper, rpc, server, type, sent>>

(* The descent Envelope, Body, response, element.  No body is a document   *)
(* without a root, and its name is read from a null pointer; so it is for  *)
(* a body that is no XML, or an element without a child.  Another name     *)
(* ends the descent without effect and result 0.                           *)
NotParsed(o) ==
  \/ o = "empty" /\ Crash(o)
  \/ ~proper /\ o = "body" /\ Crash(o)
  \/ ~proper /\ o = "body" /\ ret' = 0 /\ outcome' = o
     /\ UNCHANGED <<proper, rpc, server, type, sent>>

(* Mutant: the null pointer is not tested. *)
NoServer_NoTest == server = NULL /\ Crash("nothing")

(* Every action begins with this test.                                     *)
NoServer ==
  /\ server = NULL /\ ret' = 0 /\ outcome' = "nothing"
  /\ UNCHANGED <<proper, rpc, server, type, sent>>

remote_server_get_application_list ==
  /\ rpc = "idle"
  /\ \/ NoServer
     \/ server # NULL /\ Refused("APP")
     \/ /\ server # NULL
        /\ \E o \in Outcomes :
             /\ Answered("APP", o)
             /\ \/ NotHandled(o)
                \/ NotParsed(o)
                \/ /\ o = "body" /\ rpc' = "listing" /\ outcome' = o
                   /\ UNCHANGED <<proper, server, type, ret, sent>>

(* Mutant: the next pointer is not set. *)
App_NoNext ==
  /\ rpc = "listing" /\ Len(listed) < MaxListed[proper]
  /\ \E a \in Apps :
       /\ server' = [server EXCEPT !.appList = <<a>>]
       /\ listed' = Append(listed, a)
  /\ UNCHANGED <<proper, rpc, type, ret, outcome, service, announced, untyped>>

(* One <app> of the inner document: it becomes the head of the list.       *)
App ==
  /\ rpc = "listing" /\ Len(listed) < MaxListed[proper]
  /\ \E a \in Apps :
       /\ server' = [server EXCEPT !.appList = <<a>> \o @]
       /\ listed' = Append(listed, a)
  /\ UNCHANGED <<proper, rpc, type, ret, outcome, service, announced, untyped>>

EndListing ==
  /\ rpc = "listing"
  /\ rpc' = "idle" /\ ret' = 0
  /\ UNCHANGED <<proper, server, type, outcome, sent>>

(* sscanf "VNC://%[^:]:%hu" into the record: an address and a port, an     *)
(* address only, neither (another protocol).                               *)
LaunchParse(s, a, uri) ==
  CASE uri = "full"    -> [s EXCEPT !.vnc_ip = a, !.vnc_port = a]
    [] uri = "no port" -> [s EXCEPT !.vnc_ip = a]
    [] uri = "other"   -> s

(* The result is 0 when the address was taken, and when there was no       *)
(* response; 200 when there is none to take.                               *)
remote_server_launch_application ==
  /\ rpc = "idle"
  /\ \/ NoServer
     \/ server # NULL /\ Refused("APP")
     \/ /\ server # NULL
        /\ \E o \in Outcomes, a \in Apps :
             /\ Answered("APP", o)
             /\ \/ NotHandled(o)
                \/ NotParsed(o)
                \/ /\ o = "body" /\ outcome' = o
                   /\ \E uri \in {"full", "other"} \cup (IF proper THEN {} ELSE {"no port"}) :
                        /\ server' = LaunchParse(server, a, uri)
                        /\ ret' = IF uri = "full" THEN 0 ELSE 200
                   /\ UNCHANGED <<proper, rpc, type, sent>>

(* Its handler looks at nothing, no body included, and returns 0.          *)
remote_server_set_client_profile ==
  /\ rpc = "idle"
  /\ \/ NoServer
     \/ server # NULL /\ Refused("CLP")
     \/ /\ server # NULL
        /\ \E o \in Outcomes :
             /\ Answered("CLP", o)
             /\ ret' = IF o = "error" THEN 500 ELSE 0
             /\ outcome' = o
             /\ UNCHANGED <<proper, rpc, server, type, sent>>

remote_server_destory ==
  /\ rpc = "idle" /\ server # NULL
  /\ server' = NULL
  /\ UNCHANGED <<proper, rpc, type, ret, outcome, sent>>

-----------------------------------------------------------------------------
Init ==
  /\ proper \in BOOLEAN
  /\ rpc = "idle" /\ server = NULL /\ type = "MAX" /\ ret = 0 /\ outcome = "nothing"
  /\ service = [n |-> 0, inside |-> FALSE, named |-> {}, urls |-> 0]
  /\ announced = NoUrls /\ untyped = {} /\ listed = <<>>

Next ==
  \/ remote_server_create \/ DeviceType \/ UDN \/ Service \/ ServiceType \/ Url
  \/ EndDescription
  \/ remote_server_get_application_list \/ App \/ EndListing
  \/ remote_server_launch_application \/ remote_server_set_client_profile
  \/ remote_server_destory

Spec == Init /\ [][Next]_rsVars

-----------------------------------------------------------------------------
(* The variables keep to their types. *)
TypeOK ==
  /\ proper \in BOOLEAN
  /\ rpc \in {"idle", "description", "listing", "crashed"}
  /\ server \in Server \cup {NULL}
  /\ type \in Types \cup {"MAX"}
  /\ ret \in {0, 200, 500} /\ outcome \in Outcomes
  /\ service \in [n : 0..MaxServices[proper], inside : BOOLEAN, named : SUBSET Types,
                  urls : 0..MaxUrls[proper]]
  /\ announced \in [Types -> [Kinds -> Seq(Urls)]] /\ untyped \subseteq Kinds
  /\ listed \in Seq(Apps)

(* What is stored under a type are the texts of that kind that services of *)
(* the type announced, all of them, joined in their order: a URL given     *)
(* once is stored as it is, one given twice as a URL that nobody           *)
(* announced.  No order of the elements, no service without a type or of a *)
(* foreign one, and no later service lends its URLs to another: an action  *)
(* is never invoked at the URL of another service.                         *)
UrlsAnnounced == server # NULL => server.url = announced

(* Whatever fails on the way and in whatever order the actions are called, *)
(* without a server included, a device that sends whole documents of the   *)
(* standard form makes the program stop in one way only: its 200 came      *)
(* without a body, and that is read as a document.                         *)
CrashesOnlyOnEmptyReply == (proper /\ rpc = "crashed") => outcome = "empty"

(* The application list of any device is the listings it sent, the last    *)
(* entry first, each once: none is lost over repeated requests, and        *)
(* nothing from the description runs into it but one thing: the SCPDURL of *)
(* a service that had named no type known here, whose text is then the end *)
(* of the list.                                                            *)
ListIsListings ==
  server # NULL =>
    server.appList = [i \in 1..Len(listed) |-> listed[Len(listed) + 1 - i]]
                     \o (IF "surl" \in untyped THEN <<Text>> ELSE <<>>)
=============================================================================
