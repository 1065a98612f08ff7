---------------------------- MODULE RemoteProofs ----------------------------
(***************************************************************************)
(* Theorems about RemoteServer, for any applications, URLs and bounds.     *)
(***************************************************************************)
EXTENDS RemoteServer, TLAPS

-----------------------------------------------------------------------------
(* The records that the actions make are of the type of theirs.            *)

ServiceRec ==
  [n : 0..MaxServices[proper], inside : BOOLEAN, named : SUBSET Types, urls : 0..MaxUrls[proper]]

LEMMA ServiceUpdate ==
  ASSUME service \in ServiceRec
  PROVE  /\ \A b \in BOOLEAN : [service EXCEPT !.inside = b] \in ServiceRec
         /\ \A T \in SUBSET Types : [service EXCEPT !.named = T] \in ServiceRec
BY DEF ServiceRec

LEMMA ServiceBegins ==
  ASSUME NEW A, NEW B, NEW C, NEW D, NEW r \in [n : A, inside : B, named : C, urls : D],
         NEW x \in A, NEW y \in B, NEW z \in C
  PROVE  [r EXCEPT !.n = x, !.inside = y, !.named = z] \in [n : A, inside : B, named : C, urls : D]
OBVIOUS

LEMMA BoundsAreNumbers ==
  ASSUME proper \in BOOLEAN
  PROVE  MaxServices[proper] \in Nat /\ MaxUrls[proper] \in Nat
BY RemoteAssumption

LEMMA NoUrlsType == NoUrls \in [Types -> [Kinds -> Seq(Urls)]]
BY DEF NoUrls

LEMMA NewServerType == NewServer \in Server
<1>1. <<>> \in Seq(Apps \cup {Text})  OBVIOUS
<1> QED  BY <1>1, NoUrlsType DEF NewServer, Server

LEMMA PutUrlType ==
  ASSUME NEW s \in Server, NEW k \in Kinds, NEW u \in Urls, type \in Types \cup {"MAX"}
  PROVE  PutUrl(s, k, u) \in Server
<1>1. CASE type # "MAX"
  <2>1. type \in Types  BY <1>1
  <2>2. s.url \in [Types -> [Kinds -> Seq(Urls)]]  BY DEF Server
  <2> DEFINE new == Append(s.url[type][k], u)
             row == [s.url[type] EXCEPT ![k] = new]
             url == [s.url EXCEPT ![type] = row]
  <2>3. s.url[type] \in [Kinds -> Seq(Urls)]  BY <2>1, <2>2
  <2>4. new \in Seq(Urls)  BY <2>3
  <2>5. row \in [Kinds -> Seq(Urls)]  BY <2>3, <2>4
  <2> HIDE DEF row
  <2>6. url \in [Types -> [Kinds -> Seq(Urls)]]  BY <2>2, <2>5
  <2>7. PutUrl(s, k, u) = [s EXCEPT !.url = url]  BY <1>1 DEF PutUrl, row
  <2> HIDE DEF url
  <2> QED  BY <2>6, <2>7 DEF Server
<1>2. CASE type = "MAX"
  <2>1. CASE k = "surl"
    <3> DEFINE list == <<Text>>
    <3>1. list \in Seq(Apps \cup {Text})  OBVIOUS
    <3>2. PutUrl(s, k, u) = [s EXCEPT !.appList = list]  BY <1>2, <2>1 DEF PutUrl
    <3> HIDE DEF list
    <3> QED  BY <3>1, <3>2 DEF Server
  <2>2. CASE k # "surl"  BY <1>2, <2>2 DEF PutUrl, Server
  <2> QED  BY <2>1, <2>2
<1> QED  BY <1>1, <1>2

LEMMA ListType ==
  ASSUME NEW s \in Server, NEW a \in Apps
  PROVE  [s EXCEPT !.appList = <<a>> \o @] \in Server
<1>1. s.appList \in Seq(Apps \cup {Text})  BY DEF Server
<1>2. <<a>> \o s.appList \in Seq(Apps \cup {Text})  BY <1>1
<1> DEFINE list == <<a>> \o s.appList
<1>3. list \in Seq(Apps \cup {Text})  BY <1>2
<1> HIDE DEF list
<1>4. [s EXCEPT !.appList = list] \in Server  BY <1>3 DEF Server
<1> QED  BY <1>4 DEF list

LEMMA LaunchType ==
  ASSUME NEW s \in Server, NEW a \in Apps, NEW uri \in {"full", "no port", "other"}
  PROVE  LaunchParse(s, a, uri) \in Server
<1>1. CASE uri = "full"     BY <1>1 DEF LaunchParse, Server
<1>2. CASE uri = "no port"  BY <1>2 DEF LaunchParse, Server
<1>3. CASE uri = "other"    BY <1>3 DEF LaunchParse
<1> QED  BY <1>1, <1>2, <1>3

-----------------------------------------------------------------------------
(* What an action can do to a server, by the name of the step.             *)
ServerStep ==
  \/ server' = server
  \/ server' = NULL
  \/ server' = NewServer
  \/ \E k \in Kinds, u \in Urls : server # NULL /\ server' = PutUrl(server, k, u)
  \/ \E a \in Apps : rpc = "listing" /\ server' = [server EXCEPT !.appList = <<a>> \o @]
  \/ \E a \in Apps, uri \in {"full", "no port", "other"} :
       server # NULL /\ server' = LaunchParse(server, a, uri)

(* A listing is parsed for a server only.                                  *)
Typed == TypeOK /\ (rpc = "listing" => server # NULL)

LEMMA ServerStays ==
  ASSUME Typed, ServerStep
  PROVE  server' \in Server \cup {NULL}
<1> USE DEF Typed, TypeOK
<1>1. CASE server' = server \/ server' = NULL \/ server' = NewServer
  BY <1>1, NewServerType
<1>2. ASSUME NEW k \in Kinds, NEW u \in Urls, server # NULL, server' = PutUrl(server, k, u)
      PROVE  server' \in Server
  BY <1>2, PutUrlType
<1>3. ASSUME NEW a \in Apps, rpc = "listing", server' = [server EXCEPT !.appList = <<a>> \o @]
      PROVE  server' \in Server
  BY <1>3, ListType
<1>4. ASSUME NEW a \in Apps, NEW uri \in {"full", "no port", "other"},
             server # NULL, server' = LaunchParse(server, a, uri)
      PROVE  server' \in Server
  BY <1>4, LaunchType
<1> QED  BY <1>1, <1>2, <1>3, <1>4 DEF ServerStep

(* Every action leaves proper alone and makes one of the server's steps.   *)
LEMMA NextServer ==
  ASSUME Next
  PROVE  ServerStep /\ proper' = proper
<1> USE DEF ServerStep, NoServer, Refused, Crash, NotHandled, NotParsed
<1>1. CASE remote_server_create  BY <1>1 DEF remote_server_create
<1>2. CASE DeviceType  BY <1>2 DEF DeviceType
<1>3. CASE UDN  BY <1>3 DEF UDN
<1>4. CASE Service  BY <1>4 DEF Service
<1>5. CASE ServiceType  BY <1>5 DEF ServiceType
<1>6. CASE Url  BY <1>6 DEF Url
<1>7. CASE EndDescription  BY <1>7 DEF EndDescription
<1>8. CASE remote_server_get_application_list
  BY <1>8 DEF remote_server_get_application_list
<1>9. CASE App  BY <1>9 DEF App
<1>10. CASE EndListing  BY <1>10 DEF EndListing
<1>11. CASE remote_server_launch_application
  BY <1>11 DEF remote_server_launch_application
<1>12. CASE remote_server_set_client_profile
  BY <1>12 DEF remote_server_set_client_profile
<1>13. CASE remote_server_destory  BY <1>13 DEF remote_server_destory
<1> QED
  BY <1>1, <1>2, <1>3, <1>4, <1>5, <1>6, <1>7, <1>8, <1>9, <1>10, <1>11, <1>12, <1>13 DEF Next

(* The local variables of the two loops over a description.                *)
LEMMA NextService ==
  ASSUME Typed, Next
  PROVE  service' \in ServiceRec /\ type' \in Types \cup {"MAX"}
<1>a. service \in ServiceRec /\ type \in Types \cup {"MAX"}
  BY DEF Typed, TypeOK, ServiceRec
<1>b. MaxServices[proper] \in Nat /\ MaxUrls[proper] \in Nat
  BY BoundsAreNumbers DEF Typed, TypeOK
<1>1. CASE remote_server_create
  BY <1>1, <1>a, <1>b DEF remote_server_create, ServiceRec
<1>2. CASE DeviceType \/ UDN
  BY <1>2, <1>a, ServiceUpdate DEF DeviceType, UDN, Crash, sent
<1>3. CASE Service
  <2>1. service.n \in 0..MaxServices[proper] /\ service.n < MaxServices[proper]
    BY <1>3, <1>a DEF Service, ServiceRec
  <2>2. service.n + 1 \in 0..MaxServices[proper]
    BY <1>b, <2>1
  <2>3. service' = [service EXCEPT !.n = service.n + 1, !.inside = TRUE, !.named = {}]
        /\ type' = "MAX"
    BY <1>3 DEF Service
  <2>4. [service EXCEPT !.n = service.n + 1, !.inside = TRUE, !.named = {}] \in ServiceRec
    BY <1>a, <2>2, ServiceBegins DEF ServiceRec
  <2> QED  BY <2>3, <2>4
<1>4. CASE ServiceType
  <2>1. PICK t \in Types \cup {"other"} :
          /\ type' = IF t = "other" THEN type ELSE t
          /\ service' = [service EXCEPT !.named = IF t = "other" THEN @ ELSE {t}]
    BY <1>4 DEF ServiceType
  <2>2. (IF t = "other" THEN service.named ELSE {t}) \in SUBSET Types
    BY <1>a DEF ServiceRec
  <2> QED  BY <1>a, <2>1, <2>2, ServiceUpdate
<1>5. CASE Url
  <2>1. CASE server = NULL  BY <1>5, <1>a, <2>1 DEF Url, Crash, sent
  <2>2. CASE server # NULL
    <3>1. service' = [service EXCEPT !.urls = @ + 1] /\ type' = type
      BY <1>5, <2>2 DEF Url
    <3>2. service.urls \in 0..MaxUrls[proper] /\ service.urls < MaxUrls[proper]
      BY <1>5, <1>a DEF Url, ServiceRec
    <3> QED  BY <1>a, <1>b, <3>1, <3>2 DEF ServiceRec
  <2> QED  BY <2>1, <2>2
<1>6. CASE UNCHANGED <<type, service>>
  BY <1>6, <1>a
<1>7. Next => \/ remote_server_create \/ DeviceType \/ UDN \/ Service \/ ServiceType
              \/ Url \/ UNCHANGED <<type, service>>
  BY DEF Next, EndDescription, remote_server_get_application_list, App, EndListing,
     remote_server_launch_application, remote_server_set_client_profile,
     remote_server_destory, NoServer, Refused, Crash, NotHandled, NotParsed, sent
<1> QED  BY <1>1, <1>2, <1>3, <1>4, <1>5, <1>6, <1>7

(* The ghosts of what the device has sent.                                 *)
LEMMA OneMoreUrl ==
  ASSUME NEW sq \in [Types -> [Kinds -> Seq(Urls)]], NEW T \in SUBSET Types,
         NEW k \in Kinds, NEW u \in Urls
  PROVE  [t \in Types |-> IF t \notin T THEN sq[t] ELSE [sq[t] EXCEPT ![k] = Append(@, u)]]
           \in [Types -> [Kinds -> Seq(Urls)]]
<1>1. ASSUME NEW t \in Types
      PROVE  [sq[t] EXCEPT ![k] = Append(@, u)] \in [Kinds -> Seq(Urls)]
  <2>1. sq[t] \in [Kinds -> Seq(Urls)]  OBVIOUS
  <2>2. Append(sq[t][k], u) \in Seq(Urls)  BY <2>1
  <2> QED  BY <2>1, <2>2
<1> QED  BY <1>1

LEMMA NextSent ==
  ASSUME Typed, Next
  PROVE  /\ announced' \in [Types -> [Kinds -> Seq(Urls)]] /\ untyped' \subseteq Kinds
         /\ listed' \in Seq(Apps)
<1>a. /\ announced \in [Types -> [Kinds -> Seq(Urls)]] /\ untyped \subseteq Kinds
      /\ listed \in Seq(Apps) /\ service.named \in SUBSET Types
  BY DEF Typed, TypeOK
<1>1. CASE remote_server_create
  BY <1>1, NoUrlsType DEF remote_server_create
<1>2. CASE DeviceType
  <2>1. announced' \in {NoUrls, announced} /\ untyped' \in {{}, untyped} /\ listed' = listed
    BY <1>2 DEF DeviceType
  <2> QED  BY <1>a, <2>1, NoUrlsType
<1>3. CASE Url
  <2>1. CASE server = NULL  BY <1>3, <1>a, <2>1 DEF Url, Crash, sent
  <2>2. CASE server # NULL
    <3>1. PICK k \in Kinds, u \in Urls :
            /\ announced' = [t \in Types |-> IF t \notin service.named THEN announced[t]
                               ELSE [announced[t] EXCEPT ![k] = Append(@, u)]]
            /\ untyped' = untyped \cup (IF service.named = {} THEN {k} ELSE {})
            /\ listed' = listed
      BY <1>3, <2>2 DEF Url
    <3>2. announced' \in [Types -> [Kinds -> Seq(Urls)]]
      BY <1>a, <3>1, OneMoreUrl
    <3> QED  BY <1>a, <3>1, <3>2
  <2> QED  BY <2>1, <2>2
<1>4. CASE App
  BY <1>4, <1>a DEF App
<1>5. CASE UNCHANGED <<announced, untyped, listed>>
  BY <1>5, <1>a
<1>6. Next => \/ remote_server_create \/ DeviceType \/ Url \/ App
              \/ UNCHANGED <<announced, untyped, listed>>
  BY DEF Next, UDN, Service, ServiceType, EndDescription, remote_server_get_application_list,
     EndListing, remote_server_launch_application, remote_server_set_client_profile,
     remote_server_destory, NoServer, Refused, Crash, NotHandled, NotParsed, sent
<1> QED  BY <1>1, <1>2, <1>3, <1>4, <1>5, <1>6

LEMMA NextOutcome ==
  ASSUME Typed, Next
  PROVE  outcome' \in Outcomes
<1>a. outcome \in Outcomes
  BY DEF Typed, TypeOK
<1> USE DEF Outcomes, NoServer, Refused, Crash, NotHandled, NotParsed
<1>1. CASE \/ remote_server_create \/ DeviceType \/ UDN \/ Service \/ ServiceType \/ Url
           \/ EndDescription \/ App \/ EndListing \/ remote_server_destory
  BY <1>1, <1>a DEF remote_server_create, DeviceType, UDN, Service, ServiceType, Url,
     EndDescription, App, EndListing, remote_server_destory
<1>2. CASE remote_server_get_application_list
  BY <1>2 DEF remote_server_get_application_list
<1>3. CASE remote_server_launch_application
  BY <1>3 DEF remote_server_launch_application
<1>4. CASE remote_server_set_client_profile
  BY <1>4 DEF remote_server_set_client_profile
<1> QED  BY <1>1, <1>2, <1>3, <1>4 DEF Next

(* The program's place and the result of the last action.                  *)
LEMMA NextPlace ==
  ASSUME Typed, Next
  PROVE  /\ rpc' \in {"idle", "description", "listing", "crashed"}
         /\ ret' \in {0, 200, 500}
         /\ rpc' = "listing" => server' # NULL
<1>a. /\ rpc \in {"idle", "description", "listing", "crashed"} /\ ret \in {0, 200, 500}
      /\ rpc = "listing" => server # NULL
  BY DEF Typed, TypeOK
<1>b. server' \in Server \cup {NULL}
  BY NextServer, ServerStays
<1> USE DEF NoServer, Refused, Crash, NotHandled, NotParsed
<1>1. CASE \/ remote_server_create \/ DeviceType \/ UDN \/ Service \/ ServiceType
           \/ EndDescription \/ EndListing \/ remote_server_destory
  BY <1>1, <1>a DEF remote_server_create, DeviceType, UDN, Service, ServiceType,
     EndDescription, EndListing, remote_server_destory
<1>2. CASE Url
  BY <1>2, <1>a DEF Url
<1>3. CASE App
  <2>1. PICK a \in Apps : server' = [server EXCEPT !.appList = <<a>> \o @]
    BY <1>3 DEF App
  <2>2. rpc' = rpc /\ ret' = ret /\ rpc = "listing"  BY <1>3 DEF App
  <2>3. server \in Server  BY <1>a, <2>2 DEF Typed, TypeOK
  <2>4. server' # NULL  BY <2>1, <2>3, ListType, NullIsNoServer
  <2> QED  BY <1>a, <2>2, <2>4
<1>4. CASE remote_server_get_application_list
  BY <1>4, <1>a DEF remote_server_get_application_list
<1>5. CASE remote_server_launch_application
  <2>1. rpc' \in {"idle", "crashed"}
    BY <1>5 DEF remote_server_launch_application
  <2>2. \/ NoServer \/ Refused("APP") \/ \E o \in Outcomes : NotHandled(o) \/ NotParsed(o)
        \/ ret' \in {0, 200}
    BY <1>5 DEF remote_server_launch_application
  <2>3. ret' \in {0, 200, 500}
    BY <2>2, <1>a
  <2> QED  BY <2>1, <2>3
<1>6. CASE remote_server_set_client_profile
  BY <1>6, <1>a DEF remote_server_set_client_profile
<1> QED  BY <1>1, <1>2, <1>3, <1>4, <1>5, <1>6 DEF Next

LEMMA TypedStep == Typed /\ [Next]_rsVars => Typed'
<1> SUFFICES ASSUME Typed, [Next]_rsVars PROVE Typed'
  OBVIOUS
<1>1. CASE Next
  <2>1. proper' \in BOOLEAN  BY <1>1, NextServer DEF Typed, TypeOK
  <2>2. service' \in [n : 0..MaxServices[proper'], inside : BOOLEAN, named : SUBSET Types,
                        urls : 0..MaxUrls[proper']]
    BY <1>1, NextServer, NextService DEF ServiceRec
  <2> QED
    BY <1>1, <2>1, <2>2, NextServer, NextService, NextSent, NextOutcome, NextPlace,
       ServerStays
    DEF Typed, TypeOK, Outcomes
<1>2. CASE UNCHANGED rsVars
  BY <1>2 DEF rsVars, Typed, TypeOK, Outcomes
<1> QED  BY <1>1, <1>2

LEMMA TypedInit == Init => Typed
<1> SUFFICES ASSUME Init PROVE Typed
  OBVIOUS
<1>1. MaxServices[proper] \in Nat /\ MaxUrls[proper] \in Nat
  BY BoundsAreNumbers DEF Init
<1> QED  BY <1>1, NoUrlsType DEF Init, Typed, TypeOK, Outcomes

(* The variables keep to their types, whatever the device sends.           *)
THEOREM RemoteTypeOK == Spec => []TypeOK
<1>1. Typed => TypeOK
  BY DEF Typed
<1> QED  BY <1>1, TypedInit, TypedStep, PTL DEF Spec

-----------------------------------------------------------------------------
(* What the server's fields are after each of its steps.                   *)

LEMMA PutUrlFields ==
  ASSUME NEW s \in Server, NEW k \in Kinds, NEW u \in Urls, type \in Types \cup {"MAX"}
  PROVE  /\ type = "MAX" =>
              /\ PutUrl(s, k, u).url = s.url
              /\ PutUrl(s, k, u).appList = IF k = "surl" THEN <<Text>> ELSE s.appList
         /\ type # "MAX" =>
              /\ PutUrl(s, k, u).url[type][k] = Append(s.url[type][k], u)
              /\ \A t \in Types, j \in Kinds :
                   t # type \/ j # k => PutUrl(s, k, u).url[t][j] = s.url[t][j]
              /\ PutUrl(s, k, u).appList = s.appList
<1>1. CASE type = "MAX"  BY <1>1 DEF PutUrl, Server
<1>2. CASE type # "MAX"
  <2>1. type \in Types  BY <1>2
  <2>2. s.url \in [Types -> [Kinds -> Seq(Urls)]]  BY DEF Server
  <2>3. s.url[type] \in [Kinds -> Seq(Urls)]  BY <2>1, <2>2
  <2> DEFINE row == [s.url[type] EXCEPT ![k] = Append(s.url[type][k], u)]
             url == [s.url EXCEPT ![type] = row]
  <2>4. row[k] = Append(s.url[type][k], u) /\ \A j \in Kinds : j # k => row[j] = s.url[type][j]
    BY <2>3
  <2> HIDE DEF row
  <2>5. url[type] = row /\ \A t \in Types : t # type => url[t] = s.url[t]
    BY <2>1, <2>2
  <2>6. PutUrl(s, k, u) = [s EXCEPT !.url = url]  BY <1>2 DEF PutUrl, row
  <2> HIDE DEF url
  <2>7. /\ PutUrl(s, k, u).url = url
        /\ PutUrl(s, k, u).appList = s.appList
    BY <2>6 DEF Server
  <2> QED  BY <1>2, <2>1, <2>4, <2>5, <2>7
<1> QED  BY <1>1, <1>2

LEMMA ListFields ==
  ASSUME NEW s \in Server, NEW a \in Apps
  PROVE  LET t == [s EXCEPT !.appList = <<a>> \o @]
         IN  t.url = s.url /\ t.appList = <<a>> \o s.appList
BY DEF Server

LEMMA LaunchFields ==
  ASSUME NEW s \in Server, NEW a \in Apps, NEW uri \in {"full", "no port", "other"}
  PROVE  LET t == LaunchParse(s, a, uri)
         IN  t.url = s.url /\ t.appList = s.appList
<1>1. CASE uri = "full"     BY <1>1 DEF LaunchParse, Server
<1>2. CASE uri = "no port"  BY <1>2 DEF LaunchParse, Server
<1>3. CASE uri = "other"    BY <1>3 DEF LaunchParse
<1> QED  BY <1>1, <1>2, <1>3

-----------------------------------------------------------------------------
(* Inside a service the variable type is the one the service named last,   *)
(* and SERVICE_TYPE_MAX if it named none: this is what keeps a URL from    *)
(* going to the service before it.                                         *)
Named == service.inside => service.named = {type} \ {"MAX"}

LEMMA NamedStep == Typed /\ Named /\ [Next]_rsVars => Named'
<1> SUFFICES ASSUME Typed, Named, [Next]_rsVars PROVE Named'
  OBVIOUS
<1>a. service \in ServiceRec
  BY DEF Typed, TypeOK, ServiceRec
<1>1. CASE remote_server_create
  BY <1>1 DEF remote_server_create, Named
<1>2. CASE DeviceType
  BY <1>2, <1>a DEF DeviceType, Named, ServiceRec
<1>3. CASE UDN
  <2>1. CASE server = NULL  BY <1>3, <2>1 DEF UDN, Crash, sent, Named
  <2>2. CASE server # NULL  BY <1>3, <1>a, <2>2 DEF UDN, Named, ServiceRec
  <2> QED  BY <2>1, <2>2
<1>4. CASE Service
  BY <1>4, <1>a DEF Service, Named, ServiceRec
<1>5. CASE ServiceType
  <2>1. PICK t \in Types \cup {"other"} :
          /\ type' = IF t = "other" THEN type ELSE t
          /\ service' = [service EXCEPT !.named = IF t = "other" THEN @ ELSE {t}]
    BY <1>5 DEF ServiceType
  <2>2. CASE t = "other"
    BY <1>a, <2>1, <2>2 DEF Named, ServiceRec
  <2>3. CASE t # "other"
    <3>1. service'.named = {t} /\ type' = t /\ t # "MAX"
      BY <1>a, <2>1, <2>3 DEF ServiceRec, Types
    <3> QED  BY <3>1 DEF Named
  <2> QED  BY <2>2, <2>3
<1>8. CASE Url
  <2>1. CASE server = NULL  BY <1>8, <2>1 DEF Url, Crash, sent, Named
  <2>2. CASE server # NULL
    <3>1. service' = [service EXCEPT !.urls = @ + 1] /\ type' = type
      BY <1>8, <2>2 DEF Url
    <3> QED  BY <1>a, <3>1 DEF Named, ServiceRec
  <2> QED  BY <2>1, <2>2
<1>6. CASE UNCHANGED <<type, service>>
  BY <1>6 DEF Named
<1>7. [Next]_rsVars =>
        \/ remote_server_create \/ DeviceType \/ UDN \/ Service \/ ServiceType \/ Url
        \/ UNCHANGED <<type, service>>
  BY DEF Next, rsVars, EndDescription, remote_server_get_application_list, App, EndListing,
     remote_server_launch_application, remote_server_set_client_profile,
     remote_server_destory, NoServer, Refused, Crash, NotHandled, NotParsed, sent
<1> QED  BY <1>1, <1>2, <1>3, <1>4, <1>5, <1>6, <1>7, <1>8

(* A step that neither makes a record nor puts a URL into one.             *)
KeepsUrls ==
  /\ announced' = announced
  /\ server' = NULL \/ (server # NULL /\ server'.url = server.url) \/ server' = server

LEMMA UrlStep ==
  ASSUME Typed, [Next]_rsVars
  PROVE  remote_server_create \/ DeviceType \/ (Url /\ server # NULL) \/ KeepsUrls
<1> USE DEF NoServer, Refused, Crash, NotHandled, NotParsed, KeepsUrls, sent
<1>1. CASE \/ remote_server_create \/ DeviceType \/ UDN \/ Service \/ ServiceType
           \/ EndDescription \/ EndListing \/ remote_server_destory
           \/ remote_server_set_client_profile \/ UNCHANGED rsVars
  BY <1>1 DEF UDN, Service, ServiceType, EndDescription, EndListing, remote_server_destory,
     remote_server_set_client_profile, rsVars
<1>2. CASE Url
  BY <1>2 DEF Url
<1>3. CASE remote_server_get_application_list
  BY <1>3 DEF remote_server_get_application_list
<1>4. CASE App
  <2>1. server \in Server /\ server # NULL
    BY <1>4 DEF App, Typed, TypeOK
  <2>2. PICK a \in Apps : server' = [server EXCEPT !.appList = <<a>> \o @]
    BY <1>4 DEF App
  <2>3. server'.url = server.url
    BY <2>1, <2>2, ListFields
  <2> QED  BY <1>4, <2>1, <2>3 DEF App
<1>5. CASE remote_server_launch_application
  <2>1. CASE server' = server
    BY <1>5, <2>1 DEF remote_server_launch_application
  <2>2. CASE server' # server
    <3>1. PICK a \in Apps, uri \in {"full", "no port", "other"} :
            server' = LaunchParse(server, a, uri) /\ server # NULL /\ announced' = announced
      BY ZenonT(40), <1>5, <2>2 DEF remote_server_launch_application
    <3>2. server \in Server  BY <3>1 DEF Typed, TypeOK
    <3> QED  BY <3>1, <3>2, LaunchFields
  <2> QED  BY <2>1, <2>2
<1> QED  BY <1>1, <1>2, <1>3, <1>4, <1>5 DEF Next

LEMMA AnnouncedUrl ==
  ASSUME Typed, Named, UrlsAnnounced, Url, server # NULL
  PROVE  UrlsAnnounced'
<1>1. PICK k \in Kinds, u \in Urls :
        /\ server' = PutUrl(server, k, u)
        /\ announced' = [t \in Types |-> IF t \notin service.named THEN announced[t]
                           ELSE [announced[t] EXCEPT ![k] = Append(@, u)]]
  BY DEF Url
<1>2. /\ server \in Server /\ type \in Types \cup {"MAX"}
      /\ announced \in [Types -> [Kinds -> Seq(Urls)]]
  BY DEF Typed, TypeOK
<1>3. service.named = {type} \ {"MAX"}
  BY DEF Url, Named
<1>4. server.url = announced
  BY DEF UrlsAnnounced
<1>5. CASE type = "MAX"
  <2>1. server'.url = announced
    BY <1>1, <1>2, <1>4, <1>5, PutUrlFields
  <2>2. \A t \in Types : announced'[t] = announced[t]
    BY <1>1, <1>3, <1>5
  <2>3. announced' = [t \in Types |-> announced'[t]]
    BY <1>1
  <2>4. announced' = announced
    BY <1>2, <2>2, <2>3
  <2> QED  BY <2>1, <2>4 DEF UrlsAnnounced
<1>6. CASE type # "MAX"
  <2> DEFINE row == [announced[type] EXCEPT ![k] = Append(announced[type][k], u)]
  <2>1. type \in Types /\ service.named = {type}
    BY <1>2, <1>3, <1>6
  <2>2. server' = [server EXCEPT !.url = [server.url EXCEPT ![type] = row]]
    BY <1>1, <1>4, <1>6 DEF PutUrl
  <2>3. announced' = [t \in Types |-> IF t # type THEN announced[t] ELSE row]
    BY <1>1, <2>1
  <2> HIDE DEF row
  <2>4. announced' = [announced EXCEPT ![type] = row]
    BY <1>2, <2>3
  <2>5. server'.url = [server.url EXCEPT ![type] = row]
    BY <1>2, <2>2 DEF Server
  <2> QED  BY <1>4, <2>4, <2>5 DEF UrlsAnnounced
<1> QED  BY <1>2, <1>5, <1>6

LEMMA AnnouncedStep ==
  Typed /\ Named /\ UrlsAnnounced /\ [Next]_rsVars => UrlsAnnounced'
<1> SUFFICES ASSUME Typed, Named, UrlsAnnounced, [Next]_rsVars PROVE UrlsAnnounced'
  OBVIOUS
<1>1. CASE remote_server_create
  BY <1>1 DEF remote_server_create, UrlsAnnounced
<1>2. CASE DeviceType
  BY <1>2 DEF DeviceType, NewServer, UrlsAnnounced
<1>3. CASE Url /\ server # NULL
  BY <1>3, AnnouncedUrl
<1>4. CASE KeepsUrls
  BY <1>4 DEF KeepsUrls, UrlsAnnounced
<1> QED  BY <1>1, <1>2, <1>3, <1>4, UrlStep

LEMMA NamedAlways == Spec => [](Typed /\ Named /\ UrlsAnnounced)
<1>1. Init => Typed /\ Named /\ UrlsAnnounced
  BY TypedInit DEF Init, Named, UrlsAnnounced
<1>2. (Typed /\ Named /\ UrlsAnnounced) /\ [Next]_rsVars => (Typed /\ Named /\ UrlsAnnounced)'
  BY TypedStep, NamedStep, AnnouncedStep
<1> QED  BY <1>1, <1>2, PTL DEF Spec

(* An action is invoked at a URL of its own service only: what is stored   *)
(* under a type are the texts of that kind that services of the type       *)
(* announced, joined in their order, whatever a description leaves out,    *)
(* repeats or reorders.  Repeated ones are joined into a URL that nobody   *)
(* announced.                                                              *)
THEOREM RemoteUrlsAnnounced == Spec => []UrlsAnnounced
BY NamedAlways, PTL

-----------------------------------------------------------------------------
(* The application list.  A description is read before any listing, so     *)
(* that a text that runs into the list stands at its end.                  *)
Reversed(l) == [i \in 1..Len(l) |-> l[Len(l) + 1 - i]]

DescriptionText == IF "surl" \in untyped THEN <<Text>> ELSE <<>>

Listing ==
  /\ rpc = "description" => listed = <<>>
  /\ server # NULL => server.appList = Reversed(listed) \o DescriptionText

(* The listing of one more application. *)
LEMMA ReversedAppend ==
  ASSUME NEW l \in Seq(Apps), NEW a \in Apps
  PROVE  Reversed(Append(l, a)) = <<a>> \o Reversed(l)
<1>1. Append(l, a) \in Seq(Apps) /\ Len(Append(l, a)) = Len(l) + 1
  OBVIOUS
<1>2. Reversed(l) \in Seq(Apps) /\ Len(Reversed(l)) = Len(l)
  BY DEF Reversed
<1>3. \A i \in 1..Len(l) + 1 :
        Append(l, a)[Len(l) + 2 - i] = IF i = 1 THEN a ELSE l[Len(l) + 2 - i]
  OBVIOUS
<1>4. \A i \in 1..Len(l) + 1 :
        (<<a>> \o Reversed(l))[i] = IF i = 1 THEN a ELSE l[Len(l) + 2 - i]
  <2> TAKE i \in 1..Len(l) + 1
  <2>1. CASE i = 1  BY <1>2, <2>1
  <2>2. CASE i # 1
    <3>1. (<<a>> \o Reversed(l))[i] = Reversed(l)[i - 1]  BY <1>2, <2>2
    <3>2. Reversed(l)[i - 1] = l[Len(l) + 1 - (i - 1)]  BY <2>2 DEF Reversed
    <3>3. Len(l) + 1 - (i - 1) = Len(l) + 2 - i  OBVIOUS
    <3> QED  BY <2>2, <3>1, <3>2, <3>3
  <2> QED  BY <2>1, <2>2
<1>5. Len(<<a>> \o Reversed(l)) = Len(l) + 1 /\ <<a>> \o Reversed(l) \in Seq(Apps)
  BY <1>2
<1>6. Reversed(Append(l, a)) \in Seq(Apps) /\ Len(Reversed(Append(l, a))) = Len(l) + 1
  BY <1>1 DEF Reversed
<1>7. \A i \in 1..Len(l) + 1 : Reversed(Append(l, a))[i] = (<<a>> \o Reversed(l))[i]
  BY <1>1, <1>3, <1>4 DEF Reversed
<1> QED  BY <1>5, <1>6, <1>7

LEMMA Joined ==
  ASSUME NEW S, NEW p \in Seq(S), NEW q \in Seq(S), NEW r \in Seq(S)
  PROVE  (p \o q) \o r = p \o (q \o r)
OBVIOUS

LEMMA EmptyBefore ==
  ASSUME NEW S, NEW r \in Seq(S)
  PROVE  Reversed(<<>>) \o r = r
<1>1. Reversed(<<>>) = <<>>  BY DEF Reversed
<1> QED  BY <1>1

LEMMA ListingApp ==
  ASSUME Typed, Listing, App
  PROVE  Listing'
<1>1. server # NULL /\ server \in Server /\ listed \in Seq(Apps) /\ rpc = "listing"
  BY DEF App, Typed, TypeOK
<1>2. PICK a \in Apps :
        server' = [server EXCEPT !.appList = <<a>> \o @] /\ listed' = Append(listed, a)
  BY DEF App
<1>3. UNCHANGED <<rpc, untyped>>
  BY DEF App
<1>4. server'.appList = <<a>> \o server.appList
  BY <1>1, <1>2, ListFields
<1>5. server.appList = Reversed(listed) \o DescriptionText
  BY <1>1 DEF Listing
<1>6. /\ <<a>> \in Seq(Apps \cup {Text}) /\ DescriptionText \in Seq(Apps \cup {Text})
      /\ Reversed(listed) \in Seq(Apps \cup {Text})
  <2>1. <<a>> \in Seq(Apps \cup {Text})
    OBVIOUS
  <2>2. <<Text>> \in Seq(Apps \cup {Text}) /\ <<>> \in Seq(Apps \cup {Text})
    OBVIOUS
  <2>3. Reversed(listed) \in Seq(Apps \cup {Text})
    BY <1>1 DEF Reversed
  <2> QED  BY <2>1, <2>2, <2>3 DEF DescriptionText
<1>7. <<a>> \o (Reversed(listed) \o DescriptionText) = (<<a>> \o Reversed(listed)) \o DescriptionText
  BY <1>6, Joined
<1>8. Reversed(listed') = <<a>> \o Reversed(listed)
  BY <1>1, <1>2, ReversedAppend
<1>9. DescriptionText' = DescriptionText
  BY <1>3 DEF DescriptionText
<1>10. server'.appList = Reversed(listed') \o DescriptionText'
  BY <1>4, <1>5, <1>7, <1>8, <1>9
<1> QED  BY <1>1, <1>3, <1>10 DEF Listing

LEMMA ListingUrl ==
  ASSUME Typed, Named, Listing, Url, server # NULL
  PROVE  Listing'
<1>1. PICK k \in Kinds, u \in Urls :
        /\ server' = PutUrl(server, k, u)
        /\ untyped' = untyped \cup (IF service.named = {} THEN {k} ELSE {})
        /\ UNCHANGED <<rpc, listed>>
  BY DEF Url
<1>2. server \in Server /\ type \in Types \cup {"MAX"}
  BY DEF Typed, TypeOK
<1>3. service.named = {type} \ {"MAX"} /\ rpc = "description"
  BY DEF Url, Named
<1>4. listed = <<>> /\ server.appList = Reversed(<<>>) \o DescriptionText
  BY <1>3 DEF Listing
<1>5. DescriptionText \in Seq({Text}) /\ <<Text>> \in Seq({Text})
  BY SMTT(30) DEF DescriptionText
<1>6. server.appList = DescriptionText
  BY <1>4, <1>5, EmptyBefore
<1>7. server'.appList = DescriptionText'
  <2>1. CASE type # "MAX"
    <3>1. untyped' = untyped  BY <1>1, <1>3, <2>1
    <3>2. server'.appList = server.appList  BY <1>1, <1>2, <2>1, PutUrlFields
    <3> QED  BY <1>6, <3>1, <3>2 DEF DescriptionText
  <2>2. CASE type = "MAX"
    <3>1. untyped' = untyped \cup {k}  BY <1>1, <1>3, <2>2
    <3>2. server'.appList = IF k = "surl" THEN <<Text>> ELSE server.appList
      BY <1>1, <1>2, <2>2, PutUrlFields
    <3> QED  BY <1>6, <3>1, <3>2 DEF DescriptionText
  <2> QED  BY <2>1, <2>2
<1>8. DescriptionText' \in Seq({Text})
  <2>1. <<Text>> \in Seq({Text}) /\ <<>> \in Seq({Text})
    OBVIOUS
  <2> QED  BY <2>1 DEF DescriptionText
<1>9. server'.appList = Reversed(<<>>) \o DescriptionText'
  BY <1>7, <1>8, EmptyBefore
<1> QED  BY <1>1, <1>4, <1>9 DEF Listing

LEMMA ListingLaunch ==
  ASSUME Typed, Listing, remote_server_launch_application
  PROVE  Listing'
<1>1. rpc = "idle" /\ rpc' # "description" /\ UNCHANGED <<listed, untyped>>
  BY DEF remote_server_launch_application, NoServer, Refused, Crash, NotHandled, NotParsed, sent
<1>2. DescriptionText' = DescriptionText
  BY <1>1 DEF DescriptionText
<1>3. CASE server' = server
  BY <1>1, <1>2, <1>3 DEF Listing
<1>4. CASE server' # server
  <2>1. PICK a \in Apps, uri \in {"full", "no port", "other"} :
          server' = LaunchParse(server, a, uri) /\ server # NULL
    BY <1>4 DEF remote_server_launch_application, NoServer, Refused, Crash, NotHandled, NotParsed
  <2>2. server \in Server  BY <2>1 DEF Typed, TypeOK
  <2>3. server'.appList = server.appList  BY <2>1, <2>2, LaunchFields
  <2> QED  BY <1>1, <1>2, <2>1, <2>3 DEF Listing
<1> QED  BY <1>3, <1>4

LEMMA ListingStep ==
  Typed /\ Named /\ Listing /\ [Next]_rsVars => Listing'
<1> SUFFICES ASSUME Typed, Named, Listing, [Next]_rsVars PROVE Listing'
  OBVIOUS
<1>1. CASE remote_server_create
  BY <1>1 DEF remote_server_create, Listing
<1>2. CASE DeviceType
  <2>1. rpc = "description" /\ UNCHANGED <<rpc, listed>> /\ listed = <<>>
    BY <1>2 DEF DeviceType, Listing
  <2>2. CASE server' = NewServer /\ untyped' = {}
    <3>1. DescriptionText' = <<>> /\ server'.appList = <<>>
      BY <2>2 DEF DescriptionText, NewServer
    <3>2. Reversed(<<>>) \o <<>> = <<>>
      BY DEF Reversed
    <3> QED  BY <2>1, <3>1, <3>2 DEF Listing
  <2>3. CASE server' = server /\ untyped' = untyped
    <3>1. DescriptionText' = DescriptionText  BY <2>3 DEF DescriptionText
    <3> QED  BY <2>1, <2>3, <3>1 DEF Listing
  <2> QED  BY <1>2, <2>2, <2>3 DEF DeviceType
<1>3. CASE Url /\ server # NULL
  BY <1>3, ListingUrl
<1>4. CASE App
  BY <1>4, ListingApp
<1>5. CASE remote_server_launch_application
  BY <1>5, ListingLaunch
<1>6. CASE /\ server' \in {server, NULL} /\ UNCHANGED <<listed, untyped>>
           /\ rpc' = "description" => rpc = "description"
  <2>1. DescriptionText' = DescriptionText  BY <1>6 DEF DescriptionText
  <2> QED  BY <1>6, <2>1 DEF Listing
<1>7. \/ remote_server_create \/ DeviceType \/ (Url /\ server # NULL) \/ App
      \/ remote_server_launch_application
      \/ /\ server' \in {server, NULL} /\ UNCHANGED <<listed, untyped>>
         /\ rpc' = "description" => rpc = "description"
  BY DEF Next, rsVars, Url, UDN, Service, ServiceType, EndDescription,
     remote_server_get_application_list, EndListing, remote_server_set_client_profile,
     remote_server_destory, NoServer, Refused, Crash, NotHandled, NotParsed, sent
<1> QED  BY <1>1, <1>2, <1>3, <1>4, <1>5, <1>6, <1>7

(* The application list of any device is all it listed, over any number of *)
(* requests, and at its end at most the text of a service without a known  *)
(* type.                                                                   *)
THEOREM RemoteListIsListings == Spec => []ListIsListings
<1>1. Init => Listing
  BY DEF Init, Listing
<1>2. (Typed /\ Named) /\ Listing /\ [Next]_rsVars => Listing'
  BY ListingStep
<1>3. Listing => ListIsListings
  BY DEF Listing, ListIsListings, Reversed, DescriptionText
<1> QED  BY <1>1, <1>2, <1>3, NamedAlways, PTL DEF Spec

-----------------------------------------------------------------------------
(* A device whose documents are whole and of the standard form: once the   *)
(* description has been read, the record holds the control URLs of the     *)
(* services that the actions are invoked at.                               *)
Controlled(s) == s.url["APP"]["curl"] # <<>> /\ s.url["CLP"]["curl"] # <<>>

Standard ==
  proper =>
    /\ rpc = "crashed" => outcome = "empty"
    /\ (rpc = "description" /\ service.inside) => server # NULL
    /\ (server # NULL /\ rpc \in {"idle", "listing"}) => Controlled(server)

LEMMA StandardCalls ==
  ASSUME Standard, proper,
         \/ remote_server_get_application_list \/ remote_server_launch_application
         \/ remote_server_set_client_profile,
         server # NULL => server' # NULL /\ server'.url = server.url,
         server = NULL => server' = NULL
  PROVE  Standard'
<1>1. rpc = "idle" /\ proper' = proper
  BY DEF remote_server_get_application_list, remote_server_launch_application,
     remote_server_set_client_profile, NoServer, Refused, Crash, NotHandled, NotParsed
<1>2. ~(server # NULL /\ (Refused("APP") \/ Refused("CLP")))
  BY <1>1 DEF Refused, Standard, Controlled
<1>3. rpc' = "crashed" => outcome' = "empty"
  BY <1>1, <1>2 DEF remote_server_get_application_list, remote_server_launch_application,
     remote_server_set_client_profile, NoServer, NotHandled, NotParsed, Crash
<1>4. rpc' # "description"
  BY <1>1, <1>2 DEF remote_server_get_application_list, remote_server_launch_application,
     remote_server_set_client_profile, NoServer, NotHandled, NotParsed, Crash
<1>5. server' # NULL => Controlled(server')
  BY <1>1 DEF Standard, Controlled
<1> QED  BY <1>1, <1>3, <1>4, <1>5 DEF Standard

LEMMA CallsKeepServer ==
  ASSUME Typed,
         \/ remote_server_get_application_list \/ remote_server_launch_application
         \/ remote_server_set_client_profile
  PROVE  /\ server # NULL => server' # NULL /\ server'.url = server.url
         /\ server = NULL => server' = NULL
<1>1. CASE server' = server
  BY <1>1
<1>2. CASE server' # server
  <2>1. PICK a \in Apps, uri \in {"full", "no port", "other"} :
          server' = LaunchParse(server, a, uri) /\ server # NULL
    BY <1>2 DEF remote_server_get_application_list, remote_server_launch_application,
       remote_server_set_client_profile, NoServer, Refused, Crash, NotHandled, NotParsed
  <2>2. server \in Server  BY <2>1 DEF Typed, TypeOK
  <2>3. server'.url = server.url  BY <2>1, <2>2, LaunchFields
  <2>4. server' # NULL  BY <2>1, <2>2, LaunchType, NullIsNoServer
  <2> QED  BY <2>1, <2>3, <2>4
<1> QED  BY <1>1, <1>2

LEMMA StandardStep ==
  Typed /\ UrlsAnnounced /\ Standard /\ [Next]_rsVars => Standard'
<1> SUFFICES ASSUME Typed, UrlsAnnounced, Standard, [Next]_rsVars, proper PROVE Standard'
  <2>1. ASSUME ~proper, [Next]_rsVars PROVE Standard'
    BY <2>1, NextServer DEF Standard, rsVars
  <2> QED  BY <2>1
<1>1. CASE remote_server_create
  BY <1>1 DEF remote_server_create, Standard
<1>2. CASE DeviceType
  <2>1. ~service'.inside
    BY <1>2 DEF DeviceType, Typed, TypeOK
  <2>2. rpc = "description" /\ UNCHANGED <<proper, rpc>>
    BY <1>2 DEF DeviceType
  <2> QED  BY <2>1, <2>2 DEF Standard
<1>3. CASE UDN
  <2>1. UNCHANGED <<proper, rpc, server>> /\ rpc = "description" /\ server # NULL
    BY <1>3 DEF UDN
  <2> QED  BY <2>1 DEF Standard
<1>4. CASE Service
  <2>1. UNCHANGED <<proper, rpc, server>> /\ rpc = "description" /\ server # NULL
    BY <1>4 DEF Service
  <2> QED  BY <2>1 DEF Standard
<1>5. CASE ServiceType
  <2>1. UNCHANGED <<proper, rpc, server>> /\ rpc = "description" /\ service.inside
    BY <1>5 DEF ServiceType
  <2> QED  BY <2>1 DEF Standard
<1>6. CASE Url
  <2>1. rpc = "description" /\ server # NULL
    BY <1>6 DEF Url, Standard
  <2>2. PICK k \in Kinds, u \in Urls : server' = PutUrl(server, k, u) /\ UNCHANGED <<proper, rpc>>
    BY <1>6, <2>1 DEF Url
  <2>3. server' # NULL
    BY <2>1, <2>2, PutUrlType, NullIsNoServer DEF Typed, TypeOK
  <2> QED  BY <2>1, <2>2, <2>3 DEF Standard
<1>7. CASE EndDescription
  <2>1. /\ server # NULL /\ rpc' = "idle" /\ UNCHANGED <<proper, server>>
        /\ announced["APP"]["curl"] # <<>> /\ announced["CLP"]["curl"] # <<>>
    BY <1>7 DEF EndDescription
  <2>2. Controlled(server')
    BY <2>1 DEF UrlsAnnounced, Controlled
  <2> QED  BY <2>1, <2>2 DEF Standard
<1>8. CASE \/ remote_server_get_application_list \/ remote_server_launch_application
           \/ remote_server_set_client_profile
  BY <1>8, CallsKeepServer, StandardCalls
<1>9. CASE App
  <2>1. server \in Server /\ rpc = "listing" /\ server # NULL
    BY <1>9 DEF App, Typed, TypeOK
  <2>2. PICK a \in Apps : server' = [server EXCEPT !.appList = <<a>> \o @]
    BY <1>9 DEF App
  <2>3. server'.url = server.url /\ UNCHANGED <<proper, rpc>>
    BY <1>9, <2>1, <2>2, ListFields DEF App
  <2>4. Controlled(server')
    BY <2>1, <2>3 DEF Standard, Controlled
  <2> QED  BY <2>1, <2>3, <2>4 DEF Standard
<1>10. CASE EndListing
  BY <1>10 DEF EndListing, Standard
<1>11. CASE remote_server_destory
  BY <1>11 DEF remote_server_destory, Standard
<1>12. CASE UNCHANGED rsVars
  BY <1>12 DEF rsVars, Standard
<1> QED
  BY <1>1, <1>2, <1>3, <1>4, <1>5, <1>6, <1>7, <1>8, <1>9, <1>10, <1>11, <1>12 DEF Next

(* A device that sends whole documents of the standard form stops the      *)
(* program by a 200 without a body only: in any order of the calls, and    *)
(* with any other failure on the way, no null pointer is used.             *)
THEOREM RemoteCrashesOnlyOnEmptyReply == Spec => []CrashesOnlyOnEmptyReply
<1>1. Init => Standard
  BY DEF Init, Standard
<1>2. (Typed /\ Named /\ UrlsAnnounced) /\ Standard /\ [Next]_rsVars => Standard'
  BY StandardStep
<1>3. Standard => CrashesOnlyOnEmptyReply
  BY DEF Standard, CrashesOnlyOnEmptyReply
<1> QED  BY <1>1, <1>2, <1>3, NamedAlways, PTL DEF Spec
=============================================================================
