------------------------------ MODULE SsdpTool ------------------------------
(***************************************************************************)
(* SSDP/ssdp.c, the command line search for MirrorLink servers: three      *)
(* M-SEARCH requests from one socket on usb0, then five receives with a    *)
(* timeout of a second, each of which may print what an answer of the      *)
(* application server says.                                                *)
(*                                                                         *)
(* A datagram is the sequence of its lines, and a line what handle_ssdp    *)
(* tells apart: the key "ST: " or "Location: " and the word that follows,  *)
(* or no word if the key does not begin the line ("HOST: " has "ST: ").    *)
(***************************************************************************)
EXTENDS Integers, Sequences, FiniteSets

CONSTANTS
  TAS,        \* TM_TAS, the search target of the application server
  Words,      \* words of ST and Location lines, TAS among them
  None,       \* the empty string
  MaxLines,   \* bound: lines of a datagram
  MaxReplies  \* bound: datagrams that arrive

ASSUME SsdpAssumption ==
  /\ TAS \in Words /\ None \notin Words /\ MaxLines \in Nat /\ MaxReplies \in Nat

Lines     == [key : {"ST", "Location"}, word : Words \cup {None}]
Datagrams == UNION {[1..n -> Lines] : n \in 0..MaxLines}

VARIABLES
  pc,       \* where main is
  wait,     \* receives left
  sends,    \* requests left to send
  bound,    \* the socket has a port: a request has gone out
  inq,      \* datagrams queued on it
  replies,  \* counted against MaxReplies
  printed,  \* what was printed: <<location, st>>
  read      \* history: the datagrams taken

vars == <<pc, wait, sends, bound, inq, replies, printed, read>>

Init ==
  /\ pc = "socket" /\ wait = 5 /\ sends = 3 /\ bound = FALSE /\ inq = << >>
  /\ replies = 0 /\ printed = << >> /\ read = << >>

(* The network: answers, advertisements and anything else sent to the      *)
(* port, once or repeatedly.                                               *)
Arrive ==
  /\ bound /\ pc # "done" /\ replies < MaxReplies /\ replies' = replies + 1
  /\ \E d \in Datagrams : inq' = Append(inq, d)
  /\ UNCHANGED <<pc, wait, sends, bound, printed, read>>

-----------------------------------------------------------------------------
Fresh == [st |-> None, location |-> None, found |-> FALSE]

(* One line.  strstr finds the key anywhere, sscanf only at the start:     *)
(* with the key further on the old word stays and is compared again.       *)
HandleLine(s, l) ==
  LET st == IF l.word # None THEN l.word ELSE s.st IN
  IF l.key = "ST"
  THEN [s EXCEPT !.st = st, !.found = @ \/ st = TAS]
  ELSE IF l.word # None THEN [s EXCEPT !.location = l.word] ELSE s

(* The loop over the lines: what the locals hold after the last.          *)
Handled(d) ==
  LET s[i \in 0..Len(d)] == IF i = 0 THEN Fresh ELSE HandleLine(s[i - 1], d[i])
  IN  s[Len(d)]

(* Mutant: the target is tested after the last line only. *)
handle_ssdp_Last(d) ==
  printed' = IF Handled(d).st = TAS THEN Append(printed, <<Handled(d).location, Handled(d).st>>)
                                    ELSE printed

handle_ssdp(d) ==
  printed' = IF Handled(d).found THEN Append(printed, <<Handled(d).location, Handled(d).st>>)
                                 ELSE printed

(* socket and three options; each may fail and end the process.            *)
Setup ==
  /\ pc = "socket" /\ pc' \in {"send", "done"}
  /\ UNCHANGED <<wait, sends, bound, inq, replies, printed, read>>

(* A request that cannot be sent is only reported.                         *)
send_ssdp ==
  /\ pc = "send" /\ sends > 0 /\ sends' = sends - 1
  /\ bound' \in {bound, TRUE}
  /\ pc' = IF sends = 1 THEN "receive" ELSE "send"
  /\ UNCHANGED <<wait, inq, replies, printed, read>>

Receive ==
  /\ pc = "receive" /\ wait > 0 /\ wait' = wait - 1
  /\ inq # << >> /\ inq' = Tail(inq) /\ read' = Append(read, Head(inq))
  /\ \/ Head(inq) # << >> /\ handle_ssdp(Head(inq))
     \/ Head(inq) = << >> /\ UNCHANGED printed
  /\ UNCHANGED <<pc, sends, bound, replies>>

(* The timeout uses up one of the receives.                                *)
ReceiveTimeout ==
  /\ pc = "receive" /\ wait > 0 /\ wait' = wait - 1 /\ inq = << >>
  /\ UNCHANGED <<pc, sends, bound, inq, replies, printed, read>>

Done ==
  /\ pc = "receive" /\ wait = 0 /\ pc' = "done"
  /\ UNCHANGED <<wait, sends, bound, inq, replies, printed, read>>

Main == Setup \/ send_ssdp \/ Receive \/ ReceiveTimeout \/ Done

Next == Main \/ Arrive

Spec == Init /\ [][Next]_vars

-----------------------------------------------------------------------------
(* What a datagram says: a word of the last line that begins with the key. *)
Said(d, key) ==
  LET at == {i \in 1..Len(d) : d[i].key = key /\ d[i].word # None} IN
  IF at = {} THEN None ELSE d[CHOOSE i \in at : \A j \in at : j <= i].word

Names(d) == \E i \in 1..Len(d) : d[i].key = "ST" /\ d[i].word = TAS

(* The datagrams taken that name the application server in an ST line.    *)
Named == {k \in 1..Len(read) : Names(read[k])}

(* The tool prints one report for each datagram it takes that names the    *)
(* application server in some ST line, in the order they came, with the    *)
(* words of that datagram alone: nothing is carried over from an earlier   *)
(* one, and lines like "HOST: " neither add nor hide an answer.            *)
ReportsMatch ==
  /\ Len(printed) = Cardinality(Named)
  /\ \A k \in Named :
       printed[Cardinality(Named \cap (1..k))] = <<Said(read[k], "Location"), Said(read[k], "ST")>>
=============================================================================
