---------------------------- MODULE HttpExchange ----------------------------
(***************************************************************************)
(* What http_client_send promises to remote_server.c, over any connection: *)
(* it says nothing, a status, or a status with a body; and a body is never *)
(* shorter than the server announced.  A reply is described by its status  *)
(* code, the length it announces and the length of its text, in units of   *)
(* ten characters; a number that was cut after its first digit reads as    *)
(* the number divided by ten, or by a hundred.                             *)
(***************************************************************************)
EXTENDS Integers

CONSTANTS
  Replies,    \* what a server may say: [code, announced, text]
  NoLength    \* value of "announced" in a reply without a Content-Length

VARIABLES
  busy,       \* a request is being served
  reply,      \* what the server says to it
  answer      \* what the caller was given: [code, body], body as a length

(* No response: errcode 0, the caller gets a null pointer.                 *)
Nothing == [code |-> 0, body |-> 0]

(* The answers the reply d may end in.  A connection that breaks anywhere  *)
(* costs the body, and may cut the status; only a whole text is a body.    *)
Answers(d) ==
  {Nothing}
  \cup {[code |-> c, body |-> 0] : c \in {d.code \div 100, d.code}}
  \cup {[code |-> d.code, body |-> k] :
          k \in IF d.announced = NoLength THEN {} ELSE d.announced..d.text}

Init == busy = FALSE /\ reply \in Replies /\ answer = Nothing

Ask == ~busy /\ busy' = TRUE /\ reply' \in Replies /\ answer' = Nothing

Return == busy /\ busy' = FALSE /\ answer' \in Answers(reply) /\ UNCHANGED reply

(* http_client_free_rsp *)
Free == ~busy /\ answer' = Nothing /\ UNCHANGED <<busy, reply>>

Next == Ask \/ Return \/ Free

Spec == Init /\ [][Next]_<<busy, reply, answer>>
=============================================================================
