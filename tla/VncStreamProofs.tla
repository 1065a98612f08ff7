-------------------------- MODULE VncStreamProofs ---------------------------
(***************************************************************************)
(* Proofs about VncSession with a server that keeps to the encodings the   *)
(* client declared (Strict) and reads that complete (~ShortReads), for all *)
(* sizes, payloads and bounds: as long as the server sends no run-length   *)
(* rectangle lower than its screen (lowRle), the client and the server     *)
(* agree on where one field of the stream ends and the next begins.        *)
(*                                                                         *)
(* The argument: the place in the code at which the client stands after a  *)
(* field is a function, After, of the place before it and of the field's   *)
(* value.  So the fields on the way lead the client from where it stands   *)
(* to a place that only the server's state determines, Expected: each      *)
(* read takes the first field of that path, each message adds to its end.  *)
(* From it follow that the two sides agree on the desktop's size, that the *)
(* client's ByeBye answers the server's, and that exactly one update or    *)
(* request for one is in flight once the session is configured.            *)
(***************************************************************************)
EXTENDS VncProofs, FiniteSetTheorems, FunctionTheorems

(* The places at which the client asks for a payload of a length it has    *)
(* been told; one of no bytes is not in the stream.                        *)
Payloads == {"reason", "name", "skip", "extbody", "payload", "runs"}

(* A place of the parsers, with the variables that its next step uses.     *)
Place(p, n, s, k, r, e) ==
  [pc |-> p, need |-> n, size |-> s, num |-> k, rows |-> r, etype |-> e]

At(p, s)       == Place(p, 0, s, 0, 0, 0)
Body(p, n, s)  == Place(p, n, s, 0, 0, 0)
Ended          == At("ended", <<0, 0>>)
AtRect(s, k)   == IF k > 0 THEN Place("rect", 0, s, k, 0, 0) ELSE At("type", s)
AtRow(s, k, r) == IF r > 0 THEN Place("row", 0, s, k, r, 0) ELSE AtRect(s, k - 1)

(* Where the client stands. *)
Now ==
  Place(pc, IF pc \in Payloads \cup {"sectypes"} THEN need ELSE 0, size,
        IF Updating THEN num ELSE 0, IF pc \in {"row", "runs"} THEN rows ELSE 0,
        IF pc = "extbody" THEN etype ELSE 0)

(* What follows a payload.                                                 *)
Past(a) ==
  CASE a.pc \in {"name", "skip"} -> At("type", a.size)
    [] a.pc = "extbody" -> IF a.etype = 0 THEN Ended ELSE At("type", a.size)
    [] a.pc = "payload" -> AtRect(a.size, a.num - 1)
    [] a.pc = "runs"    -> AtRow(a.size, a.num, a.rows - 1)
    [] OTHER            -> Ended

Settle(a) == IF a.pc \in Payloads /\ a.need = 0 THEN Past(a) ELSE a

AfterRect(a, q) ==
  CASE q.e = "raw" ->
         IF q.w # 0 /\ q.h # 0 /\ q.x + q.w <= a.size[1] /\ q.y + q.h <= a.size[2]
         THEN Settle(Place("payload", q.w * q.h * 2, a.size, a.num, 0, 0))
         ELSE AtRect(a.size, a.num - 1)
    [] q.e = "context"     -> Place("payload", 20, a.size, a.num, 0, 0)
    [] q.e = "desktopsize" -> AtRect(<<q.w, q.h>>, a.num - 1)
    [] q.e = "rle"         -> AtRow(a.size, a.num, a.size[2])
    [] OTHER               -> AtRect(a.size, a.num - 1)

(* The place after a field of value v, in a session of minor version ver.  *)
After(ver, a, v) ==
  CASE a.pc = "version"  -> IF v = 0 THEN Ended ELSE At("secnum", a.size)
    [] a.pc = "secnum"   -> IF v = 0 THEN At("length", a.size) ELSE Body("sectypes", v, a.size)
    [] a.pc = "length"   -> Settle(Body("reason", HostOrder(v), a.size))
    [] a.pc = "sectypes" -> IF v = 0 THEN Ended ELSE At(IF ver = 8 THEN "result" ELSE "init", a.size)
    [] a.pc = "result"   -> IF HostOrder(v) = 0 THEN At("init", a.size)
                            ELSE IF HostOrder(v) = 1 THEN At("length", a.size) ELSE Ended
    [] a.pc = "init"     -> Settle(Body("name", v.name, <<v.w, v.h>>))
    [] a.pc = "type"     -> At(CASE v = 0 -> "fb" [] v = 1 -> "cmap" [] v = 3 -> "cut"
                                 [] v = 128 -> "ext" [] OTHER -> "type", a.size)
    [] a.pc = "cmap"     -> Settle(Body("skip", 6 * v, a.size))
    [] a.pc = "cut"      -> Settle(Body("skip", v, a.size))
    [] a.pc = "ext"      -> Settle(Place("extbody", v.len, a.size, 0, 0, v.etype))
    [] a.pc = "fb"       -> AtRect(a.size, v)
    [] a.pc = "rect"     -> AfterRect(a, v)
    [] a.pc = "row"      -> Settle(Place("runs", 3 * v, a.size, a.num, a.rows, 0))
    [] OTHER             -> Past(a)

(* The field the client asks for; of the reason of a refusal it takes what *)
(* comes, and after the end nothing is read.                               *)
Kind(a) == IF a.pc \in Payloads THEN "data" ELSE a.pc

Width(a) ==
  CASE a.pc \in {"version", "rect"}      -> 12
    [] a.pc \in {"secnum", "type"}       -> 1
    [] a.pc \in {"length", "result"}     -> 4
    [] a.pc = "init"                     -> 24
    [] a.pc = "cmap"                     -> 6
    [] a.pc = "cut"                      -> 7
    [] a.pc \in {"ext", "fb"}            -> 3
    [] a.pc = "row"                      -> 2
    [] OTHER                             -> a.need

Fits(a, f) == a.pc \in {"ended", "reason"} \/ (f.f = Kind(a) /\ f.n = Width(a))

(* The fields fs lead from the place a to the place b.                     *)
Leads(ver, a, fs, b) ==
  \E st : /\ st[1] = a /\ st[Len(fs) + 1] = b
          /\ \A i \in 1..Len(fs) : Fits(st[i], fs[i]) /\ st[i + 1] = After(ver, st[i], fs[i].v)

-----------------------------------------------------------------------------
(* Paths.                                                                  *)

LEMMA LeadsNowhere == \A ver, a : Leads(ver, a, << >>, a)
<1> SUFFICES ASSUME NEW ver, NEW a PROVE Leads(ver, a, << >>, a)
  OBVIOUS
<1> DEFINE st == [i \in {1} |-> a]
<1>1. st[1] = a /\ Len(<< >>) + 1 = 1
  OBVIOUS
<1>2. \A i \in 1..Len(<< >>) : FALSE
  OBVIOUS
<1> HIDE DEF st
<1>3. st[Len(<< >>) + 1] = a
  BY <1>1
<1> QED  BY <1>1, <1>2, <1>3 DEF Leads

LEMMA LeadsStill ==
  ASSUME NEW ver, NEW a, NEW b, Leads(ver, a, << >>, b)
  PROVE  a = b
<1>1. Len(<< >>) + 1 = 1
  OBVIOUS
<1>2. PICK st : st[1] = a /\ st[Len(<< >>) + 1] = b
  BY DEF Leads
<1> QED  BY <1>1, <1>2

LEMMA LeadsField ==
  ASSUME NEW ver, NEW a, NEW f, Fits(a, f)
  PROVE  Leads(ver, a, << f >>, After(ver, a, f.v))
<1> DEFINE b  == After(ver, a, f.v)
           st == [i \in 1..2 |-> IF i = 1 THEN a ELSE b]
<1>1. st[1] = a /\ st[2] = b
  OBVIOUS
<1>2. Len(<< f >>) = 1 /\ << f >>[1] = f
  OBVIOUS
<1> HIDE DEF st
<1>3. \A i \in 1..1 : Fits(st[i], << f >>[i]) /\ st[i + 1] = After(ver, st[i], << f >>[i].v)
  BY <1>1, <1>2
<1> QED  BY <1>1, <1>2, <1>3 DEF Leads

LEMMA LeadsOn ==
  ASSUME NEW S, NEW ver, NEW a, NEW b, NEW c, NEW s \in Seq(S), NEW t \in Seq(S),
         Leads(ver, a, s, b), Leads(ver, b, t, c)
  PROVE  Leads(ver, a, s \o t, c)
<1>1. PICK st : /\ st[1] = a /\ st[Len(s) + 1] = b
                /\ \A i \in 1..Len(s) : Fits(st[i], s[i]) /\ st[i + 1] = After(ver, st[i], s[i].v)
  BY DEF Leads
<1>2. PICK gt : /\ gt[1] = b /\ gt[Len(t) + 1] = c
                /\ \A i \in 1..Len(t) : Fits(gt[i], t[i]) /\ gt[i + 1] = After(ver, gt[i], t[i].v)
  BY DEF Leads
<1> DEFINE m  == Len(s)
           n  == Len(t)
           ut == [i \in 1..m + n + 1 |-> IF i <= m + 1 THEN st[i] ELSE gt[i - m]]
           u  == s \o t
<1>3. /\ m \in Nat /\ n \in Nat /\ u \in Seq(S) /\ Len(u) = m + n
      /\ \A i \in 1..m + n : u[i] = IF i <= m THEN s[i] ELSE t[i - m]
  BY ConcatProperties
<1>4. /\ \A i \in 1..m + 1 : ut[i] = st[i]
      /\ \A i \in m + 1..m + n + 1 : ut[i] = gt[i - m]
  BY <1>1, <1>2, <1>3
<1> HIDE DEF ut, u, m, n
<1>5. ut[1] = a /\ ut[m + n + 1] = c
  <2>1. 1 \in 1..m + 1 /\ m + n + 1 \in m + 1..m + n + 1 /\ (m + n + 1) - m = n + 1
    BY <1>3
  <2>2. ut[1] = st[1]
    BY <1>4, <2>1
  <2>3. ut[m + n + 1] = gt[(m + n + 1) - m]
    BY <1>4, <2>1
  <2>4. ut[m + n + 1] = gt[n + 1]
    BY <2>1, <2>3
  <2> QED  BY <1>1, <1>2, <2>2, <2>4 DEF n
<1>6. ASSUME NEW i \in 1..m + n
      PROVE  Fits(ut[i], u[i]) /\ ut[i + 1] = After(ver, ut[i], u[i].v)
  <2>1. CASE i <= m
    <3>1. i \in 1..m /\ i \in 1..m + 1 /\ i + 1 \in 1..m + 1
      BY <1>3, <2>1
    <3>2. u[i] = s[i] /\ ut[i] = st[i] /\ ut[i + 1] = st[i + 1]
      BY <1>3, <1>4, <2>1, <3>1
    <3> QED  BY <1>1, <3>1, <3>2 DEF m
  <2>2. CASE i > m
    <3>1. /\ i - m \in 1..n /\ i \in m + 1..m + n + 1 /\ i + 1 \in m + 1..m + n + 1
          /\ (i + 1) - m = (i - m) + 1 /\ ~(i <= m)
      BY <1>3, <2>2
    <3>2. u[i] = t[i - m] /\ ut[i] = gt[i - m] /\ ut[i + 1] = gt[(i - m) + 1]
      BY <1>3, <1>4, <3>1
    <3> QED  BY <1>2, <3>1, <3>2 DEF n
  <2> QED  BY <1>3, <2>1, <2>2
<1> QED  BY ZenonT(40), <1>3, <1>5, <1>6 DEF Leads, u

LEMMA LeadsHead ==
  ASSUME NEW S, NEW ver, NEW a, NEW b, NEW s \in Seq(S), s # << >>, Leads(ver, a, s, b)
  PROVE  Fits(a, s[1]) /\ Leads(ver, After(ver, a, s[1].v), Tail(s), b)
<1>1. PICK st : /\ st[1] = a /\ st[Len(s) + 1] = b
                /\ \A i \in 1..Len(s) : Fits(st[i], s[i]) /\ st[i + 1] = After(ver, st[i], s[i].v)
  BY DEF Leads
<1> DEFINE n  == Len(s) - 1
           gt == [i \in 1..n + 1 |-> st[i + 1]]
           t  == Tail(s)
<1>2. /\ Len(s) \in Nat /\ Len(s) >= 1 /\ n \in Nat /\ Len(t) = n
      /\ \A i \in 1..n : t[i] = s[i + 1]
  OBVIOUS
<1>3. \A i \in 1..n + 1 : gt[i] = st[i + 1]
  OBVIOUS
<1> HIDE DEF gt, t, n
<1>4. 1 \in 1..Len(s) /\ 1 \in 1..n + 1 /\ n + 1 \in 1..n + 1 /\ (n + 1) + 1 = Len(s) + 1
  BY <1>2 DEF n
<1>5. Fits(a, s[1]) /\ gt[1] = After(ver, a, s[1].v) /\ gt[n + 1] = b
  BY <1>1, <1>3, <1>4
<1>6. ASSUME NEW i \in 1..n
      PROVE  Fits(gt[i], t[i]) /\ gt[i + 1] = After(ver, gt[i], t[i].v)
  <2>1. i + 1 \in 1..Len(s) /\ i \in 1..n + 1 /\ i + 1 \in 1..n + 1
    BY <1>2 DEF n
  <2>2. gt[i] = st[i + 1] /\ gt[i + 1] = st[(i + 1) + 1] /\ t[i] = s[i + 1]
    BY <1>2, <1>3, <2>1
  <2> QED  BY <1>1, <2>1, <2>2
<1> QED  BY <1>2, <1>5, <1>6 DEF Leads, t

LEMMA LeadsPart ==
  ASSUME NEW S, NEW ver, NEW a, NEW b, NEW s \in Seq(S), NEW k \in 0..Len(s),
         Leads(ver, a, s, b)
  PROVE  \E c : Leads(ver, a, SubSeq(s, 1, k), c)
<1>1. PICK st : /\ st[1] = a /\ st[Len(s) + 1] = b
                /\ \A i \in 1..Len(s) : Fits(st[i], s[i]) /\ st[i + 1] = After(ver, st[i], s[i].v)
  BY DEF Leads
<1> DEFINE t == SubSeq(s, 1, k)
<1>2. Len(t) = k /\ \A i \in 1..k : t[i] = s[i] /\ i \in 1..Len(s)
  OBVIOUS
<1> HIDE DEF t
<1>3. /\ st[1] = a /\ st[Len(t) + 1] = st[k + 1]
      /\ \A i \in 1..Len(t) : Fits(st[i], t[i]) /\ st[i + 1] = After(ver, st[i], t[i].v)
  BY <1>1, <1>2
<1>4. Leads(ver, a, t, st[k + 1])
  BY <1>3 DEF Leads
<1> QED  BY <1>4 DEF t

(* After the end the client is past all fields.                            *)
LEMMA LeadsEnded ==
  ASSUME NEW S, NEW ver, NEW fs \in Seq(S)
  PROVE  Leads(ver, Ended, fs, Ended)
<1> DEFINE st == [i \in 1..Len(fs) + 1 |-> Ended]
<1>1. Len(fs) \in Nat
  OBVIOUS
<1>2. \A i \in 1..Len(fs) + 1 : st[i] = Ended
  OBVIOUS
<1>3. \A f, v : Fits(Ended, f) /\ After(ver, Ended, v) = Ended
  BY DEF Fits, After, Past, Ended, At, Place
<1> HIDE DEF st
<1>4. \A i \in 1..Len(fs) : Fits(st[i], fs[i]) /\ st[i + 1] = After(ver, st[i], fs[i].v)
  BY <1>1, <1>2, <1>3
<1> QED  BY <1>1, <1>2, <1>4 DEF Leads

-----------------------------------------------------------------------------
(* Each action of the client is one step along the path.                   *)

LEMMA PlaceFields ==
  \A p, n, s, k, r, e :
    LET a == Place(p, n, s, k, r, e)
    IN  a.pc = p /\ a.need = n /\ a.size = s /\ a.num = k /\ a.rows = r /\ a.etype = e
BY DEF Place

LEMMA Asked ==
  /\ Now.pc = pc /\ Now.size = size
  /\ pc \in Payloads => Kind(Now) = "data" /\ Width(Now) = need /\ Now.need = need
  /\ pc = "sectypes" => Kind(Now) = "sectypes" /\ Width(Now) = need
  /\ pc = "version" => Kind(Now) = "version" /\ Width(Now) = 12
  /\ pc = "secnum" => Kind(Now) = "secnum" /\ Width(Now) = 1
  /\ pc = "length" => Kind(Now) = "length" /\ Width(Now) = 4
  /\ pc = "result" => Kind(Now) = "result" /\ Width(Now) = 4
  /\ pc = "init" => Kind(Now) = "init" /\ Width(Now) = 24
  /\ pc = "type" => Kind(Now) = "type" /\ Width(Now) = 1
  /\ pc = "cmap" => Kind(Now) = "cmap" /\ Width(Now) = 6
  /\ pc = "cut" => Kind(Now) = "cut" /\ Width(Now) = 7
  /\ pc = "ext" => Kind(Now) = "ext" /\ Width(Now) = 3
  /\ pc = "fb" => Kind(Now) = "fb" /\ Width(Now) = 3
  /\ pc = "rect" => Kind(Now) = "rect" /\ Width(Now) = 12
  /\ pc = "row" => Kind(Now) = "row" /\ Width(Now) = 2
BY DEF Now, Place, Kind, Width, Payloads

LEMMA Resting ==
  /\ \A s : Settle(At("secnum", s)) = At("secnum", s)
  /\ \A a : a.pc \notin Payloads => Settle(a) = a
BY DEF Settle, At, Place, Payloads

LEMMA NextRectPlace ==
  ASSUME NEW n \in Int, NEW s, NEW u, NEW i, NextRect(n, s, u, i)
  PROVE  Now' = AtRect(s, n) /\ Settle(Now') = Now' /\ pc' \in {"rect", "type"}
<1>1. CASE n > 0
  <2>1. pc' = "rect" /\ need' = 12 /\ num' = n /\ size' = s
    BY <1>1 DEF NextRect
  <2>2. Now' = Place("rect", 0, s, n, 0, 0)
    BY <2>1 DEF Now, Payloads, Updating
  <2> QED  BY <1>1, <2>1, <2>2, Resting DEF AtRect, Payloads, Place
<1>2. CASE ~(n > 0)
  <2>1. pc' = "type" /\ need' = 1 /\ size' = s
    BY <1>2 DEF NextRect, NextMessage
  <2>2. Now' = At("type", s)
    BY <2>1 DEF Now, Payloads, Updating, At
  <2> QED  BY <1>2, <2>1, <2>2, Resting DEF AtRect, Payloads, Place, At
<1> QED  BY <1>1, <1>2

(* What a step of the client does to its place.                            *)
Moved(v) ==
  /\ Read(Kind(Now), Width(Now), v)
  /\ Settle(Now') = After(version, Now, v)
  /\ pc \notin {"ended", "reason", "crashed"}
  /\ pc = "version" \/ version' = version

LEMMA HandshakeParses ==
  ASSUME ClientInv, pc' \notin {"ended", "crashed"},
         \/ ReadVersion \/ ReadSecNum \/ ReadReasonLength \/ ReadReason \/ ReadSecTypes
         \/ ReadSecResult \/ ReadInit \/ ReadName
  PROVE  \E v : Moved(v)
<1> USE DEF Handshake, config, parse
<1>1. CASE ReadVersion
  <2>1. PICK v \in Seen("version") :
          /\ Read("version", 12, v) /\ v # 0 /\ pc' = "secnum" /\ need' = 1
    BY <1>1 DEF ReadVersion, End
  <2>2. pc = "version" /\ size' = size
    BY <1>1 DEF ReadVersion
  <2>3. Now' = At("secnum", size)
    BY <2>1, <2>2 DEF Now, Updating, Payloads, At
  <2>4. After(version, Now, v) = At("secnum", size)
    BY <2>1, <2>2, Asked DEF After
  <2>5. Moved(v)
    BY <2>1, <2>2, <2>3, <2>4, Asked, Resting DEF Moved
  <2> QED  BY <2>5
<1>2. CASE ReadSecNum
  <2>1. PICK v \in Seen("secnum") :
          /\ Read("secnum", 1, v)
          /\ IF v = 0 THEN pc' = "length" /\ need' = 4 ELSE pc' = "sectypes" /\ need' = v
    BY <1>2 DEF ReadSecNum
  <2>2. pc = "secnum" /\ size' = size /\ version' = version
    BY <1>2 DEF ReadSecNum
  <2>3. Now' = IF v = 0 THEN At("length", size) ELSE Body("sectypes", v, size)
    BY <2>1, <2>2 DEF Now, Updating, Payloads, At, Body
  <2>4. After(version, Now, v) = Now'
    BY <2>2, <2>3, Asked DEF After
  <2>5. Settle(Now') = Now'
    BY <2>3, Resting DEF At, Body, Place, Payloads
  <2>6. Moved(v)
    BY <2>1, <2>2, <2>4, <2>5, Asked DEF Moved
  <2> QED  BY <2>6
<1>3. CASE ReadReasonLength
  <2>1. PICK v \in Seen("length") :
          Read("length", 4, v) /\ pc' = "reason" /\ need' = HostOrder(v)
    BY <1>3 DEF ReadReasonLength
  <2>2. pc = "length" /\ size' = size /\ version' = version
    BY <1>3 DEF ReadReasonLength
  <2>3. Now' = Body("reason", HostOrder(v), size)
    BY <2>1, <2>2 DEF Now, Updating, Payloads, Body
  <2>4. After(version, Now, v) = Settle(Now')
    BY <2>2, <2>3, Asked DEF After
  <2>6. Moved(v)
    BY <2>1, <2>2, <2>4, Asked DEF Moved
  <2> QED  BY <2>6
<1>4. CASE ReadReason
  BY <1>4 DEF ReadReason, End
<1>5. CASE ReadSecTypes
  <2>1. PICK v \in Seen("sectypes") :
          /\ Read("sectypes", need, v) /\ v = 1
          /\ \/ version = 8 /\ pc' = "result"
             \/ version # 8 /\ pc' = "init"
    BY <1>5 DEF ReadSecTypes, End, AwaitInit
  <2>2. pc = "sectypes" /\ size' = size /\ version' = version
    BY <1>5 DEF ReadSecTypes
  <2>3. Now' = At(IF version = 8 THEN "result" ELSE "init", size)
    BY <2>1, <2>2 DEF Now, Updating, Payloads, At
  <2>4. After(version, Now, v) = Now'
    BY <2>1, <2>2, <2>3, Asked DEF After
  <2>5. Settle(Now') = Now'
    BY <2>3, Resting DEF At, Place, Payloads
  <2>6. Moved(v)
    BY <2>1, <2>2, <2>4, <2>5, Asked DEF Moved
  <2> QED  BY <2>6
<1>6. CASE ReadSecResult
  <2>1. PICK v \in Seen("result") :
          /\ Read("result", 4, v)
          /\ \/ HostOrder(v) = 0 /\ pc' = "init"
             \/ HostOrder(v) = 1 /\ pc' = "length"
    BY <1>6 DEF ReadSecResult, End, AwaitInit
  <2>2. pc = "result" /\ size' = size /\ version' = version
    BY <1>6 DEF ReadSecResult
  <2>3. Now' = IF HostOrder(v) = 0 THEN At("init", size) ELSE At("length", size)
    BY <2>1, <2>2 DEF Now, Updating, Payloads, At
  <2>4. After(version, Now, v) = Now'
    BY <2>1, <2>2, <2>3, Asked DEF After
  <2>5. Settle(Now') = Now'
    BY <2>3, Resting DEF At, Place, Payloads
  <2>6. Moved(v)
    BY <2>1, <2>2, <2>4, <2>5, Asked DEF Moved
  <2> QED  BY <2>6
<1>7. CASE ReadInit
  <2>1. PICK v \in Seen("init") :
          Read("init", 24, v) /\ size' = <<v.w, v.h>> /\ pc' = "name" /\ need' = v.name
    BY <1>7 DEF ReadInit
  <2>2. pc = "init" /\ version' = version
    BY <1>7 DEF ReadInit
  <2>3. Now' = Body("name", v.name, <<v.w, v.h>>)
    BY <2>1 DEF Now, Updating, Payloads, Body
  <2>4. After(version, Now, v) = Settle(Now')
    BY <2>2, <2>3, Asked DEF After
  <2>6. Moved(v)
    BY <2>1, <2>2, <2>4, Asked DEF Moved
  <2> QED  BY <2>6
<1>8. CASE ReadName
  <2>1. Read("data", need, 0) /\ pc' = "type" /\ pc = "name" /\ size' = size /\ version' = version
    BY <1>8 DEF ReadName, NextMessage
  <2>3. Now' = At("type", size)
    BY <2>1 DEF Now, Updating, Payloads, At
  <2>4. After(version, Now, 0) = Now'
    BY <2>1, <2>3, Asked DEF After, Past
  <2>5. Settle(Now') = Now'
    BY <2>3, Resting DEF At, Place, Payloads
  <2>6. Moved(0)
    BY <2>1, <2>4, <2>5, Asked DEF Moved, Payloads
  <2> QED  BY <2>6
<1> QED
  BY <1>1, <1>2, <1>3, <1>4, <1>5, <1>6, <1>7, <1>8

LEMMA MessageParses ==
  ASSUME ClientInv, pc' \notin {"ended", "crashed"},
         \/ ReadType \/ ReadColourMap \/ ReadCutText \/ ReadSkipped \/ ReadExtHeader \/ ReadExtBody
  PROVE  \E v : Moved(v)
<1> USE DEF Handshake, config, parse, Kept
<1>1. CASE ReadType
  <2>1. PICK v \in Seen("type") :
          /\ Read("type", 1, v)
          /\ pc' = CASE v = 0 -> "fb" [] v = 1 -> "cmap" [] v = 3 -> "cut"
                     [] v = 128 -> "ext" [] OTHER -> "type"
    <3>1. PICK v \in Seen("type") :
            /\ Read("type", 1, v)
            /\ \/ v = 0 /\ pc' = "fb" /\ need' = 3
               \/ v = 1 /\ pc' = "cmap" /\ need' = 6
               \/ v = 3 /\ pc' = "cut" /\ need' = 7
               \/ v = 128 /\ pc' = "ext" /\ need' = 3
               \/ v \notin {0, 1, 3, 128} /\ pc' = "type"
      BY <1>1 DEF ReadType, NextMessage
    <3> QED  BY <3>1
  <2>2. pc = "type" /\ size' = size /\ version' = version
    BY <1>1 DEF ReadType
  <2>3. pc' \in {"fb", "cmap", "cut", "ext", "type"}
    BY <2>1
  <2>4. Now' = At(pc', size)
    BY <2>2, <2>3 DEF Now, Updating, Payloads, At
  <2>5. After(version, Now, v) = Now'
    BY <2>1, <2>2, <2>4, Asked DEF After
  <2>6. Settle(Now') = Now'
    BY <2>3, <2>4, Resting DEF At, Place, Payloads
  <2>7. Moved(v)
    BY <2>1, <2>2, <2>5, <2>6, Asked DEF Moved
  <2> QED  BY <2>7
<1>2. CASE ReadColourMap
  <2>1. PICK v \in Seen("cmap") : Read("cmap", 6, v) /\ pc' = "skip" /\ need' = 6 * v
    BY <1>2 DEF ReadColourMap
  <2>2. pc = "cmap" /\ size' = size /\ version' = version
    BY <1>2 DEF ReadColourMap
  <2>3. Now' = Body("skip", 6 * v, size)
    BY <2>1, <2>2 DEF Now, Updating, Payloads, Body
  <2>4. After(version, Now, v) = Settle(Now')
    BY <2>2, <2>3, Asked DEF After
  <2>5. Moved(v)
    BY <2>1, <2>2, <2>4, Asked DEF Moved
  <2> QED  BY <2>5
<1>3. CASE ReadCutText
  <2>1. PICK v \in Seen("cut") : Read("cut", 7, v) /\ pc' = "skip" /\ need' = v
    BY <1>3 DEF ReadCutText
  <2>2. pc = "cut" /\ size' = size /\ version' = version
    BY <1>3 DEF ReadCutText
  <2>3. Now' = Body("skip", v, size)
    BY <2>1, <2>2 DEF Now, Updating, Payloads, Body
  <2>4. After(version, Now, v) = Settle(Now')
    BY <2>2, <2>3, Asked DEF After
  <2>5. Moved(v)
    BY <2>1, <2>2, <2>4, Asked DEF Moved
  <2> QED  BY <2>5
<1>4. CASE ReadSkipped
  <2>1. Read("data", need, 0) /\ pc' = "type" /\ pc = "skip" /\ size' = size /\ version' = version
    BY <1>4 DEF ReadSkipped, NextMessage
  <2>3. Now' = At("type", size)
    BY <2>1 DEF Now, Updating, Payloads, At
  <2>4. After(version, Now, 0) = Now'
    BY <2>1, <2>3, Asked DEF After, Past
  <2>5. Settle(Now') = Now'
    BY <2>3, Resting DEF At, Place, Payloads
  <2>6. Moved(0)
    BY <2>1, <2>4, <2>5, Asked DEF Moved, Payloads
  <2> QED  BY <2>6
<1>5. CASE ReadExtHeader
  <2>1. PICK v \in Seen("ext") :
          Read("ext", 3, v) /\ etype' = v.etype /\ pc' = "extbody" /\ need' = v.len
    BY <1>5 DEF ReadExtHeader
  <2>2. pc = "ext" /\ size' = size /\ version' = version
    BY <1>5 DEF ReadExtHeader
  <2>3. Now' = Place("extbody", v.len, size, 0, 0, v.etype)
    BY <2>1, <2>2 DEF Now, Updating, Payloads
  <2>4. After(version, Now, v) = Settle(Now')
    BY <2>2, <2>3, Asked DEF After
  <2>5. Moved(v)
    BY <2>1, <2>2, <2>4, Asked DEF Moved
  <2> QED  BY <2>5
<1>6. CASE ReadExtBody
  <2>1. /\ Read("data", need, 0) /\ pc' = "type" /\ pc = "extbody" /\ etype # 0
        /\ size' = size /\ version' = version
    BY <1>6 DEF ReadExtBody, ByeBye, DisplayConfiguration, EventConfiguration, OtherExtension,
       NextMessage, End, Crash
  <2>2. Now.etype = etype
    BY <2>1 DEF Now, Place
  <2>3. Now' = At("type", size)
    BY <2>1 DEF Now, Updating, Payloads, At
  <2>4. After(version, Now, 0) = Now'
    BY <2>1, <2>2, <2>3, Asked DEF After, Past
  <2>5. Settle(Now') = Now'
    BY <2>3, Resting DEF At, Place, Payloads
  <2>6. Moved(0)
    BY <2>1, <2>4, <2>5, Asked DEF Moved, Payloads
  <2> QED  BY <2>6
<1> QED  BY <1>1, <1>2, <1>3, <1>4, <1>5, <1>6

LEMMA UpdateParses ==
  ASSUME ClientInv, pc' \notin {"ended", "crashed"},
         ReadUpdateHeader \/ ReadRect \/ ReadPayload \/ ReadRow \/ ReadRuns
  PROVE  \E v : Moved(v)
<1> USE DEF Handshake, config, parse, Kept
<1>a. /\ num \in 0..MaxRects /\ rows \in Nat /\ size \in Nat \X Nat /\ MaxRects \in Nat
  BY VncAssumption DEF ClientInv, ClientType
<1>1. CASE ReadUpdateHeader
  <2>1. PICK v \in Seen("fb") : Read("fb", 3, v) /\ NextRect(v, size, 0, 1)
    BY <1>1 DEF ReadUpdateHeader
  <2>2. v \in Int
    BY <1>a, <2>1, SeenTypes
  <2>3. pc = "fb" /\ version' = version
    BY <1>1 DEF ReadUpdateHeader
  <2>4. Now' = AtRect(size, v) /\ Settle(Now') = Now'
    BY <2>1, <2>2, NextRectPlace
  <2>5. After(version, Now, v) = Now'
    BY <2>3, <2>4, Asked DEF After
  <2>6. Moved(v)
    BY <2>1, <2>3, <2>4, <2>5, Asked DEF Moved
  <2> QED  BY <2>6
<1>2. CASE ReadRect
  <2>1. PICK q \in Seen("rect") :
          /\ Read("rect", 12, q)
          /\ Raw(q) \/ ContextInformation(q) \/ DesktopSize(q) \/ RunLength(q) \/ UnknownEncoding(q)
    BY <1>2 DEF ReadRect
  <2>2. pc = "rect" /\ version' = version /\ Now.num = num /\ num - 1 \in Int
    BY <1>2, <1>a DEF ReadRect, Now, Place, Updating
  <2>3. After(version, Now, q) = AfterRect(Now, q)
    BY <2>2, Asked DEF After
  <2>4. Settle(Now') = AfterRect(Now, q)
    <3>1. CASE Raw(q) /\ Visible(q)
      <4>1. Payload(q.w * q.h * 2) /\ q.e = "raw"
        BY <3>1 DEF Raw
      <4>2. Now' = Place("payload", q.w * q.h * 2, size, num, 0, 0)
        BY <4>1 DEF Payload, Now, Updating, Payloads
      <4> QED  BY <2>2, <3>1, <4>1, <4>2, Asked DEF AfterRect, Visible
    <3>2. CASE Raw(q) /\ ~Visible(q)
      <4>1. NextRect(num - 1, size, 1, inc) /\ q.e = "raw"
        BY <3>2 DEF Raw
      <4>2. Now' = AtRect(size, num - 1) /\ Settle(Now') = Now'
        BY <2>2, <4>1, NextRectPlace
      <4> QED  BY <2>2, <3>2, <4>1, <4>2, Asked DEF AfterRect, Visible
    <3>3. CASE ContextInformation(q)
      <4>1. Payload(20) /\ q.e = "context"
        BY <3>3 DEF ContextInformation
      <4>2. Now' = Place("payload", 20, size, num, 0, 0)
        BY <4>1 DEF Payload, Now, Updating, Payloads
      <4>3. Settle(Now') = Now'
        BY <4>2, PlaceFields DEF Settle
      <4> QED  BY <2>2, <4>1, <4>2, <4>3, Asked DEF AfterRect
    <3>4. CASE DesktopSize(q)
      <4>1. NextRect(num - 1, <<q.w, q.h>>, 1, 0) /\ q.e = "desktopsize"
        BY <3>4 DEF DesktopSize
      <4>2. Now' = AtRect(<<q.w, q.h>>, num - 1) /\ Settle(Now') = Now'
        BY <2>2, <4>1, NextRectPlace
      <4> QED  BY <2>2, <4>1, <4>2, Asked DEF AfterRect
    <3>5. CASE RunLength(q) /\ size[2] = 0
      <4>1. NextRect(num - 1, size, 1, inc) /\ q.e = "rle"
        BY <3>5 DEF RunLength
      <4>2. Now' = AtRect(size, num - 1) /\ Settle(Now') = Now'
        BY <2>2, <4>1, NextRectPlace
      <4> QED  BY <2>2, <3>5, <4>1, <4>2, Asked DEF AfterRect, AtRow
    <3>6. CASE RunLength(q) /\ size[2] # 0
      <4>1. /\ q.e = "rle" /\ rows' = size[2] /\ pc' = "row" /\ UNCHANGED <<num, size>>
            /\ size[2] > 0
        BY <1>a, <3>6 DEF RunLength
      <4>2. Now' = Place("row", 0, size, num, size[2], 0)
        BY <4>1 DEF Now, Updating, Payloads
      <4>3. Settle(Now') = Now'
        BY <4>2, PlaceFields, Resting DEF Payloads
      <4> QED  BY <2>2, <4>1, <4>2, <4>3, Asked DEF AfterRect, AtRow
    <3>7. CASE UnknownEncoding(q)
      <4>1. NextRect(num - 1, size, upd, inc) /\ q.e = "other"
        BY <3>7 DEF UnknownEncoding
      <4>2. Now' = AtRect(size, num - 1) /\ Settle(Now') = Now'
        BY <2>2, <4>1, NextRectPlace
      <4> QED  BY <2>2, <4>1, <4>2, Asked DEF AfterRect
    <3> QED  BY <2>1, <3>1, <3>2, <3>3, <3>4, <3>5, <3>6, <3>7
  <2>5. Moved(q)
    BY <2>1, <2>2, <2>3, <2>4, Asked DEF Moved
  <2> QED  BY <2>5
<1>3. CASE ReadPayload
  <2>1. /\ Read("data", need, 0) /\ NextRect(num - 1, size, upd, inc) /\ pc = "payload"
        /\ version' = version /\ num - 1 \in Int
    BY <1>3, <1>a DEF ReadPayload
  <2>2. Now' = AtRect(size, num - 1) /\ Settle(Now') = Now'
    BY <2>1, NextRectPlace
  <2>3. Now.num = num
    BY <2>1 DEF Now, Place, Updating
  <2>4. After(version, Now, 0) = Now'
    BY <2>1, <2>2, <2>3, Asked DEF After, Past
  <2>5. Moved(0)
    BY <2>1, <2>2, <2>4, Asked DEF Moved, Payloads
  <2> QED  BY <2>5
<1>4. CASE ReadRow
  <2>1. PICK m \in Seen("row") : Read("row", 2, m) /\ pc' = "runs" /\ need' = 3 * m
    BY <1>4 DEF ReadRow
  <2>2. pc = "row" /\ UNCHANGED <<size, num, rows, version>>
    BY <1>4 DEF ReadRow
  <2>3. Now' = Place("runs", 3 * m, size, num, rows, 0)
    BY <2>1, <2>2 DEF Now, Updating, Payloads
  <2>4. Now.num = num /\ Now.rows = rows
    BY <2>2 DEF Now, Place, Updating
  <2>5. After(version, Now, m) = Settle(Now')
    BY <2>2, <2>3, <2>4, Asked DEF After
  <2>6. Moved(m)
    BY <2>1, <2>2, <2>5, Asked DEF Moved
  <2> QED  BY <2>6
<1>5. CASE ReadRuns
  <2>1. /\ Read("data", need, 0) /\ pc = "runs" /\ version' = version /\ num - 1 \in Int
        /\ rows' = rows - 1
    BY <1>5, <1>a DEF ReadRuns
  <2>2. Now.num = num /\ Now.rows = rows
    BY <2>1 DEF Now, Place, Updating
  <2>3. After(version, Now, 0) = AtRow(size, num, rows - 1)
    BY <2>1, <2>2, Asked DEF After, Past
  <2>4. Now' = AtRow(size, num, rows - 1) /\ Settle(Now') = Now'
    <3>1. CASE rows > 1
      <4>1. pc' = "row" /\ UNCHANGED <<num, size>> /\ rows - 1 > 0
        BY <1>5, <1>a, <3>1 DEF ReadRuns
      <4>2. Now' = Place("row", 0, size, num, rows - 1, 0)
        BY <2>1, <4>1 DEF Now, Updating, Payloads
      <4>3. Settle(Now') = Now'
        BY <4>2, PlaceFields, Resting DEF Payloads
      <4> QED  BY <4>1, <4>2, <4>3 DEF AtRow
    <3>2. CASE ~(rows > 1)
      <4>1. NextRect(num - 1, size, upd, inc) /\ ~(rows - 1 > 0)
        BY <1>5, <1>a, <3>2 DEF ReadRuns
      <4>2. Now' = AtRect(size, num - 1) /\ Settle(Now') = Now'
        BY <2>1, <4>1, NextRectPlace
      <4> QED  BY <4>1, <4>2 DEF AtRow
    <3> QED  BY <3>1, <3>2
  <2>5. Moved(0)
    BY <2>1, <2>3, <2>4, Asked DEF Moved, Payloads
  <2> QED  BY <2>5
<1> QED  BY <1>1, <1>2, <1>3, <1>4, <1>5

LEMMA ClientParses ==
  ASSUME ClientInv, Client, pc' \notin {"ended", "crashed"}
  PROVE  \E v : Moved(v)
BY HandshakeParses, MessageParses, UpdateParses DEF Client

-----------------------------------------------------------------------------
(* The messages of the server, as paths.                                   *)
FieldKinds == {"version", "secnum", "sectypes", "length", "data", "result", "init", "type",
               "cut", "cmap", "ext", "fb", "rect", "row"}
FieldSet   == [f : FieldKinds, n : Nat, v : Nat \cup Inits \cup Exts \cup Rects]

LEMMA FieldType ==
  \A k \in FieldKinds, n \in Nat, v \in Nat \cup Inits \cup Exts \cup Rects :
    /\ Field(k, n, v) \in FieldSet /\ << Field(k, n, v) >> \in Seq(FieldSet)
    /\ Field(k, n, v).f = k /\ Field(k, n, v).n = n /\ Field(k, n, v).v = v
<1> SUFFICES ASSUME NEW k \in FieldKinds, NEW n \in Nat,
                    NEW v \in Nat \cup Inits \cup Exts \cup Rects
             PROVE  /\ Field(k, n, v) \in FieldSet /\ << Field(k, n, v) >> \in Seq(FieldSet)
                    /\ Field(k, n, v).f = k /\ Field(k, n, v).n = n /\ Field(k, n, v).v = v
  OBVIOUS
<1>1. Field(k, n, v) \in FieldSet
  BY DEF Field, FieldSet
<1>2. Field(k, n, v).f = k /\ Field(k, n, v).n = n /\ Field(k, n, v).v = v
  BY DEF Field
<1> QED  BY <1>1, <1>2

LEMMA DataType == \A n \in Nat : Data(n) \in Seq(FieldSet)
<1> SUFFICES ASSUME NEW n \in Nat PROVE Data(n) \in Seq(FieldSet)
  OBVIOUS
<1>1. << Field("data", n, 0) >> \in Seq(FieldSet)
  BY FieldType DEF FieldKinds
<1> QED  BY <1>1 DEF Data

(* The payload a place asks for leads past it. *)
LEMMA LeadsData ==
  ASSUME NEW ver, NEW a, a.pc \in Payloads, a.need \in Nat
  PROVE  Leads(ver, Settle(a), Data(a.need), Past(a))
<1>1. CASE a.need = 0
  BY <1>1, LeadsNowhere DEF Settle, Data
<1>2. CASE a.need # 0
  <2> DEFINE f == Field("data", a.need, 0)
  <2>1. f.f = "data" /\ f.n = a.need /\ f.v = 0
    BY DEF Field
  <2>2. Settle(a) = a /\ Data(a.need) = << f >>
    BY <1>2 DEF Settle, Data
  <2>3. Kind(a) = "data" /\ Width(a) = a.need
    BY DEF Kind, Width, Payloads
  <2>4. After(ver, a, 0) = Past(a)
    BY DEF After, Payloads
  <2> HIDE DEF f
  <2>5. Fits(a, f)
    BY <2>1, <2>3 DEF Fits
  <2>6. Leads(ver, a, << f >>, After(ver, a, f.v))
    BY <2>5, LeadsField
  <2> QED  BY <2>1, <2>2, <2>4, <2>6
<1> QED  BY <1>1, <1>2

(* A field of a given kind, then the rest.                                 *)
LEMMA LeadsFieldThen ==
  ASSUME NEW ver, NEW a, NEW b, NEW c, NEW f \in FieldSet, NEW fs \in Seq(FieldSet),
         Fits(a, f), After(ver, a, f.v) = b, Leads(ver, b, fs, c)
  PROVE  << f >> \o fs \in Seq(FieldSet) /\ Leads(ver, a, << f >> \o fs, c)
<1>1. << f >> \in Seq(FieldSet)
  OBVIOUS
<1>2. Leads(ver, a, << f >>, b)
  BY LeadsField
<1>3. << f >> \o fs \in Seq(FieldSet)
  BY <1>1
<1> QED  BY <1>1, <1>2, <1>3, LeadsOn

LEMMA TypeFits ==
  ASSUME NEW ver, NEW s, NEW t \in Nat
  PROVE  /\ Fits(At("type", s), Field("type", 1, t))
         /\ After(ver, At("type", s), t) =
              At(CASE t = 0 -> "fb" [] t = 1 -> "cmap" [] t = 3 -> "cut" [] t = 128 -> "ext"
                   [] OTHER -> "type", s)
BY DEF Fits, Kind, Width, After, At, Place, Field, Payloads

LEMMA LeadsExt ==
  ASSUME NEW ver, NEW s, NEW e \in ExtTypes, NEW n \in Nat
  PROVE  /\ Ext(e, n) \in Seq(FieldSet)
         /\ Leads(ver, At("type", s), Ext(e, n), IF e = 0 THEN Ended ELSE At("type", s))
<1> DEFINE v  == [etype |-> e, len |-> n]
           a  == At("type", s)
           b  == At("ext", s)
           x  == Place("extbody", n, s, 0, 0, e)
           f  == Field("type", 1, 128)
           g  == Field("ext", 3, v)
           fs == Data(n)
           c  == IF e = 0 THEN Ended ELSE At("type", s)
<1>1. v \in Exts /\ v.len = n /\ v.etype = e
  BY DEF Exts
<1>2. f \in FieldSet /\ g \in FieldSet /\ fs \in Seq(FieldSet) /\ f.v = 128 /\ g.v = v
  <2>1. "type" \in FieldKinds /\ "ext" \in FieldKinds
    BY DEF FieldKinds
  <2>2. fs \in Seq(FieldSet)
    BY DataType
  <2>3. v \in Nat \cup Inits \cup Exts \cup Rects
    BY <1>1
  <2> HIDE DEF v, fs
  <2>4. g \in FieldSet /\ g.v = v
    BY <2>1, <2>3, FieldType
  <2>5. f \in FieldSet /\ f.v = 128
    BY <2>1, FieldType
  <2> QED  BY <2>2, <2>4, <2>5
<1>3. Fits(a, f) /\ After(ver, a, 128) = b
  BY TypeFits
<1>4. Fits(b, g)
  BY DEF Fits, Kind, Width, At, Place, Field, Payloads
<1>5. After(ver, b, v) = Settle(x)
  BY <1>1, PlaceFields DEF After, At
<1>6. Leads(ver, Settle(x), fs, Past(x))
  <2>1. x.pc \in Payloads /\ x.need = n
    BY PlaceFields DEF Payloads, Body
  <2> HIDE DEF x
  <2> QED  BY <2>1, LeadsData
<1>7. Past(x) = c
  BY PlaceFields DEF Past
<1>8. Ext(e, n) = (<< f >> \o << g >>) \o fs
  BY DEF Ext, MsgType
<1> HIDE DEF v, a, b, x, f, g, fs, c
<1>9. << g >> \o fs \in Seq(FieldSet) /\ Leads(ver, b, << g >> \o fs, c)
  BY <1>2, <1>4, <1>5, <1>6, <1>7, LeadsFieldThen
<1>10. << f >> \o (<< g >> \o fs) \in Seq(FieldSet) /\ Leads(ver, a, << f >> \o (<< g >> \o fs), c)
  BY <1>2, <1>3, <1>9, LeadsFieldThen
<1>11. (<< f >> \o << g >>) \o fs = << f >> \o (<< g >> \o fs)
  <2>1. << f >> \in Seq(FieldSet) /\ << g >> \in Seq(FieldSet)
    BY <1>2
  <2> QED  BY <1>2, <2>1, ConcatAssociative
<1> QED  BY <1>8, <1>10, <1>11 DEF a, c

LEMMA LeadsCut ==
  ASSUME NEW ver, NEW s, NEW n \in Nat
  PROVE  Cut(n) \in Seq(FieldSet) /\ Leads(ver, At("type", s), Cut(n), At("type", s))
<1> DEFINE a  == At("type", s)
           b  == At("cut", s)
           x  == Body("skip", n, s)
           f  == Field("type", 1, 3)
           g  == Field("cut", 7, n)
           fs == Data(n)
<1>2. f \in FieldSet /\ g \in FieldSet /\ fs \in Seq(FieldSet) /\ f.v = 3 /\ g.v = n
  <2>1. "type" \in FieldKinds /\ "cut" \in FieldKinds
    BY DEF FieldKinds
  <2>2. fs \in Seq(FieldSet)
    BY DataType
  <2> HIDE DEF fs
  <2> QED  BY <2>1, <2>2, FieldType
<1>3. Fits(a, f) /\ After(ver, a, 3) = b
  BY TypeFits
<1>4. Fits(b, g)
  BY DEF Fits, Kind, Width, At, Place, Field, Payloads
<1>5. After(ver, b, n) = Settle(x)
  BY PlaceFields DEF After, At
<1>6. Leads(ver, Settle(x), fs, Past(x))
  <2>1. x.pc \in Payloads /\ x.need = n
    BY PlaceFields DEF Payloads, Body
  <2> HIDE DEF x
  <2> QED  BY <2>1, LeadsData
<1>7. Past(x) = a
  BY PlaceFields DEF Past, Body
<1>8. Cut(n) = (<< f >> \o << g >>) \o fs
  BY DEF Cut, MsgType
<1> HIDE DEF a, b, x, f, g, fs
<1>9. << g >> \o fs \in Seq(FieldSet) /\ Leads(ver, b, << g >> \o fs, a)
  BY <1>2, <1>4, <1>5, <1>6, <1>7, LeadsFieldThen
<1>10. << f >> \o (<< g >> \o fs) \in Seq(FieldSet) /\ Leads(ver, a, << f >> \o (<< g >> \o fs), a)
  BY <1>2, <1>3, <1>9, LeadsFieldThen
<1>11. (<< f >> \o << g >>) \o fs = << f >> \o (<< g >> \o fs)
  <2>1. << f >> \in Seq(FieldSet) /\ << g >> \in Seq(FieldSet)
    BY <1>2
  <2> QED  BY <1>2, <2>1, ConcatAssociative
<1> QED  BY <1>8, <1>10, <1>11 DEF a

LEMMA LeadsBell ==
  ASSUME NEW ver, NEW s
  PROVE  MsgType(2) \in Seq(FieldSet) /\ Leads(ver, At("type", s), MsgType(2), At("type", s))
<1> DEFINE f == Field("type", 1, 2)
           a == At("type", s)
<1>1. f \in FieldSet /\ << f >> \in Seq(FieldSet) /\ f.v = 2
  BY FieldType DEF FieldKinds
<1>2. Fits(a, f) /\ After(ver, a, 2) = a
  BY TypeFits
<1> HIDE DEF f, a
<1>3. Leads(ver, a, << f >>, a)
  BY <1>1, <1>2, LeadsField
<1> QED  BY <1>1, <1>3 DEF MsgType, f, a

LEMMA LeadsFbHeader ==
  ASSUME NEW ver, NEW s, NEW n \in Nat
  PROVE  FbHeader(n) \in Seq(FieldSet) /\ Leads(ver, At("type", s), FbHeader(n), AtRect(s, n))
<1> DEFINE f == Field("type", 1, 0)
           g == Field("fb", 3, n)
           a == At("type", s)
           b == At("fb", s)
           c == AtRect(s, n)
<1>1. f \in FieldSet /\ g \in FieldSet /\ << g >> \in Seq(FieldSet) /\ f.v = 0 /\ g.v = n
  BY FieldType DEF FieldKinds
<1>2. Fits(a, f) /\ After(ver, a, 0) = b
  BY TypeFits
<1>3. Fits(b, g)
  BY DEF Fits, Kind, Width, At, Place, Field, Payloads
<1>4. After(ver, b, n) = c
  BY PlaceFields DEF After, At
<1>5. FbHeader(n) = << f >> \o << g >>
  BY DEF FbHeader, MsgType
<1> HIDE DEF f, g, a, b, c
<1>6. Leads(ver, b, << g >>, c)
  BY <1>1, <1>3, <1>4, LeadsField
<1>7. << f >> \o << g >> \in Seq(FieldSet) /\ Leads(ver, a, << f >> \o << g >>, c)
  BY <1>1, <1>2, <1>6, LeadsFieldThen
<1> QED  BY <1>5, <1>7 DEF a, c

(* The rows of a run-length rectangle: a count of runs each, and the runs. *)
LEMMA RowsType ==
  ASSUME NEW h \in Nat, NEW m \in Nat
  PROVE  /\ RowsOf(h, m) \in Seq(FieldSet)
         /\ Len(RowsOf(h, m)) = IF m = 0 THEN h ELSE 2 * h
         /\ \A i \in 1..Len(RowsOf(h, m)) :
              RowsOf(h, m)[i] = IF m = 0 \/ i % 2 = 1 THEN Field("row", 2, m)
                                                      ELSE Field("data", 3 * m, 0)
<1> DEFINE n == IF m = 0 THEN h ELSE 2 * h
           f(i) == IF m = 0 \/ i % 2 = 1 THEN Field("row", 2, m) ELSE Field("data", 3 * m, 0)
           r == [i \in 1..n |-> f(i)]
<1>1. n \in Nat /\ 3 * m \in Nat
  OBVIOUS
<1>2. Field("row", 2, m) \in FieldSet /\ Field("data", 3 * m, 0) \in FieldSet
  <2>1. "row" \in FieldKinds /\ "data" \in FieldKinds
    BY DEF FieldKinds
  <2> QED  BY <1>1, <2>1, FieldType
<1>3. \A i \in 1..n : f(i) \in FieldSet
  BY <1>2
<1>4. RowsOf(h, m) = r
  BY DEF RowsOf
<1> HIDE DEF f, n
<1>5. r \in [1..n -> FieldSet]
  BY <1>3
<1>6. r \in Seq(FieldSet) /\ Len(r) = n /\ \A i \in 1..n : r[i] = f(i)
  BY <1>1, <1>5
<1> QED  BY <1>4, <1>6 DEF f, n

LEMMA Halves ==
  \A i \in Nat :
    /\ i % 2 \in {0, 1} /\ i \div 2 \in Nat /\ i = 2 * (i \div 2) + (i % 2)
    /\ i % 2 = 1 => (i + 1) % 2 = 0 /\ (i + 1) \div 2 = (i \div 2) + 1
    /\ i % 2 = 0 => (i + 1) % 2 = 1 /\ (i + 1) \div 2 = i \div 2
<1>1. \A i \in Nat : i % 2 \in {0, 1}
  OBVIOUS
<1>2. \A i \in Nat : i \div 2 \in Nat
  OBVIOUS
<1>3. \A i \in Nat : i = 2 * (i \div 2) + (i % 2)
  OBVIOUS
<1>4. \A i \in Nat : i % 2 = 1 => (i + 1) % 2 = 0
  OBVIOUS
<1>5. \A i \in Nat : i % 2 = 1 => (i + 1) \div 2 = (i \div 2) + 1
  OBVIOUS
<1>6. \A i \in Nat : i % 2 = 0 => (i + 1) % 2 = 1
  OBVIOUS
<1>7. \A i \in Nat : i % 2 = 0 => (i + 1) \div 2 = i \div 2
  OBVIOUS
<1> QED  BY <1>1, <1>2, <1>3, <1>4, <1>5, <1>6, <1>7

LEMMA LeadsRows ==
  ASSUME NEW ver, NEW s, NEW k \in Nat, NEW h \in Nat, NEW m \in Nat
  PROVE  RowsOf(h, m) \in Seq(FieldSet) /\ Leads(ver, AtRow(s, k, h), RowsOf(h, m), AtRect(s, k - 1))
<1> DEFINE fs == RowsOf(h, m)
           row == Field("row", 2, m)
           runs == Field("data", 3 * m, 0)
           In(r) == Place("runs", 3 * m, s, k, r, 0)
<1>a. /\ row.f = "row" /\ row.n = 2 /\ row.v = m
      /\ runs.f = "data" /\ runs.n = 3 * m /\ runs.v = 0
  BY DEF Field
<1>b. /\ fs \in Seq(FieldSet) /\ Len(fs) = IF m = 0 THEN h ELSE 2 * h
      /\ \A i \in 1..Len(fs) : fs[i] = IF m = 0 \/ i % 2 = 1 THEN row ELSE runs
  BY RowsType
<1>c. ASSUME NEW r \in Nat, r > 0
      PROVE  /\ Fits(AtRow(s, k, r), row)
             /\ After(ver, AtRow(s, k, r), m) = Settle(In(r))
             /\ Past(In(r)) = AtRow(s, k, r - 1)
             /\ m = 0 => Settle(In(r)) = AtRow(s, k, r - 1)
             /\ m # 0 => Settle(In(r)) = In(r)
             /\ Fits(In(r), runs) /\ After(ver, In(r), 0) = AtRow(s, k, r - 1)
  <2>1. AtRow(s, k, r) = Place("row", 0, s, k, r, 0)
    BY <1>c DEF AtRow
  <2>2. Fits(AtRow(s, k, r), row)
    BY <1>a, <2>1, PlaceFields DEF Fits, Kind, Width, Payloads
  <2>3. After(ver, AtRow(s, k, r), m) = Settle(In(r))
    BY <2>1, PlaceFields DEF After
  <2>4. Past(In(r)) = AtRow(s, k, r - 1)
    BY PlaceFields DEF Past
  <2>5. In(r).pc = "runs" /\ In(r).need = 3 * m /\ (3 * m = 0 <=> m = 0)
    BY PlaceFields
  <2>6. (m = 0 => Settle(In(r)) = Past(In(r))) /\ (m # 0 => Settle(In(r)) = In(r))
    BY <2>5 DEF Settle, Payloads
  <2>7. Fits(In(r), runs) /\ After(ver, In(r), 0) = Past(In(r))
    BY <1>a, <2>5 DEF Fits, Kind, Width, Payloads, After
  <2> QED  BY <2>2, <2>3, <2>4, <2>6, <2>7
<1>d. AtRow(s, k, 0) = AtRect(s, k - 1)
  BY DEF AtRow
<1> HIDE DEF row, runs, In, fs
<1>1. CASE m = 0
  <2> DEFINE st == [i \in 1..h + 1 |-> AtRow(s, k, h - (i - 1))]
  <2>1. \A i \in 1..h + 1 : st[i] = AtRow(s, k, h - (i - 1))
    OBVIOUS
  <2> HIDE DEF st
  <2>2. h - (1 - 1) = h /\ h - ((h + 1) - 1) = 0 /\ 1 \in 1..h + 1 /\ h + 1 \in 1..h + 1
    OBVIOUS
  <2>3. st[1] = AtRow(s, k, h) /\ st[h + 1] = AtRect(s, k - 1)
    <3>1. st[1] = AtRow(s, k, h - (1 - 1)) /\ st[h + 1] = AtRow(s, k, h - ((h + 1) - 1))
      BY <2>1, <2>2
    <3> QED  BY <1>d, <2>2, <3>1
  <2>4. ASSUME NEW i \in 1..h
        PROVE  Fits(st[i], row) /\ st[i + 1] = After(ver, st[i], m)
    <3>1. h - (i - 1) \in Nat /\ h - (i - 1) > 0 /\ h - ((i + 1) - 1) = (h - (i - 1)) - 1
          /\ i \in 1..h + 1 /\ i + 1 \in 1..h + 1
      OBVIOUS
    <3>2. st[i] = AtRow(s, k, h - (i - 1)) /\ st[i + 1] = AtRow(s, k, h - ((i + 1) - 1))
      BY <2>1, <3>1
    <3>3. st[i + 1] = AtRow(s, k, (h - (i - 1)) - 1)
      BY <3>1, <3>2
    <3> QED  BY <1>1, <1>c, <3>1, <3>2, <3>3
  <2>5. Len(fs) = h /\ \A i \in 1..h : fs[i] = row
    BY <1>1, <1>b
  <2>6. \A i \in 1..Len(fs) : Fits(st[i], fs[i]) /\ st[i + 1] = After(ver, st[i], fs[i].v)
    BY <1>a, <2>4, <2>5
  <2>7. st[1] = AtRow(s, k, h) /\ st[Len(fs) + 1] = AtRect(s, k - 1)
    BY <2>3, <2>5
  <2>8. Leads(ver, AtRow(s, k, h), fs, AtRect(s, k - 1))
    BY <2>6, <2>7 DEF Leads
  <2> QED  BY <1>b, <2>8 DEF fs
<1>2. CASE m # 0
  <2> DEFINE Left(i) == h - (i \div 2)
             st == [i \in 1..2 * h + 1 |->
                      IF i % 2 = 1 THEN AtRow(s, k, Left(i)) ELSE In(Left(i) + 1)]
  <2>1. \A i \in 1..2 * h + 1 : st[i] = IF i % 2 = 1 THEN AtRow(s, k, Left(i)) ELSE In(Left(i) + 1)
    OBVIOUS
  <2> HIDE DEF st
  <2>2. st[1] = AtRow(s, k, h) /\ st[2 * h + 1] = AtRect(s, k - 1)
    <3>1. 1 % 2 = 1 /\ Left(1) = h /\ 1 \in 1..2 * h + 1
      OBVIOUS
    <3>2. (2 * h + 1) % 2 = 1 /\ Left(2 * h + 1) = 0 /\ 2 * h + 1 \in 1..2 * h + 1
      OBVIOUS
    <3> HIDE DEF Left
    <3>3. st[1] = AtRow(s, k, h) /\ st[2 * h + 1] = AtRow(s, k, 0)
      BY <2>1, <3>1, <3>2
    <3> QED  BY <1>d, <3>3
  <2>3. Len(fs) = 2 * h /\ \A i \in 1..2 * h : fs[i] = IF i % 2 = 1 THEN row ELSE runs
    BY <1>2, <1>b
  <2>4. ASSUME NEW i \in 1..2 * h
        PROVE  Fits(st[i], fs[i]) /\ st[i + 1] = After(ver, st[i], fs[i].v)
    <3>1. i \in Nat /\ i \in 1..2 * h + 1 /\ i + 1 \in 1..2 * h + 1
      OBVIOUS
    <3>2. CASE i % 2 = 1
      <4>1. Left(i) \in Nat /\ Left(i) > 0 /\ (i + 1) % 2 = 0 /\ Left(i + 1) + 1 = Left(i)
        <5>1. (i + 1) % 2 = 0 /\ (i + 1) \div 2 = (i \div 2) + 1 /\ i = 2 * (i \div 2) + 1
              /\ i \div 2 \in Nat
          BY <3>1, <3>2, Halves
        <5> QED  BY <5>1
      <4> HIDE DEF Left
      <4>2. st[i] = AtRow(s, k, Left(i)) /\ st[i + 1] = In(Left(i)) /\ fs[i] = row
        BY <2>1, <2>3, <3>1, <3>2, <4>1
      <4> QED  BY <1>2, <1>a, <1>c, <4>1, <4>2
    <3>3. CASE i % 2 # 1
      <4>1. Left(i) + 1 \in Nat /\ Left(i) + 1 > 0 /\ (i + 1) % 2 = 1 /\ Left(i + 1) = (Left(i) + 1) - 1
        <5>1. (i + 1) % 2 = 1 /\ (i + 1) \div 2 = i \div 2 /\ i = 2 * (i \div 2) /\ i \div 2 \in Nat
          BY <3>1, <3>3, Halves
        <5> QED  BY <5>1
      <4> HIDE DEF Left
      <4>2. st[i] = In(Left(i) + 1) /\ st[i + 1] = AtRow(s, k, (Left(i) + 1) - 1) /\ fs[i] = runs
        BY <2>1, <2>3, <3>1, <3>3, <4>1
      <4> QED  BY <1>2, <1>a, <1>c, <4>1, <4>2
    <3> QED  BY <3>2, <3>3
  <2> QED  BY <1>b, <2>2, <2>3, <2>4 DEF Leads, fs
<1> QED  BY <1>1, <1>2

(* A rectangle that the strict server may send while the client expects k  *)
(* of them at size s.                                                      *)
LEMMA LeadsRect ==
  ASSUME NEW ver, NEW s \in Nat \X Nat, NEW k \in Nat, k > 0, NEW q \in Rects, NEW m \in Nat,
         q.e \in {"raw", "rle"} => q.x + q.w <= s[1] /\ q.y + q.h <= s[2] /\ q.w > 0 /\ q.h > 0,
         q.e = "rle" => q.h = s[2],
         q.e # "other"
  PROVE  /\ RectFields(q, m) \in Seq(FieldSet)
         /\ Leads(ver, AtRect(s, k), RectFields(q, m),
                  AtRect(IF q.e = "desktopsize" THEN <<q.w, q.h>> ELSE s, k - 1))
<1> DEFINE a  == Place("rect", 0, s, k, 0, 0)
           f  == Field("rect", 12, q)
           fs == CASE q.e = "raw"     -> Data(q.w * q.h * 2)
                   [] q.e = "context" -> Data(20)
                   [] q.e = "rle"     -> RowsOf(q.h, m)
                   [] q.e = "other"   -> Data(m)
                   [] OTHER           -> << >>
           c  == AtRect(IF q.e = "desktopsize" THEN <<q.w, q.h>> ELSE s, k - 1)
<1>1. AtRect(s, k) = a
  BY DEF AtRect
<1>2. f \in FieldSet /\ f.v = q
  <2>1. "rect" \in FieldKinds /\ q \in Nat \cup Inits \cup Exts \cup Rects
    BY DEF FieldKinds
  <2> QED  BY <2>1, FieldType
<1>3. Fits(a, f)
  BY PlaceFields DEF Fits, Kind, Width, Payloads, Field
<1>4. After(ver, a, q) = AfterRect(a, q) /\ a.size = s /\ a.num = k
  BY PlaceFields DEF After
<1>5. /\ q.e \in {"raw", "context", "desktopsize", "rle"} /\ q.w \in Nat /\ q.h \in Nat
  BY DEF Rects, Encodings
<1>6. RectFields(q, m) = << f >> \o fs
  BY DEF RectFields
<1> HIDE DEF f, a
<1>7. fs \in Seq(FieldSet) /\ Leads(ver, AfterRect(a, q), fs, c)
  <2>1. CASE q.e = "raw"
    <3> DEFINE n == q.w * q.h * 2
               x == Place("payload", n, s, k, 0, 0)
    <3>1. n \in Nat
      BY <1>5
    <3>2. fs = Data(n) /\ c = AtRect(s, k - 1)
      BY <2>1
    <3>3. q.w # 0 /\ q.h # 0 /\ q.x + q.w <= a.size[1] /\ q.y + q.h <= a.size[2]
      BY <1>4, <2>1
    <3>4. AfterRect(a, q) = Settle(x)
      BY <1>4, <2>1, <3>3 DEF AfterRect
    <3>5. x.pc \in Payloads /\ x.need = n /\ Past(x) = AtRect(s, k - 1)
      BY PlaceFields DEF Payloads, Past
    <3> HIDE DEF fs, c, n, x
    <3>6. Leads(ver, Settle(x), Data(n), Past(x))
      BY <3>1, <3>5, LeadsData
    <3> QED  BY <3>1, <3>2, <3>4, <3>5, <3>6, DataType
  <2>2. CASE q.e = "context"
    <3> DEFINE x == Place("payload", 20, s, k, 0, 0)
    <3>1. fs = Data(20) /\ c = AtRect(s, k - 1)
      BY <2>2
    <3>2. AfterRect(a, q) = x
      BY <1>4, <2>2 DEF AfterRect
    <3>3. x.pc \in Payloads /\ x.need = 20 /\ Past(x) = AtRect(s, k - 1)
      BY PlaceFields DEF Payloads, Past
    <3> HIDE DEF fs, c, x
    <3>4. Settle(x) = x
      BY <3>3 DEF Settle
    <3>5. Leads(ver, Settle(x), Data(20), Past(x))
      BY <3>3, LeadsData
    <3> QED  BY <3>1, <3>2, <3>3, <3>4, <3>5, DataType
  <2>3. CASE q.e = "desktopsize"
    <3>1. fs = << >> /\ c = AtRect(<<q.w, q.h>>, k - 1)
      BY <2>3
    <3>2. AfterRect(a, q) = AtRect(<<q.w, q.h>>, k - 1)
      BY <1>4, <2>3 DEF AfterRect
    <3> HIDE DEF fs, c
    <3>3. << >> \in Seq(FieldSet)
      OBVIOUS
    <3> QED  BY <3>1, <3>2, <3>3, LeadsNowhere
  <2>4. CASE q.e = "rle"
    <3>1. fs = RowsOf(q.h, m) /\ c = AtRect(s, k - 1) /\ q.h = s[2]
      BY <2>4
    <3>2. AfterRect(a, q) = AtRow(s, k, q.h)
      BY <1>4, <2>4, <3>1 DEF AfterRect
    <3> HIDE DEF fs, c
    <3> QED  BY <1>5, <3>1, <3>2, LeadsRows
  <2> QED  BY <1>5, <2>1, <2>2, <2>3, <2>4
<1> HIDE DEF fs, c
<1>8. << f >> \o fs \in Seq(FieldSet) /\ Leads(ver, a, << f >> \o fs, c)
  BY <1>2, <1>3, <1>4, <1>7, LeadsFieldThen
<1> QED  BY <1>1, <1>6, <1>8 DEF c

-----------------------------------------------------------------------------
(* The fields of a strict server: an extension message of type 0 only as   *)
(* its ByeBye (bye), a configuration never longer than the record it is    *)
(* copied into, an update (fbu) never empty, and no rectangle in an        *)
(* encoding that the client did not declare.                               *)
Roomy(e, n) == (e = 1 => n <= Room.display) /\ (e = 3 => n <= Room.event)

Legal(bye, fbu) ==
  {g \in FieldSet : /\ g.f = "ext" => /\ g.v \in Exts /\ (bye \/ g.v.etype # 0)
                                     /\ Roomy(g.v.etype, g.v.len)
                    /\ g.f = "fb" => fbu /\ g.v \in Nat \ {0}
                    /\ g.f = "rect" => g.v \in Rects /\ g.v.e # "other"}

LEMMA LegalField ==
  ASSUME NEW k \in FieldKinds, NEW n \in Nat, NEW v \in Nat \cup Inits \cup Exts \cup Rects,
         NEW bye \in BOOLEAN, NEW fbu \in BOOLEAN,
         k = "ext" => v \in Exts /\ (bye \/ v.etype # 0) /\ Roomy(v.etype, v.len),
         k = "fb" => fbu /\ v \in Nat \ {0},
         k = "rect" => v \in Rects /\ v.e # "other"
  PROVE  Field(k, n, v) \in Legal(bye, fbu)
<1> DEFINE g == Field(k, n, v)
<1>1. g \in FieldSet /\ g.f = k /\ g.v = v
  BY FieldType
<1> HIDE DEF g
<1>2. g \in Legal(bye, fbu)
  BY <1>1 DEF Legal
<1> QED  BY <1>2 DEF g

LEMMA LegalPlain ==
  ASSUME NEW k \in FieldKinds \ {"ext", "fb", "rect"}, NEW n \in Nat, NEW v \in Nat \cup Inits,
         NEW bye \in BOOLEAN, NEW fbu \in BOOLEAN
  PROVE  Field(k, n, v) \in Legal(bye, fbu) /\ << Field(k, n, v) >> \in Seq(Legal(bye, fbu))
<1>1. Field(k, n, v) \in Legal(bye, fbu)
  BY LegalField
<1> QED  BY <1>1

LEMMA LegalData ==
  ASSUME NEW n \in Nat, NEW bye \in BOOLEAN, NEW fbu \in BOOLEAN
  PROVE  Data(n) \in Seq(Legal(bye, fbu))
<1>1. "data" \in FieldKinds \ {"ext", "fb", "rect"} /\ 0 \in Nat \cup Inits
  BY DEF FieldKinds
<1>2. << Field("data", n, 0) >> \in Seq(Legal(bye, fbu))
  BY <1>1, LegalPlain
<1> QED  BY <1>2 DEF Data

LEMMA LegalJoin ==
  ASSUME NEW bye, NEW fbu, NEW s \in Seq(Legal(bye, fbu)), NEW t \in Seq(Legal(bye, fbu))
  PROVE  s \o t \in Seq(Legal(bye, fbu))
OBVIOUS

LEMMA LegalExt ==
  ASSUME NEW e \in ExtTypes, NEW n \in Nat, NEW bye \in BOOLEAN, NEW fbu \in BOOLEAN,
         bye \/ e # 0, Roomy(e, n)
  PROVE  Ext(e, n) \in Seq(Legal(bye, fbu))
<1> DEFINE v == [etype |-> e, len |-> n]
           f == Field("type", 1, 128)
           g == Field("ext", 3, v)
<1>1. v \in Exts /\ v.etype = e /\ v.len = n
  BY DEF Exts
<1> HIDE DEF v
<1>2. "ext" \in FieldKinds /\ "type" \in FieldKinds \ {"ext", "fb", "rect"}
  BY DEF FieldKinds
<1>3. << f >> \in Seq(Legal(bye, fbu))
  BY <1>2, LegalPlain
<1>4. g \in Legal(bye, fbu)
  BY <1>1, <1>2, LegalField
<1>5. << g >> \in Seq(Legal(bye, fbu))
  BY <1>4
<1>6. Data(n) \in Seq(Legal(bye, fbu))
  BY LegalData
<1>7. Ext(e, n) = (<< f >> \o << g >>) \o Data(n)
  BY DEF Ext, MsgType, v
<1> HIDE DEF f, g
<1>8. << f >> \o << g >> \in Seq(Legal(bye, fbu))
  BY <1>3, <1>5, LegalJoin
<1> QED  BY <1>6, <1>7, <1>8, LegalJoin

LEMMA LegalMessages ==
  ASSUME NEW n \in Nat, NEW bye \in BOOLEAN, NEW fbu \in BOOLEAN
  PROVE  /\ MsgType(2) \in Seq(Legal(bye, fbu))
         /\ Cut(n) \in Seq(Legal(bye, fbu))
         /\ fbu /\ n # 0 => FbHeader(n) \in Seq(Legal(bye, fbu))
<1>1. {"type", "cut"} \subseteq FieldKinds \ {"ext", "fb", "rect"} /\ "fb" \in FieldKinds
  BY DEF FieldKinds
<1>2. \A t \in Nat : MsgType(t) \in Seq(Legal(bye, fbu))
  BY <1>1, LegalPlain DEF MsgType
<1>3. << Field("cut", 7, n) >> \in Seq(Legal(bye, fbu)) /\ Data(n) \in Seq(Legal(bye, fbu))
  BY <1>1, LegalPlain, LegalData
<1>4. MsgType(3) \o << Field("cut", 7, n) >> \in Seq(Legal(bye, fbu))
  BY <1>2, <1>3, LegalJoin
<1>5. Cut(n) \in Seq(Legal(bye, fbu))
  BY <1>3, <1>4, LegalJoin DEF Cut
<1>6. ASSUME fbu, n # 0 PROVE FbHeader(n) \in Seq(Legal(bye, fbu))
  <2>1. Field("fb", 3, n) \in Legal(bye, fbu)
    BY <1>1, <1>6, LegalField
  <2>2. << Field("fb", 3, n) >> \in Seq(Legal(bye, fbu))
    BY <2>1
  <2>3. MsgType(0) \in Seq(Legal(bye, fbu))
    BY <1>2
  <2> QED  BY <2>2, <2>3, LegalJoin DEF FbHeader
<1> QED  BY <1>2, <1>5, <1>6

LEMMA LegalRect ==
  ASSUME NEW q \in Rects, q.e # "other", NEW m \in Nat, NEW bye \in BOOLEAN, NEW fbu \in BOOLEAN
  PROVE  RectFields(q, m) \in Seq(Legal(bye, fbu))
<1> DEFINE f  == Field("rect", 12, q)
           fs == CASE q.e = "raw"     -> Data(q.w * q.h * 2)
                   [] q.e = "context" -> Data(20)
                   [] q.e = "rle"     -> RowsOf(q.h, m)
                   [] q.e = "other"   -> Data(m)
                   [] OTHER           -> << >>
           L  == Seq(Legal(bye, fbu))
<1>1. q.e \in Encodings /\ q.w \in Nat /\ q.h \in Nat /\ q.w * q.h * 2 \in Nat
  BY DEF Rects
<1>2. f \in Legal(bye, fbu)
  BY LegalField DEF FieldKinds
<1>3. Data(q.w * q.h * 2) \in L /\ Data(20) \in L /\ << >> \in L
  BY <1>1, LegalData
<1>4. RowsOf(q.h, m) \in L
  <2> DEFINE r == RowsOf(q.h, m)
  <2>1. Field("row", 2, m) \in Legal(bye, fbu) /\ Field("data", 3 * m, 0) \in Legal(bye, fbu)
    BY LegalPlain DEF FieldKinds
  <2>2. /\ r \in Seq(FieldSet)
        /\ \A i \in 1..Len(r) : r[i] \in {Field("row", 2, m), Field("data", 3 * m, 0)}
    BY ZenonT(40), <1>1, RowsType
  <2> HIDE DEF r
  <2>3. r \in [1..Len(r) -> Legal(bye, fbu)] /\ Len(r) \in Nat
    BY <2>1, <2>2
  <2>4. r \in L
    BY <2>3
  <2> QED  BY <2>4 DEF r
<1>5. fs \in L
  BY <1>1, <1>3, <1>4 DEF Encodings
<1>6. RectFields(q, m) = << f >> \o fs
  BY DEF RectFields
<1> HIDE DEF f, fs
<1>7. << f >> \in L
  BY <1>2
<1> QED  BY <1>5, <1>6, <1>7, LegalJoin

(* What is legal in a smaller sense is legal in a wider one. *)
LEMMA LegalWidens ==
  ASSUME NEW bye \in BOOLEAN, NEW fbu \in BOOLEAN, NEW bye2 \in BOOLEAN, NEW fbu2 \in BOOLEAN,
         bye => bye2, fbu => fbu2, NEW s \in Seq(Legal(bye, fbu))
  PROVE  s \in Seq(Legal(bye2, fbu2)) /\ s \in Seq(FieldSet)
<1>1. Legal(bye, fbu) \subseteq Legal(bye2, fbu2) /\ Legal(bye, fbu) \subseteq FieldSet
  BY DEF Legal
<1>2. Len(s) \in Nat /\ s \in [1..Len(s) -> Legal(bye, fbu)]
  OBVIOUS
<1>3. s \in [1..Len(s) -> Legal(bye2, fbu2)] /\ s \in [1..Len(s) -> FieldSet]
  BY <1>1, <1>2
<1> QED  BY <1>2, <1>3

-----------------------------------------------------------------------------
(* The handshake, as paths.                                                *)

LEMMA HostOrderType ==
  /\ HostOrder(0) = 0
  /\ \A n \in Nat : HostOrder(n) \in Nat /\ (HostOrder(n) = 0 => n = 0)
BY DEF HostOrder

(* A refusal: its reason is taken as it comes, and then nothing is read.   *)
LEMMA LeadsRefusal ==
  ASSUME NEW ver, NEW s, NEW q \in Refusal
  PROVE  q \in Seq(FieldSet) /\ Leads(ver, At("length", s), q, Ended)
<1>1. PICK n \in PayloadLens : q = << Field("length", 4, n) >> \o Data(n)
  BY DEF Refusal
<1> DEFINE a  == At("length", s)
           x  == Body("reason", HostOrder(n), s)
           f  == Field("length", 4, n)
           fs == Data(n)
<1>2. n \in Nat
  BY VncAssumption
<1>3. f \in FieldSet /\ f.v = n
  BY <1>2, FieldType DEF FieldKinds
<1>4. fs \in Seq(FieldSet)
  BY <1>2, DataType
<1>5. Fits(a, f)
  BY DEF Fits, Kind, Width, At, Place, Field, Payloads
<1>6. After(ver, a, n) = Settle(x)
  BY PlaceFields DEF After, At
<1>7. x.pc = "reason" /\ x.need = HostOrder(n)
  BY PlaceFields DEF Body
<1>8. Past(x) = Ended
  BY <1>7 DEF Past
<1> HIDE DEF a, x, f
<1>9. Leads(ver, Settle(x), fs, Ended)
  <2>1. CASE n = 0
    BY <1>7, <1>8, <2>1, HostOrderType, LeadsNowhere DEF Settle, Payloads, Data
  <2>2. CASE n # 0
    <3> DEFINE g == Field("data", n, 0)
    <3>1. Settle(x) = x /\ fs = << g >>
      BY <1>2, <1>7, <2>2, HostOrderType DEF Settle, Data
    <3>2. Fits(x, g)
      BY <1>7 DEF Fits
    <3>3. \A v : After(ver, x, v) = Ended
      BY <1>7, <1>8 DEF After
    <3> HIDE DEF g
    <3>4. Leads(ver, x, << g >>, After(ver, x, g.v))
      BY <3>2, LeadsField
    <3> QED  BY <3>1, <3>3, <3>4
  <2> QED  BY <2>1, <2>2
<1> HIDE DEF fs
<1> QED  BY <1>1, <1>3, <1>4, <1>5, <1>6, <1>9, LeadsFieldThen DEF a, f, fs

LEMMA LegalRefusal ==
  ASSUME NEW q \in Refusal, NEW bye \in BOOLEAN, NEW fbu \in BOOLEAN
  PROVE  q \in Seq(Legal(bye, fbu))
<1>1. PICK n \in PayloadLens : q = << Field("length", 4, n) >> \o Data(n)
  BY DEF Refusal
<1>2. n \in Nat /\ "length" \in FieldKinds \ {"ext", "fb", "rect"}
  BY VncAssumption DEF FieldKinds
<1> QED  BY <1>1, <1>2, LegalPlain, LegalData, LegalJoin

LEMMA LeadsSecurity ==
  ASSUME NEW ver, NEW s, NEW n \in {1, 2}, NEW t \in {0, 1}
  PROVE  Leads(ver, At("secnum", s), << Field("secnum", 1, n), Field("sectypes", n, t) >>,
               IF t = 0 THEN Ended ELSE At(IF ver = 8 THEN "result" ELSE "init", s))
<1> DEFINE a == At("secnum", s)
           b == Body("sectypes", n, s)
           c == IF t = 0 THEN Ended ELSE At(IF ver = 8 THEN "result" ELSE "init", s)
           f == Field("secnum", 1, n)
           g == Field("sectypes", n, t)
<1>1. f \in FieldSet /\ g \in FieldSet /\ f.v = n /\ g.v = t
  BY FieldType DEF FieldKinds
<1>2. Fits(a, f) /\ Fits(b, g)
  BY DEF Fits, Kind, Width, At, Body, Place, Field, Payloads
<1>3. After(ver, a, n) = b
  BY PlaceFields DEF After, At
<1>4. After(ver, b, t) = c
  BY PlaceFields DEF After, Body
<1>5. << f, g >> = << f >> \o << g >>
  OBVIOUS
<1> HIDE DEF a, b, c, f, g
<1>6. Leads(ver, b, << g >>, c) /\ << g >> \in Seq(FieldSet)
  BY <1>1, <1>2, <1>4, LeadsField
<1>7. Leads(ver, a, << f >> \o << g >>, c)
  BY <1>1, <1>2, <1>3, <1>6, LeadsFieldThen
<1> QED  BY <1>5, <1>7 DEF a, c, f, g

LEMMA LeadsRefused ==
  ASSUME NEW ver, NEW s, NEW q \in Refusal
  PROVE  Leads(ver, At("secnum", s), << Field("secnum", 1, 0) >> \o q, Ended)
<1> DEFINE f == Field("secnum", 1, 0)
           a == At("secnum", s)
<1>1. f \in FieldSet /\ f.v = 0
  BY FieldType DEF FieldKinds
<1>2. Fits(a, f) /\ After(ver, a, 0) = At("length", s)
  BY DEF Fits, Kind, Width, At, Place, Field, Payloads, After
<1>3. q \in Seq(FieldSet) /\ Leads(ver, At("length", s), q, Ended)
  BY LeadsRefusal
<1> HIDE DEF a, f
<1> QED  BY <1>1, <1>2, <1>3, LeadsFieldThen DEF a, f

LEMMA LeadsResult ==
  ASSUME NEW ver, NEW s
  PROVE  /\ Leads(ver, At("result", s), << Field("result", 4, 0) >>, At("init", s))
         /\ \A q \in Refusal :
              Leads(ver, At("result", s), << Field("result", 4, 1) >> \o q, Ended)
<1> DEFINE a == At("result", s)
<1>1. \A v \in Nat : Field("result", 4, v) \in FieldSet /\ Field("result", 4, v).v = v
                     /\ Fits(a, Field("result", 4, v))
  <2>1. \A v \in Nat : Field("result", 4, v) \in FieldSet /\ Field("result", 4, v).v = v
    BY FieldType DEF FieldKinds
  <2>2. \A v \in Nat : Fits(a, Field("result", 4, v))
    BY DEF Fits, Kind, Width, At, Place, Field, Payloads
  <2> QED  BY <2>1, <2>2
<1>2. /\ \A v : HostOrder(v) = 0 => After(ver, a, v) = At("init", s)
      /\ \A v : HostOrder(v) # 0 => After(ver, a, v) = At("length", s) \/ After(ver, a, v) = Ended
  <2>1. a.pc = "result" /\ a.size = s
    BY PlaceFields DEF At
  <2> HIDE DEF a
  <2>2. \A v : After(ver, a, v) = IF HostOrder(v) = 0 THEN At("init", a.size)
                                  ELSE IF HostOrder(v) = 1 THEN At("length", a.size) ELSE Ended
    BY <2>1 DEF After
  <2> QED  BY <2>1, <2>2
<1> HIDE DEF a
<1>3. Leads(ver, a, << Field("result", 4, 0) >>, At("init", s))
  BY <1>1, <1>2, HostOrderType, LeadsField
<1>4. ASSUME NEW q \in Refusal
      PROVE  Leads(ver, a, << Field("result", 4, 1) >> \o q, Ended)
  <2> DEFINE f == Field("result", 4, 1)
  <2>1. f \in FieldSet /\ f.v = 1 /\ Fits(a, f)
    BY <1>1
  <2>2. q \in Seq(FieldSet) /\ Leads(ver, At("length", s), q, Ended)
    BY LeadsRefusal
  <2>3. Leads(ver, Ended, q, Ended)
    BY <2>2, LeadsEnded
  <2>4. After(ver, a, 1) = At("length", s) \/ After(ver, a, 1) = Ended
    BY <1>2, HostOrderType
  <2> HIDE DEF f
  <2> QED  BY <2>1, <2>2, <2>3, <2>4, LeadsFieldThen DEF f
<1> QED  BY <1>3, <1>4 DEF a

LEMMA LeadsInit ==
  ASSUME NEW ver, NEW s, NEW d \in Nat \X Nat, NEW n \in Nat, NEW bye \in BOOLEAN, NEW fbu \in BOOLEAN
  PROVE  LET fs == << Field("init", 24, [w |-> d[1], h |-> d[2], name |-> n]) >> \o Data(n)
         IN  fs \in Seq(Legal(bye, fbu)) /\ Leads(ver, At("init", s), fs, At("type", d))
<1> DEFINE v == [w |-> d[1], h |-> d[2], name |-> n]
           a == At("init", s)
           x == Body("name", n, d)
           f == Field("init", 24, v)
           t == Data(n)
<1>1. v \in Inits /\ v.name = n /\ <<v.w, v.h>> = d
  BY DEF Inits
<1> HIDE DEF v
<1>2. f \in FieldSet /\ f.v = v /\ << f >> \in Seq(Legal(bye, fbu))
  <2>1. "init" \in FieldKinds \ {"ext", "fb", "rect"}
    BY DEF FieldKinds
  <2>2. << f >> \in Seq(Legal(bye, fbu))
    BY <1>1, <2>1, LegalPlain
  <2>3. v \in Nat \cup Inits \cup Exts \cup Rects
    BY <1>1
  <2> QED  BY <2>1, <2>2, <2>3, FieldType
<1>3. t \in Seq(FieldSet) /\ t \in Seq(Legal(bye, fbu))
  BY DataType, LegalData
<1>4. Fits(a, f)
  BY DEF Fits, Kind, Width, At, Place, Field, Payloads
<1>5. After(ver, a, v) = Settle(x)
  BY <1>1, PlaceFields DEF After, At
<1>6. x.pc \in Payloads /\ x.need = n /\ x.pc = "name" /\ x.size = d
  BY PlaceFields DEF Payloads, Body
<1> HIDE DEF a, x, f
<1>7. Past(x) = At("type", d)
  BY <1>6 DEF Past
<1>8. Leads(ver, Settle(x), t, At("type", d))
  BY <1>6, <1>7, LeadsData
<1> HIDE DEF t
<1>9. Leads(ver, a, << f >> \o t, At("type", d))
  BY <1>2, <1>3, <1>4, <1>5, <1>8, LeadsFieldThen
<1>10. << f >> \o t \in Seq(Legal(bye, fbu))
  BY <1>2, <1>3, LegalJoin
<1> QED  BY <1>9, <1>10 DEF a, f, t, v

-----------------------------------------------------------------------------
(* Where the client will be when it has read everything that the server    *)
(* has sent and will send for the message it is in the middle of.          *)
Expected ==
  CASE srv = "version"  -> At("secnum", <<0, 0>>)
    [] srv = "security" -> At(IF version = 8 THEN "result" ELSE "init", <<0, 0>>)
    [] srv = "init"     -> At("init", <<0, 0>>)
    [] OTHER            -> AtRect(srvSize, srvLeft)

EndOk(b) == b = Ended \/ (srv # "done" /\ b = Expected)

Starting ==
  /\ eof => closed
  /\ pc = "version" => sent = << >> /\ srv = "version" /\ Len(s2c) <= 1
  /\ pc = "sectypes" => need > 0
  /\ srv \in {"version", "security", "init"} => srvLeft = 0 /\ srvSize = <<0, 0>>

(* What the server reads of the client's messages in a step. *)
Takes ==
  \/ Receives("request") /\ srvReq' = srvReq + 1
  \/ (\E m \in DOMAIN Rank \ {"request"} : Receives(m)) /\ srvReq' = srvReq
  \/ UNCHANGED <<srvPos, srvReq>>

(* The fields fs that a step of the strict server adds to the stream.      *)
Sends(fs) ==
  /\ Send(fs)
  /\ \/ fs \in Seq(Legal(srvBye', FALSE)) /\ Takes
     \/ /\ fs = FbHeader(srvLeft') /\ srvLeft' \in Nat \ {0}
        /\ srvReq > 0 /\ srvReq' = srvReq - 1 /\ srvPos' = srvPos
  /\ srv # "done" => \E c : Leads(version, Expected, fs, c) /\ EndOk(c)'

LEMMA SecuritySends ==
  ASSUME TypeInv, Starting, SrvSecurity, version' = version
  PROVE  \E fs : Sends(fs)
<1>1. srv = "version" /\ Takes /\ srvBye' \in BOOLEAN
  BY RankDomain DEF SrvSecurity, Takes, TypeInv, Flags
<1>2. Expected = At("secnum", <<0, 0>>)
  BY <1>1 DEF Expected
<1>3. ASSUME NEW n \in {1, 2}, NEW t \in {0, 1}, srv' = "security",
             Send(<< Field("secnum", 1, n), Field("sectypes", n, t) >>)
      PROVE  \E fs : Sends(fs)
  <2> DEFINE fs == << Field("secnum", 1, n), Field("sectypes", n, t) >>
             c  == IF t = 0 THEN Ended ELSE At(IF version = 8 THEN "result" ELSE "init", <<0, 0>>)
  <2>1. Leads(version, Expected, fs, c)
    BY <1>2, LeadsSecurity
  <2>2. Expected' = At(IF version = 8 THEN "result" ELSE "init", <<0, 0>>)
    BY <1>3 DEF Expected
  <2>3. \A d : d = c => EndOk(d)'
    BY <1>3, <2>2 DEF EndOk
  <2>4. fs \in Seq(Legal(srvBye', FALSE))
    <3>1. /\ << Field("secnum", 1, n) >> \in Seq(Legal(srvBye', FALSE))
          /\ << Field("sectypes", n, t) >> \in Seq(Legal(srvBye', FALSE))
      <4>1. {"secnum", "sectypes"} \subseteq FieldKinds \ {"ext", "fb", "rect"}
        BY DEF FieldKinds
      <4>2. n \in Nat /\ t \in Nat \cup Inits
        OBVIOUS
      <4> QED  BY <1>1, <4>1, <4>2, LegalPlain
    <3>2. fs = << Field("secnum", 1, n) >> \o << Field("sectypes", n, t) >>
      OBVIOUS
    <3> QED  BY <3>1, <3>2, LegalJoin
  <2> HIDE DEF fs, c
  <2>5. Sends(fs)
    BY <1>1, <1>3, <2>1, <2>3, <2>4 DEF Sends, fs
  <2> QED  BY <2>5
<1>4. ASSUME NEW q \in Refusal, srv' = "done", Send(<< Field("secnum", 1, 0) >> \o q)
      PROVE  \E fs : Sends(fs)
  <2> DEFINE fs == << Field("secnum", 1, 0) >> \o q
  <2>1. Leads(version, Expected, fs, Ended)
    BY <1>2, LeadsRefused
  <2>2. EndOk(Ended)'
    BY DEF EndOk, Ended, At, Place
  <2>3. fs \in Seq(Legal(srvBye', FALSE))
    <3>1. << Field("secnum", 1, 0) >> \in Seq(Legal(srvBye', FALSE))
      BY <1>1, LegalPlain DEF FieldKinds
    <3>2. q \in Seq(Legal(srvBye', FALSE))
      BY <1>1, LegalRefusal
    <3> QED  BY <3>1, <3>2, LegalJoin
  <2> HIDE DEF fs
  <2>4. Sends(fs)
    BY <1>1, <1>4, <2>1, <2>2, <2>3 DEF Sends, fs
  <2> QED  BY <2>4
<1> QED  BY <1>3, <1>4 DEF SrvSecurity

LEMMA ResultSends ==
  ASSUME TypeInv, Starting, SrvResult, version' = version
  PROVE  \E fs : Sends(fs)
<1>1. srv = "security" /\ Takes /\ srvBye' \in BOOLEAN
  BY RankDomain DEF SrvResult, Takes, TypeInv, Flags
<1>2. Expected = At(IF version = 8 THEN "result" ELSE "init", <<0, 0>>)
  BY <1>1 DEF Expected
<1>3. ASSUME srv' = "init", version = 8, Send(<< Field("result", 4, 0) >>)
      PROVE  Sends(<< Field("result", 4, 0) >>)
  <2>1. Leads(version, Expected, << Field("result", 4, 0) >>, At("init", <<0, 0>>))
    BY <1>2, <1>3, LeadsResult
  <2>2. EndOk(At("init", <<0, 0>>))'
    BY <1>3 DEF EndOk, Expected
  <2>3. << Field("result", 4, 0) >> \in Seq(Legal(srvBye', FALSE))
    BY <1>1, LegalPlain DEF FieldKinds
  <2> QED  BY <1>1, <1>3, <2>1, <2>2, <2>3 DEF Sends
<1>4. ASSUME srv' = "init", version # 8, Send(<< >>)
      PROVE  Sends(<< >>)
  <2>1. Leads(version, Expected, << >>, Expected) /\ Expected = At("init", <<0, 0>>)
    BY <1>2, <1>4, LeadsNowhere
  <2>2. EndOk(At("init", <<0, 0>>))'
    BY <1>4 DEF EndOk, Expected
  <2>3. << >> \in Seq(Legal(srvBye', FALSE))
    OBVIOUS
  <2> QED  BY <1>1, <1>4, <2>1, <2>2, <2>3 DEF Sends
<1>5. ASSUME NEW q \in Refusal, version = 8, srv' = "done", Send(<< Field("result", 4, 1) >> \o q)
      PROVE  \E fs : Sends(fs)
  <2> DEFINE fs == << Field("result", 4, 1) >> \o q
  <2>1. Leads(version, Expected, fs, Ended)
    BY <1>2, <1>5, LeadsResult
  <2>2. EndOk(Ended)'
    BY DEF EndOk, Ended, At, Place
  <2>3. fs \in Seq(Legal(srvBye', FALSE))
    <3>1. << Field("result", 4, 1) >> \in Seq(Legal(srvBye', FALSE))
      BY <1>1, LegalPlain DEF FieldKinds
    <3>2. q \in Seq(Legal(srvBye', FALSE))
      BY <1>1, LegalRefusal
    <3> QED  BY <3>1, <3>2, LegalJoin
  <2> HIDE DEF fs
  <2>4. Sends(fs)
    BY <1>1, <1>5, <2>1, <2>2, <2>3 DEF Sends, fs
  <2> QED  BY <2>4
<1>6. \/ srv' = "init" /\ Send(IF version = 8 THEN << Field("result", 4, 0) >> ELSE << >>)
      \/ /\ version = 8 /\ srv' = "done"
         /\ \E q \in Refusal : Send(<< Field("result", 4, 1) >> \o q)
  BY DEF SrvResult
<1>7. CASE version = 8
  BY <1>3, <1>5, <1>6, <1>7
<1>8. CASE version # 8
  BY <1>4, <1>6, <1>8
<1> QED  BY <1>7, <1>8

LEMMA InitSends ==
  ASSUME TypeInv, Starting, SrvInit, version' = version
  PROVE  \E fs : Sends(fs)
<1>1. /\ srv = "init" /\ srv' = "open" /\ srvLeft' = 0 /\ Takes /\ srvBye' \in BOOLEAN
      /\ srvSize' \in Nat \X Nat
  BY RankDomain, VncAssumption DEF SrvInit, Takes, TypeInv, Flags, Starting
<1>2. PICK n \in PayloadLens :
        Send(<< Field("init", 24, [w |-> srvSize'[1], h |-> srvSize'[2], name |-> n]) >> \o Data(n))
  BY DEF SrvInit
<1> DEFINE fs == << Field("init", 24, [w |-> srvSize'[1], h |-> srvSize'[2], name |-> n]) >> \o Data(n)
<1>3. n \in Nat
  BY VncAssumption
<1>4. Expected = At("init", <<0, 0>>)
  BY <1>1 DEF Expected
<1>5. fs \in Seq(Legal(srvBye', FALSE)) /\ Leads(version, Expected, fs, At("type", srvSize'))
  BY <1>1, <1>3, <1>4, LeadsInit
<1>6. EndOk(At("type", srvSize))'
  BY <1>1 DEF EndOk, Expected, AtRect
<1> HIDE DEF fs
<1>7. Sends(fs)
  BY <1>1, <1>2, <1>5, <1>6 DEF Sends, fs
<1> QED  BY <1>7

(* A server that has introduced itself, between messages or in an update.  *)
Open == {"open", "display", "sentdisplay", "event", "run"}

LEMMA ReceiveSends ==
  ASSUME Strict = TRUE, TypeInv, Starting, s2c \in Seq(FieldSet), SrvReceive,
         ~Receives("byebye"), version' = version
  PROVE  Sends(<< >>)
<1>1. /\ UNCHANGED <<s2c, srvSize, srvLeft>> /\ Takes
      /\ srv' = srv \/ (srv \in Open /\ srv' \in Open)
  BY RankDomain DEF SrvReceive, Takes, Open
<1>2. Expected' = Expected
  BY <1>1 DEF Expected, Open
<1>3. EndOk(Expected)' \/ srv = "done"
  BY <1>1, <1>2 DEF EndOk, Open
<1>4. Leads(version, Expected, << >>, Expected)
  BY LeadsNowhere
<1>5. Send(<< >>)
  <2>1. s2c \o << >> = s2c
    BY ConcatEmptySeq
  <2> QED  BY <1>1, <2>1 DEF Send
<1>6. << >> \in Seq(Legal(srvBye', FALSE))
  OBVIOUS
<1> QED  BY <1>1, <1>2, <1>3, <1>4, <1>5, <1>6 DEF Sends

(* A message that leaves the client where it found it. *)
LEMMA MessageSent ==
  ASSUME TypeInv, NEW fs, Send(fs), fs \in Seq(Legal(srvBye', FALSE)),
         UNCHANGED <<srvPos, srvReq, srvSize, srvLeft, version>>,
         srv \in Open, srv' \in Open, srvLeft = 0,
         Leads(version, At("type", srvSize), fs, At("type", srvSize))
  PROVE  Sends(fs)
<1>1. Expected = At("type", srvSize) /\ Expected' = At("type", srvSize)
  <2>1. Expected = AtRect(srvSize, srvLeft) /\ Expected' = AtRect(srvSize', srvLeft')
    BY DEF Expected, Open
  <2> QED  BY <2>1 DEF AtRect
<1>2. \A d : d = Expected => EndOk(d)'
  BY <1>1 DEF EndOk, Open
<1>3. Takes
  BY DEF Takes
<1> QED  BY <1>1, <1>2, <1>3 DEF Sends

LEMMA LensRoomy ==
  ASSUME Strict = TRUE
  PROVE  \A e \in {1, 3} : \A n \in Lens(e) : n \in Nat /\ Roomy(e, n)
BY VncAssumption DEF Lens, Roomy

LEMMA ConfigureSends ==
  ASSUME Strict = TRUE, TypeInv, Starting, SrvConfigure, version' = version
  PROVE  \E fs : Sends(fs)
<1>1. /\ UNCHANGED <<srvPos, srvReq, srvSize, srvLeft>> /\ srv \in Open /\ srv' \in Open
      /\ srvLeft = 0 /\ srvBye' \in BOOLEAN
  BY DEF SrvConfigure, Open, TypeInv, Flags
<1>2. PICK e \in {1, 3} : \E n \in Lens(e) : Send(Ext(e, n))
  BY DEF SrvConfigure
<1>a. PICK n \in Lens(e) : Send(Ext(e, n))
  BY <1>2
<1> DEFINE fs == Ext(e, n)
<1>3. n \in Nat /\ e \in ExtTypes /\ e # 0 /\ Roomy(e, n)
  BY LensRoomy DEF ExtTypes
<1>4. fs \in Seq(Legal(srvBye', FALSE))
  BY <1>1, <1>3, LegalExt
<1>5. Leads(version, At("type", srvSize), fs, At("type", srvSize))
  BY <1>3, LeadsExt
<1>6. Send(fs)
  BY <1>a
<1> HIDE DEF fs
<1>7. Sends(fs)
  BY <1>1, <1>4, <1>5, <1>6, MessageSent
<1> QED  BY <1>7

LEMMA MessageSends ==
  ASSUME Strict = TRUE, TypeInv, Starting, SrvMessage, version' = version
  PROVE  \E fs : Sends(fs)
<1>1. /\ UNCHANGED <<srvPos, srvSize, srv>> /\ srv \in Open /\ srvLeft = 0
      /\ srvBye' \in BOOLEAN /\ srvReq \in Nat
  BY DEF SrvMessage, Open, TypeInv, Flags, ServerType
<1>2. /\ PayloadLens \subseteq Nat /\ Repeatable \subseteq {1, 3} /\ MaxRects \in Nat
  BY VncAssumption DEF Repeatable
<1>3. Expected = At("type", srvSize)
  BY <1>1 DEF Expected, Open, AtRect
<1>4. ASSUME NEW fs, Send(fs), UNCHANGED <<srvReq, srvLeft>>,
             fs \in Seq(Legal(srvBye', FALSE)),
             Leads(version, At("type", srvSize), fs, At("type", srvSize))
      PROVE  \E gs : Sends(gs)
  <2>1. Sends(fs)
    BY <1>1, <1>4, MessageSent
  <2> QED  BY <2>1
<1>5. ASSUME Send(Ext(0, 0)), srvBye' = TRUE, UNCHANGED <<srvReq, srvLeft>>
      PROVE  Sends(Ext(0, 0))
  <2>1. 0 \in ExtTypes
    BY DEF ExtTypes
  <2>2. Ext(0, 0) \in Seq(Legal(srvBye', FALSE))
    <3>1. Roomy(0, 0) /\ 0 \in Nat
      BY DEF Roomy
    <3> QED  BY <1>5, <2>1, <3>1, LegalExt
  <2>3. Leads(version, Expected, Ext(0, 0), Ended)
    BY <1>3, <2>1, LeadsExt
  <2>4. EndOk(Ended)'
    BY DEF EndOk, Ended, At, Place
  <2>5. Takes
    BY <1>1, <1>5 DEF Takes
  <2> QED  BY <1>5, <2>2, <2>3, <2>4, <2>5 DEF Sends
<1>6. ASSUME srvReq > 0, srvLeft' \in 1..MaxRects, Send(FbHeader(srvLeft')),
             srvReq' = IF srvReq > 0 THEN srvReq - 1 ELSE 0
      PROVE  \E fs : Sends(fs)
  <2> DEFINE fs == FbHeader(srvLeft')
  <2>1. srvLeft' \in Nat \ {0} /\ srvReq' = srvReq - 1
    BY <1>2, <1>6
  <2>2. Leads(version, Expected, fs, AtRect(srvSize, srvLeft'))
    BY <1>3, <2>1, LeadsFbHeader
  <2>3. \A d : d = AtRect(srvSize, srvLeft') => EndOk(d)'
    BY <1>1 DEF EndOk, Expected, Open
  <2> HIDE DEF fs
  <2>4. Sends(fs)
    BY <1>1, <1>6, <2>1, <2>2, <2>3 DEF Sends, fs
  <2> QED  BY <2>4
<1>7. \/ /\ \/ Send(MsgType(2))
            \/ \E n \in PayloadLens : Send(Cut(n)) \/ Send(Ext(5, n))
            \/ \E e \in Repeatable : \E n \in Lens(e) : Send(Ext(e, n))
         /\ UNCHANGED <<srvReq, srvLeft, srvBye>>
      \/ Send(Ext(0, 0)) /\ srvBye' = TRUE /\ UNCHANGED <<srvReq, srvLeft>>
      \/ /\ srvReq > 0 /\ srvLeft' \in 1..MaxRects
         /\ Send(FbHeader(srvLeft'))
         /\ srvReq' = IF srvReq > 0 THEN srvReq - 1 ELSE 0
  BY DEF SrvMessage
<1>8. CASE /\ \/ Send(MsgType(2))
              \/ \E n \in PayloadLens : Send(Cut(n)) \/ Send(Ext(5, n))
              \/ \E e \in Repeatable : \E n \in Lens(e) : Send(Ext(e, n))
           /\ UNCHANGED <<srvReq, srvLeft, srvBye>>
  <2>1. CASE Send(MsgType(2))
    <3> DEFINE fs == MsgType(2)
    <3>1. 0 \in Nat
      OBVIOUS
    <3>2. fs \in Seq(Legal(srvBye', FALSE))
      BY <1>1, <3>1, LegalMessages
    <3>3. Leads(version, At("type", srvSize), fs, At("type", srvSize))
      BY LeadsBell
    <3> QED  BY <1>4, <1>8, <2>1, <3>2, <3>3
  <2>2. ASSUME NEW n \in PayloadLens, Send(Cut(n)) PROVE \E fs : Sends(fs)
    <3>1. n \in Nat
      BY <1>2
    <3>2. Cut(n) \in Seq(Legal(srvBye', FALSE))
      BY <1>1, <3>1, LegalMessages
    <3>3. Leads(version, At("type", srvSize), Cut(n), At("type", srvSize))
      BY <3>1, LeadsCut
    <3> QED  BY <1>4, <1>8, <2>2, <3>2, <3>3
  <2>3. ASSUME NEW e \in {1, 3, 5}, NEW n \in Nat, Roomy(e, n), Send(Ext(e, n))
        PROVE  \E fs : Sends(fs)
    <3>1. e \in ExtTypes /\ e # 0
      BY DEF ExtTypes
    <3>2. Ext(e, n) \in Seq(Legal(srvBye', FALSE))
      BY <1>1, <2>3, <3>1, LegalExt
    <3>3. Leads(version, At("type", srvSize), Ext(e, n), At("type", srvSize))
      BY <2>3, <3>1, LeadsExt
    <3> QED  BY <1>4, <1>8, <2>3, <3>2, <3>3
  <2>4. \/ Send(MsgType(2)) \/ \E n \in PayloadLens : Send(Cut(n))
        \/ \E e \in {1, 3, 5}, n \in Nat : Roomy(e, n) /\ Send(Ext(e, n))
    <3>1. \A e \in Repeatable : e \in {1, 3, 5} /\ \A n \in Lens(e) : n \in Nat /\ Roomy(e, n)
      BY <1>2, LensRoomy
    <3>2. \A n \in PayloadLens : n \in Nat /\ Roomy(5, n)
      BY <1>2 DEF Roomy
    <3>3. 5 \in {1, 3, 5}
      OBVIOUS
    <3> QED  BY <1>8, <3>1, <3>2, <3>3, Zenon
  <2> QED  BY <2>1, <2>2, <2>3, <2>4
<1> QED  BY <1>5, <1>6, <1>7, <1>8

LEMMA RectSends ==
  ASSUME Strict = TRUE, TypeInv, Starting, SrvRect, version' = version, ~lowRle'
  PROVE  \E fs : Sends(fs)
<1>1. /\ UNCHANGED <<srv, srvPos, srvReq>> /\ srvLeft \in Nat /\ srvLeft > 0 /\ srvLeft' = srvLeft - 1
      /\ srvSize \in Nat \X Nat /\ srvBye' \in BOOLEAN
      /\ srv \notin {"version", "security", "init"}
  BY VncAssumption DEF SrvRect, TypeInv, ServerType, Flags, Starting
<1>2. PICK q \in Any("rect"), m \in PayloadLens :
        /\ Proper(q) /\ Send(RectFields(q, m))
        /\ srvSize' = IF q.e = "desktopsize" THEN <<q.w, q.h>> ELSE srvSize
        /\ lowRle' = (lowRle \/ (q.e = "rle" /\ q.h # srvSize[2]))
  BY DEF SrvRect
<1>a. ~(q.e = "rle" /\ q.h # srvSize[2])
  BY <1>2, Zenon
<1> DEFINE fs == RectFields(q, m)
<1>3. q \in Rects /\ m \in Nat
  BY SeenTypes, VncAssumption DEF Seen
<1>4. fs \in Seq(Legal(srvBye', FALSE))
  BY <1>1, <1>2, <1>3, LegalRect DEF Proper
<1>5. Expected = AtRect(srvSize, srvLeft)
  BY <1>1 DEF Expected
<1>6. Leads(version, Expected, fs, AtRect(srvSize', srvLeft'))
  <2>1. /\ q.e \in {"raw", "rle"} => q.x + q.w <= srvSize[1] /\ q.y + q.h <= srvSize[2] /\ q.w > 0 /\ q.h > 0
        /\ q.e = "rle" => q.h = srvSize[2]
        /\ q.e # "other"
    BY <1>2, <1>a DEF Proper
  <2>2. Leads(version, AtRect(srvSize, srvLeft), fs,
              AtRect(IF q.e = "desktopsize" THEN <<q.w, q.h>> ELSE srvSize, srvLeft - 1))
    BY <1>1, <1>3, <2>1, LeadsRect
  <2> HIDE DEF fs
  <2> QED  BY <1>1, <1>2, <1>5, <2>2
<1>7. \A d : srv # "done" /\ d = AtRect(srvSize', srvLeft') => EndOk(d)'
  BY <1>1 DEF EndOk, Expected
<1>8. Takes
  BY <1>1 DEF Takes
<1>9. Send(fs)
  BY <1>2
<1> HIDE DEF fs
<1>10. Sends(fs)
  BY <1>4, <1>6, <1>7, <1>8, <1>9 DEF Sends
<1> QED  BY <1>10

LEMMA ServerSends ==
  ASSUME Strict = TRUE, TypeInv, Starting, s2c \in Seq(FieldSet), Server, ~Receives("byebye"),
         ~lowRle'
  PROVE  \E fs : Sends(fs)
<1>1. version' = version
  BY DEF Server, client
<1> QED
  BY <1>1, SecuritySends, ResultSends, InitSends, ReceiveSends, ConfigureSends, MessageSends,
     RectSends DEF Server

-----------------------------------------------------------------------------
(* The invariant: what is in the stream leads the client from where it     *)
(* stands to where the server expects it; after a close, the fields that   *)
(* arrived are the first of such a path, the last one perhaps incomplete.  *)

CutOf(s, t) ==
  /\ Len(s) = Len(t)
  /\ \A i \in 1..Len(s) : \/ s[i] = t[i]
                          \/ i = Len(s) /\ s[i].f = t[i].f /\ s[i].n < t[i].n

OnPath(t, b) ==
  /\ t \in Seq(FieldSet) /\ Leads(version, Settle(Now), t, b)
  /\ CutOf(s2c, t)
  /\ ~closed => s2c = t /\ EndOk(b)

StreamInv == synced /\ ~eof /\ pc # "ended" => \E t, b : OnPath(t, b)

Boundary == synced \/ pc = "ended"

(* A configuration that is awaited at a field boundary fits its record, so *)
(* that neither session->status nor the stack is overwritten.              *)
Calm == pc # "crashed" /\ (pc = "extbody" /\ synced => Roomy(etype, need))

FieldsInv == s2c \in Seq(Legal(srvBye, TRUE))

LEMMA FieldsType == TypeInv /\ FieldsInv => s2c \in Seq(FieldSet)
  BY LegalWidens DEF FieldsInv, TypeInv, Flags

LEMMA WidthPositive ==
  ASSUME TypeInv, Starting, pc \notin {"ended", "reason", "crashed"}
  PROVE  /\ Width(Now) \in Nat
         /\ Width(Now) = 0 => pc \in Payloads /\ need = 0
         /\ Width(Now) > 0 => Settle(Now) = Now
         /\ Width(Now) = 0 => Settle(Now) = After(version, Now, 0)
<1>1. need \in Nat /\ pc \in Pcs /\ (pc = "sectypes" => need > 0)
  BY DEF TypeInv, ClientInv, ClientType, Starting
<1>2. Width(Now) \in Nat /\ (Width(Now) = 0 => pc \in Payloads /\ need = 0)
  <2>1. CASE pc \in Payloads
    BY <1>1, <2>1, Asked
  <2>2. CASE pc \notin Payloads
    BY <1>1, <2>2, Asked DEF Pcs, Payloads
  <2> QED  BY <2>1, <2>2
<1>3. Width(Now) > 0 => Settle(Now) = Now
  <2>1. CASE pc \in Payloads
    BY <1>1, <2>1, Asked DEF Settle
  <2>2. CASE pc \notin Payloads
    BY <2>2, Asked, Resting
  <2> QED  BY <2>1, <2>2
<1>4. Width(Now) = 0 => Settle(Now) = After(version, Now, 0)
  <2> SUFFICES ASSUME Width(Now) = 0 PROVE Settle(Now) = After(version, Now, 0)
    OBVIOUS
  <2>1. pc \in Payloads /\ Now.need = 0 /\ Now.pc = pc
    BY <1>2, Asked
  <2>2. Settle(Now) = Past(Now)
    BY <2>1 DEF Settle
  <2>3. After(version, Now, 0) = Past(Now)
    BY <2>1 DEF After, Payloads
  <2> QED  BY <2>2, <2>3
<1> QED  BY <1>2, <1>3, <1>4

(* Of a read at a field boundary, where the stream leads the client on.    *)
LEMMA HeadFits ==
  ASSUME TypeInv, Starting, FieldsInv, pc \notin {"ended", "reason", "crashed"}, Width(Now) > 0,
         NEW t \in Seq(FieldSet), NEW b, OnPath(t, b), s2c # << >>
  PROVE  /\ t # << >> /\ Head(s2c) = s2c[1]
         /\ t[1].f = Kind(Now) /\ t[1].n = Width(Now)
         /\ \/ s2c[1] = t[1]
            \/ Len(s2c) = 1 /\ s2c[1].f = Kind(Now) /\ s2c[1].n < Width(Now)
         /\ Leads(version, After(version, Now, t[1].v), Tail(t), b)
<1>1. s2c \in Seq(FieldSet) /\ Len(s2c) \in Nat /\ Len(s2c) > 0 /\ Head(s2c) = s2c[1]
  BY FieldsType
<1>2. Len(t) = Len(s2c) /\ 1 \in 1..Len(s2c)
  BY <1>1 DEF OnPath, CutOf
<1>3. \/ s2c[1] = t[1]
      \/ Len(s2c) = 1 /\ s2c[1].f = t[1].f /\ s2c[1].n < t[1].n
  BY <1>1, <1>2 DEF OnPath, CutOf
<1>4. t # << >>
  BY <1>1, <1>2
<1>5. Leads(version, Now, t, b)
  BY WidthPositive DEF OnPath
<1>6. Fits(Now, t[1]) /\ Leads(version, After(version, Now, t[1].v), Tail(t), b)
  BY <1>4, <1>5, LeadsHead
<1>7. t[1].f = Kind(Now) /\ t[1].n = Width(Now)
  BY <1>6, Asked DEF Fits
<1> QED  BY <1>1, <1>3, <1>4, <1>6, <1>7

LEMMA TailCut ==
  ASSUME NEW s \in Seq(FieldSet), NEW t \in Seq(FieldSet), s # << >>, CutOf(s, t)
  PROVE  CutOf(Tail(s), Tail(t)) /\ Tail(s) \in Seq(FieldSet) /\ Tail(t) \in Seq(FieldSet)
<1>1. Len(s) \in Nat /\ Len(s) > 0 /\ Len(t) = Len(s) /\ t # << >>
  BY DEF CutOf
<1> DEFINE u == Tail(s)
           w == Tail(t)
<1>2. /\ u \in Seq(FieldSet) /\ w \in Seq(FieldSet) /\ Len(u) = Len(s) - 1 /\ Len(w) = Len(s) - 1
      /\ \A i \in 1..Len(s) - 1 : u[i] = s[i + 1] /\ w[i] = t[i + 1]
  BY <1>1
<1> HIDE DEF u, w
<1>3. ASSUME NEW i \in 1..Len(u)
      PROVE  u[i] = w[i] \/ (i = Len(u) /\ u[i].f = w[i].f /\ u[i].n < w[i].n)
  <2>1. i + 1 \in 1..Len(s) /\ i \in 1..Len(s) - 1 /\ (i + 1 = Len(s) <=> i = Len(u))
    BY <1>1, <1>2
  <2>2. u[i] = s[i + 1] /\ w[i] = t[i + 1]
    BY <1>2, <2>1
  <2>3. s[i + 1] = t[i + 1] \/ (i + 1 = Len(s) /\ s[i + 1].f = t[i + 1].f /\ s[i + 1].n < t[i + 1].n)
    BY <2>1 DEF CutOf
  <2> QED  BY <2>1, <2>2, <2>3
<1>4. CutOf(u, w)
  BY <1>2, <1>3 DEF CutOf
<1> QED  BY <1>2, <1>4 DEF u, w

(* A step of the client from one field boundary to the next.               *)
LEMMA StreamClient ==
  ASSUME Strict = TRUE, ShortReads = FALSE, TypeInv, Starting, FieldsInv, StreamInv, synced, ~eof,
         pc' \notin {"ended", "crashed"}, Client
  PROVE  synced' = TRUE /\ StreamInv'
<1>1. PICK v : Moved(v)
  BY ClientParses DEF TypeInv
<1>2. /\ Read(Kind(Now), Width(Now), v) /\ Settle(Now') = After(version, Now, v)
      /\ pc \notin {"ended", "reason", "crashed"} /\ (pc = "version" \/ version' = version)
      /\ UNCHANGED <<closed, server>>
  BY <1>1, ClientReads DEF Moved
<1>3. PICK t, b : OnPath(t, b)
  BY <1>2 DEF StreamInv
<1>4. t \in Seq(FieldSet)
  BY <1>3 DEF OnPath
<1>5. s2c \in Seq(FieldSet) /\ Width(Now) \in Nat /\ (Width(Now) = 0 => Settle(Now) = After(version, Now, 0))
  BY <1>2, FieldsType, WidthPositive
<1>6. EndOk(b) => EndOk(b)'
  BY <1>2 DEF EndOk, Expected, Starting, server
<1>7. CASE Width(Now) = 0
  <2>1. v = 0 /\ UNCHANGED stream
    BY <1>2, <1>7 DEF Read
  <2>2. pc # "version"
    BY <1>2, <1>7, WidthPositive DEF Payloads
  <2>3. Leads(version', Settle(Now'), t, b)
    BY <1>2, <1>3, <1>5, <1>7, <2>1, <2>2 DEF OnPath
  <2>4. OnPath(t, b)'
    BY <1>2, <1>3, <1>6, <2>1, <2>3 DEF OnPath, stream, CutOf
  <2> QED  BY <2>1, <2>4 DEF StreamInv, stream, TypeInv, Flags
<1>8. CASE /\ Width(Now) > 0 /\ AtField(Kind(Now), Width(Now))
           /\ v = Head(s2c).v /\ s2c' = Tail(s2c) /\ UNCHANGED <<synced, eof, garbled>>
  <2>1. s2c # << >>
    BY <1>8 DEF AtField
  <2>2. /\ t # << >> /\ s2c[1] = t[1] /\ v = t[1].v
        /\ Leads(version, After(version, Now, v), Tail(t), b)
    <3>1. Head(s2c) = s2c[1] /\ s2c[1].n = Width(Now) /\ v = s2c[1].v
      BY <1>2, <1>3, <1>4, <1>8, <2>1, HeadFits DEF AtField
    <3>2. ~(s2c[1].n < Width(Now))
      BY <1>5, <3>1
    <3> QED  BY <1>2, <1>3, <1>4, <1>8, <2>1, <3>1, <3>2, HeadFits
  <2>3. CutOf(s2c', Tail(t)) /\ Tail(t) \in Seq(FieldSet)
    BY <1>3, <1>4, <1>5, <1>8, <2>1, TailCut DEF OnPath
  <2>4. Leads(version', Settle(Now'), Tail(t), b)
    <3>1. CASE pc = "version"
      <4>1. Len(s2c) <= 1 /\ Len(t) = Len(s2c)
        BY <1>3, <3>1 DEF Starting, OnPath, CutOf
      <4>2. Tail(t) = << >>
        BY <1>5, <2>2, <4>1
      <4>3. After(version, Now, v) = b
        BY <2>2, <4>2, LeadsStill
      <4> QED  BY <1>2, <4>2, <4>3, LeadsNowhere
    <3>2. CASE pc # "version"
      BY <1>2, <2>2, <3>2
    <3> QED  BY <3>1, <3>2
  <2>5. ~closed => s2c' = Tail(t)
    BY <1>3, <1>8 DEF OnPath
  <2>6. OnPath(Tail(t), b)'
    BY <1>2, <1>3, <1>6, <2>3, <2>4, <2>5 DEF OnPath, CutOf
  <2> QED  BY <1>8, <2>3, <2>6 DEF StreamInv, TypeInv, Flags
<1>9. CASE /\ Width(Now) > 0 /\ s2c # << >> /\ ~AtField(Kind(Now), Width(Now))
           /\ Width(Now) <= Head(s2c).n \/ Len(s2c) > 1
  <2>1. /\ Head(s2c) = s2c[1] /\ t[1].f = Kind(Now) /\ t[1].n = Width(Now)
        /\ \/ s2c[1] = t[1]
           \/ Len(s2c) = 1 /\ s2c[1].n < Width(Now)
    BY <1>2, <1>3, <1>4, <1>9, HeadFits
  <2>2. s2c[1] # t[1]
    BY <1>9, <2>1 DEF AtField
  <2>3. s2c[1].n \in Nat
    <3>1. s2c[1] \in FieldSet
      BY <1>5, <1>9
    <3> QED  BY <3>1 DEF FieldSet
  <2>4. Len(s2c) = 1 /\ s2c[1].n < Width(Now) /\ Width(Now) <= s2c[1].n
    <3>1. Len(s2c) = 1 /\ s2c[1].n < Width(Now)
      BY <2>1, <2>2
    <3>2. ~(Len(s2c) > 1)
      BY <3>1
    <3>3. Width(Now) <= Head(s2c).n
      BY <1>9, <3>2
    <3>4. Head(s2c) = s2c[1]
      BY <2>1
    <3> QED  BY <3>1, <3>3, <3>4, Zenon
  <2>5. FALSE
    BY <1>5, <2>3, <2>4
  <2> QED  BY <2>5
<1>10. CASE eof' = TRUE /\ UNCHANGED synced
  BY <1>10 DEF StreamInv, TypeInv, Flags
<1> QED
  <2>1. \/ Width(Now) = 0
        \/ /\ Width(Now) > 0 /\ AtField(Kind(Now), Width(Now))
           /\ v = Head(s2c).v /\ s2c' = Tail(s2c) /\ UNCHANGED <<synced, eof, garbled>>
        \/ /\ Width(Now) > 0 /\ s2c # << >> /\ ~AtField(Kind(Now), Width(Now))
           /\ Width(Now) <= Head(s2c).n \/ Len(s2c) > 1
        \/ eof' = TRUE /\ UNCHANGED synced
    BY <1>2 DEF Read
  <2> QED  BY <1>7, <1>8, <1>9, <1>10, <2>1

-----------------------------------------------------------------------------
(* The steps of the facts that the path rests on.                          *)

LEMMA ClientGoes ==
  ASSUME Client
  PROVE  pc' # "version" /\ (pc' = "sectypes" => need' > 0)
<1> USE DEF End, AwaitInit, NextMessage
<1>1. CASE ReadVersion
  BY <1>1 DEF ReadVersion
<1>2. CASE ReadSecNum
  BY <1>2, SeenTypes DEF ReadSecNum
<1>3. CASE ReadReasonLength \/ ReadReason \/ ReadSecTypes \/ ReadSecResult \/ ReadInit \/ ReadName
  BY <1>3 DEF ReadReasonLength, ReadReason, ReadSecTypes, ReadSecResult, ReadInit, ReadName
<1>4. CASE ReadType \/ ReadColourMap \/ ReadCutText \/ ReadSkipped \/ ReadExtHeader
  BY <1>4 DEF ReadType, ReadColourMap, ReadCutText, ReadSkipped, ReadExtHeader
<1>5. CASE ReadExtBody
  BY <1>5 DEF ReadExtBody, ByeBye, DisplayConfiguration, EventConfiguration, OtherExtension, Crash
<1>6. ASSUME NEW n, NEW s, NEW u, NEW i, NextRect(n, s, u, i)
      PROVE  pc' \in {"rect", "type"}
  BY <1>6 DEF NextRect
<1>7. CASE ReadUpdateHeader \/ ReadPayload \/ ReadRow \/ ReadRuns
  BY <1>6, <1>7 DEF ReadUpdateHeader, ReadPayload, ReadRow, ReadRuns
<1>8. CASE ReadRect
  <2>1. PICK q : Raw(q) \/ ContextInformation(q) \/ DesktopSize(q) \/ RunLength(q) \/ UnknownEncoding(q)
    BY <1>8 DEF ReadRect
  <2>2. pc' \in {"rect", "type", "payload", "row"}
    BY <1>6, <2>1 DEF Raw, ContextInformation, DesktopSize, RunLength, UnknownEncoding, Payload
  <2> QED  BY <2>2
<1> QED  BY <1>1, <1>2, <1>3, <1>4, <1>5, <1>7, <1>8 DEF Client

LEMMA StartingStep ==
  ASSUME TypeInv, FieldsInv, Starting, [Next]_vars
  PROVE  Starting'
<1>1. CASE Client
  <2>1. PICK k, n, v : Read(k, n, v)
    BY <1>1, ClientReads
  <2>2. UNCHANGED <<closed, srv, srvLeft, srvSize>>
    BY <1>1, ClientReads DEF server
  <2>3. eof' => closed'
    BY <2>1, <2>2 DEF Read, Starting, stream
  <2> QED  BY <1>1, <2>2, <2>3, ClientGoes DEF Starting
<1>2. CASE Server
  <2>1. UNCHANGED <<eof, closed, pc, need, sent>>
    BY <1>2 DEF Server, client
  <2>2. pc # "version"
    <3> SUFFICES ASSUME pc = "version" PROVE FALSE
      OBVIOUS
    <3>1. srv = "version" /\ Len(sent) = 0 /\ srvLeft = 0 /\ srvPos \in 0..0
      BY DEF Starting, TypeInv, ServerType
    <3>2. \A m : ~Receives(m)
      BY <3>1 DEF Receives
    <3> QED
      BY <1>2, <3>1, <3>2 DEF Server, SrvSecurity, SrvResult, SrvInit, SrvReceive, SrvConfigure,
         SrvMessage, SrvRect
  <2>3. srv' \in {"version", "security", "init"} => srvLeft' = 0 /\ srvSize' = <<0, 0>>
    <3>1. CASE SrvSecurity \/ SrvResult \/ SrvInit \/ SrvConfigure
      BY <3>1 DEF SrvSecurity, SrvResult, SrvInit, SrvConfigure, Starting
    <3>2. CASE SrvReceive
      BY <3>2 DEF SrvReceive, Starting
    <3>3. CASE SrvMessage
      BY <3>3 DEF SrvMessage
    <3>4. CASE SrvRect
      BY <3>4 DEF SrvRect, Starting
    <3> QED  BY <1>2, <3>1, <3>2, <3>3, <3>4 DEF Server
  <2> QED  BY <2>1, <2>2, <2>3 DEF Starting
<1>3. CASE SrvClose
  <2>1. closed' = TRUE /\ UNCHANGED <<pc, need, sent, srv, srvLeft, srvSize>>
    BY <1>3 DEF SrvClose, client, server
  <2>2. s2c \in Seq(FieldSet)
    BY FieldsType
  <2>3. Len(s2c') <= Len(s2c)
    <3>1. PICK k \in 0..Len(s2c) :
            \/ s2c' = SubSeq(s2c, 1, k)
            \/ k > 0 /\ s2c[k].n > 1 /\ s2c' = [SubSeq(s2c, 1, k) EXCEPT ![k].n = @ - 1]
      BY <1>3 DEF SrvClose
    <3> DEFINE t == SubSeq(s2c, 1, k)
    <3>2. t \in Seq(FieldSet) /\ Len(t) = k /\ Len(s2c) \in Nat
      BY <2>2
    <3> HIDE DEF t
    <3>3. Len([t EXCEPT ![k].n = @ - 1]) = k
      BY <3>2
    <3> QED  BY <3>1, <3>2, <3>3 DEF t
  <2> QED  BY <2>1, <2>2, <2>3 DEF Starting
<1>4. CASE UNCHANGED vars
  BY <1>4 DEF vars, stream, client, server, Starting
<1> QED  BY <1>1, <1>2, <1>3, <1>4 DEF Next

LEMMA Shortened ==
  ASSUME NEW f \in FieldSet, f.n > 1
  PROVE  LET g == [f EXCEPT !.n = @ - 1]
         IN  g \in FieldSet /\ g.f = f.f /\ g.v = f.v /\ g.n < f.n
<1> DEFINE g == [f EXCEPT !.n = @ - 1]
<1>1. f.n \in Nat /\ f.f \in FieldKinds /\ f.v \in Nat \cup Inits \cup Exts \cup Rects
  BY DEF FieldSet
<1>2. g = [f |-> f.f, n |-> f.n - 1, v |-> f.v]
  BY DEF FieldSet
<1>3. f.n - 1 \in Nat /\ f.n - 1 < f.n
  BY <1>1
<1> QED  BY <1>1, <1>2, <1>3 DEF FieldSet

(* What arrives of a stream whose writer is gone.                          *)
LEMMA FunctionSeq ==
  ASSUME NEW S, NEW n \in Nat, NEW f \in [1..n -> S]
  PROVE  f \in Seq(S) /\ Len(f) = n
OBVIOUS

LEMMA CloseCuts ==
  ASSUME NEW bye \in BOOLEAN, NEW fbu \in BOOLEAN, NEW s \in Seq(Legal(bye, fbu)),
         NEW k \in 0..Len(s), NEW u,
         \/ u = SubSeq(s, 1, k)
         \/ k > 0 /\ s[k].n > 1 /\ u = [SubSeq(s, 1, k) EXCEPT ![k].n = @ - 1]
  PROVE  u \in Seq(Legal(bye, fbu)) /\ CutOf(u, SubSeq(s, 1, k)) /\ SubSeq(s, 1, k) \in Seq(FieldSet)
<1> DEFINE t == SubSeq(s, 1, k)
           L == Legal(bye, fbu)
<1>1. /\ t \in Seq(L) /\ Len(t) = k /\ k \in Nat
      /\ \A i \in 1..k : t[i] = s[i] /\ t[i] \in L
  OBVIOUS
<1>2. t \in Seq(FieldSet)
  BY <1>1, LegalWidens
<1>3. CASE u = t
  BY <1>1, <1>2, <1>3 DEF CutOf
<1>4. CASE k > 0 /\ s[k].n > 1 /\ u = [t EXCEPT ![k].n = @ - 1]
  <2> DEFINE g == [t[k] EXCEPT !.n = @ - 1]
  <2>1. k \in 1..k /\ t[k] \in L /\ t[k].n > 1
    BY <1>1, <1>4
  <2>2. t[k] \in FieldSet
    BY <2>1 DEF Legal
  <2>3. g \in FieldSet /\ g.f = t[k].f /\ g.v = t[k].v /\ g.n < t[k].n
    <3> HIDE DEF t
    <3> QED  BY <2>1, <2>2, Shortened
  <2> HIDE DEF g, L, t
  <2>4. g \in L
    BY <2>1, <2>3 DEF Legal, L
  <2>5. t \in [1..k -> L]
    BY <1>1
  <2>6. u = [t EXCEPT ![k] = g]
    BY <1>4 DEF g
  <2>7. u \in [1..k -> L] /\ \A i \in 1..k : u[i] = IF i = k THEN g ELSE t[i]
    BY <2>4, <2>5, <2>6
  <2>8. u \in Seq(L) /\ Len(u) = k
    BY <1>1, <2>7, FunctionSeq
  <2>9. CutOf(u, t)
    BY <1>1, <2>3, <2>7, <2>8 DEF CutOf
  <2> QED  BY <1>2, <2>8, <2>9 DEF L, t
<1> QED  BY <1>3, <1>4

LEMMA FieldsStep ==
  ASSUME Strict = TRUE, TypeInv, FieldsInv, Starting, [Next]_vars, ~lowRle'
  PROVE  FieldsInv'
<1> DEFINE L == Legal(srvBye, TRUE)
<1>0. s2c \in Seq(L) /\ s2c \in Seq(FieldSet) /\ srvBye \in BOOLEAN /\ srvBye' \in BOOLEAN
  BY FieldsType, TypeNext DEF FieldsInv, TypeInv, Flags
<1>1. CASE Client
  <2>1. PICK k, n, v : Read(k, n, v)
    BY <1>1, ClientReads
  <2>2. srvBye' = srvBye
    BY <1>1, ClientReads DEF server
  <2>3. s2c' = s2c \/ s2c' = << >> \/ (s2c # << >> /\ s2c' = Tail(s2c))
    BY <2>1 DEF Read, stream, AtField
  <2>4. s2c' \in Seq(L)
    <3> HIDE DEF L
    <3>1. << >> \in Seq(L) /\ (s2c # << >> => Tail(s2c) \in Seq(L))
      BY <1>0
    <3> QED  BY <1>0, <2>3, <3>1
  <2> QED  BY <2>2, <2>4 DEF FieldsInv, L
<1>2. CASE Server
  <2>1. srvBye => srvBye'
    BY <1>2 DEF Server, SrvSecurity, SrvResult, SrvInit, SrvReceive, SrvConfigure, SrvMessage, SrvRect
  <2>2. s2c \in Seq(Legal(srvBye', TRUE))
    BY <1>0, <2>1, LegalWidens
  <2>3. CASE SrvReceive
    BY <2>2, <2>3 DEF SrvReceive, FieldsInv
  <2>4. CASE ~SrvReceive
    <3>1. version' = version
      BY <1>2 DEF Server, client
    <3>2. PICK fs : Sends(fs)
      BY <1>2, <2>4, <3>1, SecuritySends, ResultSends, InitSends, ConfigureSends, MessageSends,
         RectSends DEF Server
    <3>3. fs \in Seq(Legal(srvBye', TRUE))
      <4>1. CASE fs \in Seq(Legal(srvBye', FALSE))
        BY <1>0, <4>1, LegalWidens
      <4>2. CASE fs = FbHeader(srvLeft') /\ srvLeft' \in Nat \ {0}
        BY <1>0, <4>2, LegalMessages
      <4> QED  BY <3>2, <4>1, <4>2 DEF Sends
    <3>4. s2c \o fs \in Seq(Legal(srvBye', TRUE))
      BY <2>2, <3>3, LegalJoin
    <3> QED  BY <2>2, <3>2, <3>4 DEF Sends, Send, FieldsInv
  <2> QED  BY <2>3, <2>4
<1>3. CASE SrvClose
  <2>1. srvBye' = srvBye
    BY <1>3 DEF SrvClose, server
  <2>2. PICK k \in 0..Len(s2c) :
          \/ s2c' = SubSeq(s2c, 1, k)
          \/ k > 0 /\ s2c[k].n > 1 /\ s2c' = [SubSeq(s2c, 1, k) EXCEPT ![k].n = @ - 1]
    BY <1>3 DEF SrvClose
  <2>3. s2c' \in Seq(L)
    BY <1>0, <2>2, CloseCuts
  <2> QED  BY <2>1, <2>3 DEF FieldsInv
<1>4. CASE UNCHANGED vars
  BY <1>4 DEF vars, stream, server, FieldsInv
<1> QED  BY <1>1, <1>2, <1>3, <1>4 DEF Next

-----------------------------------------------------------------------------
(* A server that has heard of the end of the session has heard it from a   *)
(* client that ended.                                                      *)
LEMMA NoByeReceived ==
  ASSUME TypeInv, ByeInv, pc # "ended"
  PROVE  ~Receives("byebye")
<1>1. ~Has(sent, "byebye")
  BY DEF TypeInv, ClientInv, ClientType, Pcs, ByeInv, Setup, Loop
<1>2. srvPos \in Nat /\ Len(sent) \in Nat
  BY DEF TypeInv, ClientInv, ClientType, ServerType
<1> QED  BY <1>1, <1>2 DEF Receives, Has

LEMMA StreamServer ==
  ASSUME Strict = TRUE, TypeInv, Starting, FieldsInv, ByeInv, StreamInv, synced, pc # "ended", Server,
         ~lowRle'
  PROVE  StreamInv'
<1>1. /\ ~closed /\ ~eof
      /\ UNCHANGED <<closed, synced, eof, pc, need, version, size, etype, num, rows>>
  BY DEF Server, client, parse, Starting
<1>2. s2c \in Seq(FieldSet) /\ srvBye' \in BOOLEAN
  BY FieldsType, TypeNext DEF TypeInv, Flags, Next
<1>3. PICK t, b : OnPath(t, b)
  BY <1>1 DEF StreamInv
<1>4. Leads(version, Settle(Now), s2c, b) /\ EndOk(b)
  BY <1>1, <1>3 DEF OnPath
<1>5. PICK fs : Sends(fs)
  BY <1>2, NoByeReceived, ServerSends
<1>6. fs \in Seq(FieldSet)
  <2>1. CASE fs \in Seq(Legal(srvBye', FALSE))
    BY <1>2, <2>1, LegalWidens
  <2>2. CASE fs = FbHeader(srvLeft') /\ srvLeft' \in Nat \ {0}
    BY <2>2, LeadsFbHeader
  <2> QED  BY <1>5, <2>1, <2>2 DEF Sends
<1>7. s2c' = s2c \o fs /\ s2c \o fs \in Seq(FieldSet)
  BY <1>2, <1>5, <1>6 DEF Sends, Send
<1>8. PICK c : Leads(version, b, fs, c) /\ EndOk(c)'
  <2>1. CASE b = Ended
    BY <1>6, <2>1, LeadsEnded DEF EndOk, Ended, At, Place
  <2>2. CASE srv # "done" /\ b = Expected
    BY <1>5, <2>2 DEF Sends
  <2> QED  BY <1>4, <2>1, <2>2 DEF EndOk
<1>9. Leads(version, Settle(Now), s2c \o fs, c)
  BY <1>2, <1>4, <1>6, <1>8, LeadsOn
<1>10. Now' = Now
  BY <1>1 DEF Now, Updating
<1>11. Leads(version', Settle(Now'), s2c', c)
  BY <1>1, <1>7, <1>9, <1>10
<1>12. \A w : w = s2c' => OnPath(w, c)'
  <2> SUFFICES ASSUME NEW w, w = s2c' PROVE OnPath(w, c)'
    OBVIOUS
  <2>1. CutOf(s2c', w)
    BY DEF CutOf
  <2> QED  BY <1>7, <1>8, <1>11, <2>1 DEF OnPath, CutOf
<1> QED  BY <1>7, <1>12 DEF StreamInv

LEMMA StreamClose ==
  ASSUME TypeInv, FieldsInv, StreamInv, SrvClose
  PROVE  StreamInv'
<1>1. /\ ~closed /\ closed' = TRUE
      /\ UNCHANGED <<synced, eof, pc, need, version, size, etype, num, rows>>
  BY DEF SrvClose, client, parse
<1> SUFFICES ASSUME synced, ~eof, pc # "ended" PROVE StreamInv'
  BY <1>1 DEF StreamInv
<1>2. PICK t, b : OnPath(t, b)
  BY DEF StreamInv
<1>3. s2c \in Seq(FieldSet) /\ Leads(version, Settle(Now), s2c, b)
  BY <1>1, <1>2, FieldsType DEF OnPath
<1>4. PICK k \in 0..Len(s2c) :
        \/ s2c' = SubSeq(s2c, 1, k)
        \/ k > 0 /\ s2c[k].n > 1 /\ s2c' = [SubSeq(s2c, 1, k) EXCEPT ![k].n = @ - 1]
  BY DEF SrvClose
<1> DEFINE u == SubSeq(s2c, 1, k)
<1>5. CutOf(s2c', u) /\ u \in Seq(FieldSet)
  BY <1>4, CloseCuts DEF FieldsInv, TypeInv, Flags
<1>6. PICK c : Leads(version, Settle(Now), u, c)
  BY <1>3, LeadsPart
<1>7. Now' = Now
  BY <1>1 DEF Now, Updating
<1> HIDE DEF u
<1>8. \A w : w = u => OnPath(w, c)'
  <2> SUFFICES ASSUME NEW w, w = u PROVE OnPath(w, c)'
    OBVIOUS
  <2>1. Leads(version', Settle(Now'), w, c) /\ CutOf(s2c', w)
    BY <1>1, <1>5, <1>6, <1>7
  <2> QED  BY <1>1, <1>5, <2>1 DEF OnPath, CutOf
<1> QED  BY <1>5, <1>8 DEF StreamInv

(* The ways to the end of the task, to the payload of an extension message *)
(* and to a crash.                                                         *)
LEMMA ClientEnds ==
  ASSUME Client
  PROVE  /\ pc' = "ended" => pc \in Setup \/ (pc = "extbody" /\ etype = 0)
         /\ pc' = "extbody" => \E v \in Seen("ext") : /\ Read("ext", 3, v)
                                                     /\ etype' = v.etype /\ need' = v.len
         /\ pc' = "crashed" => /\ pc = "extbody" /\ Crash
                               /\ DisplayConfiguration \/ EventConfiguration
<1> USE DEF End, AwaitInit, NextMessage, Setup
<1>1. CASE ReadVersion \/ ReadSecNum \/ ReadReasonLength \/ ReadReason \/ ReadSecTypes \/ ReadSecResult
           \/ ReadInit \/ ReadName
  BY <1>1 DEF ReadVersion, ReadSecNum, ReadReasonLength, ReadReason, ReadSecTypes, ReadSecResult,
     ReadInit, ReadName
<1>2. CASE ReadType \/ ReadColourMap \/ ReadCutText \/ ReadSkipped
  BY <1>2 DEF ReadType, ReadColourMap, ReadCutText, ReadSkipped
<1>3. CASE ReadExtHeader
  BY <1>3 DEF ReadExtHeader
<1>4. CASE ReadExtBody
  BY <1>4 DEF ReadExtBody, ByeBye, DisplayConfiguration, EventConfiguration, OtherExtension, Crash
<1>5. ASSUME NEW n, NEW s, NEW u, NEW i, NextRect(n, s, u, i)
      PROVE  pc' \in {"rect", "type"}
  BY <1>5 DEF NextRect
<1>6. CASE ReadUpdateHeader \/ ReadPayload \/ ReadRow \/ ReadRuns
  BY <1>5, <1>6 DEF ReadUpdateHeader, ReadPayload, ReadRow, ReadRuns
<1>7. CASE ReadRect
  <2>1. PICK q : Raw(q) \/ ContextInformation(q) \/ DesktopSize(q) \/ RunLength(q) \/ UnknownEncoding(q)
    BY <1>7 DEF ReadRect
  <2>2. pc' \in {"rect", "type", "payload", "row"}
    BY <1>5, <2>1 DEF Raw, ContextInformation, DesktopSize, RunLength, UnknownEncoding, Payload
  <2> QED  BY <2>2
<1> QED  BY <1>1, <1>2, <1>3, <1>4, <1>6, <1>7 DEF Client

LEMMA HeadIn ==
  ASSUME NEW S, NEW s \in Seq(S), s # << >>
  PROVE  Head(s) = s[1] /\ Head(s) \in S
OBVIOUS

LEMMA LegalHead ==
  ASSUME FieldsInv, s2c # << >>
  PROVE  Head(s2c) = s2c[1] /\ Head(s2c) \in Legal(srvBye, TRUE)
BY HeadIn DEF FieldsInv

LEMMA CalmStep ==
  ASSUME Strict = TRUE, TypeInv, FieldsInv, Boundary, Calm, Client
  PROVE  /\ Calm'
         /\ pc = "extbody" /\ DisplayConfiguration => status' = 1
<1>1. ASSUME pc = "extbody" PROVE Roomy(etype, need) /\ need \in Nat
  BY <1>1 DEF Boundary, Calm, TypeInv, ClientInv, ClientType
<1>2. ASSUME pc = "extbody", DisplayConfiguration PROVE status' = 1 /\ ~Crash
  BY <1>1, <1>2 DEF DisplayConfiguration, Roomy, Room, ToStatus, ToEnd, Crash, NextMessage
<1>3. ASSUME pc = "extbody", EventConfiguration PROVE ~Crash
  BY <1>1, <1>3 DEF EventConfiguration, Roomy, Room, ToEnd, Crash, NextMessage
<1>4. pc' # "crashed"
  <2> SUFFICES ASSUME pc' = "crashed" PROVE FALSE
    OBVIOUS
  <2>1. pc = "extbody" /\ Crash /\ (DisplayConfiguration \/ EventConfiguration)
    BY ClientEnds
  <2> QED  BY <1>2, <1>3, <2>1
<1>5. ASSUME pc' = "extbody", synced' PROVE Roomy(etype', need')
  <2>1. PICK v \in Seen("ext") : Read("ext", 3, v) /\ etype' = v.etype /\ need' = v.len
    BY <1>5, ClientEnds
  <2>2. CASE v.len = 0
    BY <2>1, <2>2 DEF Roomy, Room
  <2>3. CASE s2c # << >> /\ Head(s2c).f = "ext" /\ v = Head(s2c).v
    <3>1. Head(s2c) \in Legal(srvBye, TRUE)
      BY <2>3, LegalHead
    <3> QED  BY <2>1, <2>3, <3>1 DEF Legal
  <2>4. v.len = 0 \/ (s2c # << >> /\ Head(s2c).f = "ext" /\ v = Head(s2c).v)
    <3>1. \A w \in Stale("ext") : w.len = 0
      BY DEF Stale, Untouched
    <3>2. \A w \in Untouched("ext") : w.len = 0
      BY DEF Untouched
    <3>3. \/ s2c # << >> /\ Head(s2c).f = "ext" /\ v = Head(s2c).v
          \/ synced' = FALSE
          \/ v \in Stale("ext") \/ v \in Untouched("ext")
      BY <2>1 DEF Read, AtField
    <3>4. synced' # FALSE
      BY <1>5
    <3> QED  BY <3>1, <3>2, <3>3, <3>4, Zenon
  <2> QED  BY <2>2, <2>3, <2>4
<1> QED  BY <1>2, <1>4, <1>5 DEF Calm

LEMMA StreamStep ==
  ASSUME Strict = TRUE, ShortReads = FALSE, TypeInv, Starting, FieldsInv, ByeInv, Boundary, Calm,
         StreamInv, [Next]_vars, ~lowRle'
  PROVE  Boundary' /\ StreamInv'
<1>1. CASE Client
  <2>1. CASE pc' = "ended"
    BY <2>1 DEF Boundary, StreamInv
  <2>2. CASE pc' # "ended"
    <3>0. pc' # "crashed"
      BY <1>1, CalmStep DEF Calm
    <3>1. PICK v : Moved(v)
      BY <1>1, <2>2, <3>0, ClientParses DEF TypeInv
    <3>2. synced
      BY <3>1 DEF Moved, Boundary
    <3>3. CASE ~eof
      BY <1>1, <2>2, <3>0, <3>2, <3>3, StreamClient DEF Boundary
    <3>4. CASE eof
      <4>1. synced' = synced /\ eof' = eof
        BY <3>1, <3>4 DEF Moved, Read, stream
      <4> QED  BY <3>2, <3>4, <4>1 DEF Boundary, StreamInv
    <3> QED  BY <3>3, <3>4
  <2> QED  BY <2>1, <2>2
<1>2. CASE Server
  <2>1. UNCHANGED <<pc, synced>>
    BY <1>2 DEF Server, client
  <2>2. CASE pc = "ended"
    BY <2>1, <2>2 DEF Boundary, StreamInv
  <2>3. CASE pc # "ended"
    BY <1>2, <2>1, <2>3, StreamServer DEF Boundary
  <2> QED  BY <2>2, <2>3
<1>3. CASE SrvClose
  BY <1>3, StreamClose DEF SrvClose, client, Boundary
<1>4. CASE UNCHANGED vars
  <2>1. /\ Now' = Now /\ Expected' = Expected
        /\ UNCHANGED <<s2c, synced, eof, closed, pc, version, srv>>
    BY <1>4 DEF vars, stream, client, parse, server, Now, Updating, Expected
  <2>2. \A t, b : OnPath(t, b) => OnPath(t, b)'
    BY <2>1 DEF OnPath, CutOf, EndOk
  <2> QED  BY <2>1, <2>2 DEF Boundary, StreamInv
<1> QED  BY <1>1, <1>2, <1>3, <1>4 DEF Next

StreamAll == TypeInv /\ ByeInv /\ Starting /\ FieldsInv /\ Boundary /\ Calm /\ StreamInv

(* It holds for as long as no low run-length rectangle was sent.           *)
Aligned == lowRle \/ StreamAll

LEMMA ByeNext == TypeInv /\ ByeInv /\ [Next]_vars => ByeInv'
<1> SUFFICES ASSUME TypeInv, ByeInv, [Next]_vars PROVE ByeInv'
  OBVIOUS
<1>1. CASE Client
  BY <1>1, ByeStep DEF TypeInv
<1>2. CASE Server \/ SrvClose \/ UNCHANGED vars
  <2>1. UNCHANGED <<sent, pc>>
    BY <1>2 DEF Server, SrvClose, vars, client
  <2> QED  BY <2>1 DEF ByeInv, Has
<1> QED  BY <1>1, <1>2 DEF Next

LEMMA StreamInit == Init => StreamAll
<1> SUFFICES ASSUME Init PROVE StreamAll
  OBVIOUS
<1>1. TypeInv
  BY InitType
<1>2. ByeInv
  BY DEF Init, ByeInv, Has, Setup, Loop
<1>3. PICK v \in Any("version") : s2c = << Field("version", 12, v) >>
  BY DEF Init
<1> DEFINE f == Field("version", 12, v)
           a == At("version", <<0, 0>>)
<1>4. v \in Nat
  BY SeenTypes DEF Seen
<1>5. "version" \in FieldKinds \ {"ext", "fb", "rect"}
  BY DEF FieldKinds
<1>6. f \in FieldSet /\ f.v = v /\ << f >> \in Seq(Legal(FALSE, TRUE))
  <2>1. v \in Nat \cup Inits \cup Exts \cup Rects /\ v \in Nat \cup Inits
    BY <1>4
  <2>2. f \in FieldSet /\ f.v = v
    BY <1>5, <2>1, FieldType
  <2>3. << f >> \in Seq(Legal(FALSE, TRUE))
    BY <1>5, <2>1, LegalPlain
  <2> QED  BY <2>2, <2>3
<1>7. Starting /\ FieldsInv /\ Boundary /\ Calm
  <2>1. srvBye = FALSE /\ s2c = << f >>
    BY <1>3 DEF Init
  <2> HIDE DEF f
  <2>2. Len(s2c) = 1
    BY <2>1
  <2>3. Starting
    BY <2>2 DEF Init, Starting
  <2>4. FieldsInv
    BY <1>6, <2>1 DEF FieldsInv
  <2> QED  BY <2>3, <2>4 DEF Init, Boundary, Calm
<1>8. Settle(Now) = a
  <2>1. Now = a
    BY DEF Init, Now, At, Payloads, Updating
  <2> QED  BY <2>1, PlaceFields, Resting DEF At, Payloads
<1>9. Fits(a, f)
  BY DEF Fits, Kind, Width, At, Place, Field, Payloads
<1>10. EndOk(After(version, a, v))
  <2>1. After(version, a, v) = IF v = 0 THEN Ended ELSE At("secnum", <<0, 0>>)
    BY PlaceFields DEF After, At
  <2>2. srv = "version" /\ Expected = At("secnum", <<0, 0>>)
    BY DEF Init, Expected
  <2> QED  BY <2>1, <2>2 DEF EndOk
<1> HIDE DEF f, a
<1>11. Leads(version, a, << f >>, After(version, a, v))
  BY <1>6, <1>9, LeadsField
<1>12. << f >> \in Seq(FieldSet)
  BY <1>6
<1>13. OnPath(<< f >>, After(version, a, v))
  BY <1>3, <1>8, <1>10, <1>11, <1>12 DEF OnPath, CutOf, f
<1> QED  BY <1>1, <1>2, <1>7, <1>12, <1>13 DEF StreamAll, StreamInv

LEMMA StreamNext ==
  ASSUME Strict = TRUE, ShortReads = FALSE
  PROVE  StreamAll /\ [Next]_vars /\ ~lowRle' => StreamAll'
<1> SUFFICES ASSUME StreamAll, [Next]_vars, ~lowRle' PROVE StreamAll'
  OBVIOUS
<1>1. TypeInv' /\ ByeInv' /\ Starting' /\ FieldsInv' /\ Boundary' /\ StreamInv'
  BY TypeNext, ByeNext, StartingStep, FieldsStep, StreamStep DEF StreamAll
<1>2. CASE Client
  BY <1>1, <1>2, CalmStep DEF StreamAll
<1>3. CASE Server \/ SrvClose \/ UNCHANGED vars
  <2>1. UNCHANGED <<pc, synced, etype, need>>
    BY <1>3 DEF Server, SrvClose, vars, client, stream
  <2> QED  BY <1>1, <2>1 DEF StreamAll, Calm
<1> QED  BY <1>1, <1>2, <1>3 DEF Next, StreamAll

(* The server does not take back what it sent.                             *)
LEMMA LowRleStays == TypeInv /\ [Next]_vars /\ lowRle => lowRle'
<1> SUFFICES ASSUME TypeInv, [Next]_vars, lowRle PROVE lowRle'
  OBVIOUS
<1>1. CASE SrvRect
  <2>1. PICK q, m : lowRle' = (lowRle \/ (q.e = "rle" /\ q.h # srvSize[2]))
    BY <1>1 DEF SrvRect
  <2> QED  BY <2>1, Zenon
<1>2. CASE Client
  BY <1>2, ClientReads DEF server
<1>3. CASE Server /\ ~SrvRect
  BY <1>3 DEF Server, SrvSecurity, SrvResult, SrvInit, SrvReceive, SrvConfigure, SrvMessage
<1>4. CASE SrvClose \/ UNCHANGED vars
  BY <1>4 DEF SrvClose, vars, server
<1> QED  BY <1>1, <1>2, <1>3, <1>4 DEF Next

LEMMA AlignedAlways ==
  ASSUME Strict = TRUE, ShortReads = FALSE
  PROVE  Spec => [](TypeInv /\ Aligned)
<1>1. Init => TypeInv /\ Aligned
  BY StreamInit DEF StreamAll, Aligned
<1>2. TypeInv /\ Aligned /\ [Next]_vars => (TypeInv /\ Aligned)'
  BY TypeNext, StreamNext, LowRleStays, Zenon DEF Aligned
<1> QED  BY <1>1, <1>2, PTL DEF Spec

(* With a strict server and reads that complete, whatever is sent and      *)
(* however the link breaks, no parser of vnc_session.c loses the boundary  *)
(* between two fields of the stream, but for the one that reads the rows   *)
(* of a run-length rectangle lower than the screen.                        *)
THEOREM VncInSync ==
  ASSUME Strict = TRUE, ShortReads = FALSE
  PROVE  Spec => []InSync
<1>1. Aligned => InSync
  BY DEF Aligned, StreamAll, Boundary, InSync
<1> QED  BY <1>1, AlignedAlways, PTL

(* Under the same conditions the client that has parsed everything sent to *)
(* it knows the server's desktop size, whatever resizes went before, for   *)
(* as long as the server sends no such rectangle.                          *)
THEOREM VncSizesAgree ==
  ASSUME Strict = TRUE, ShortReads = FALSE
  PROVE  Spec => [](SizesAgree \/ lowRle)
<1>1. StreamAll => SizesAgree
  <2> SUFFICES ASSUME StreamAll, ~closed, synced, s2c = << >>, srvLeft = 0, pc = "type"
               PROVE  size = srvSize
    BY DEF SizesAgree
  <2>1. ~eof
    BY DEF StreamAll, Starting
  <2>2. PICK t, b : OnPath(t, b)
    BY <2>1 DEF StreamAll, StreamInv
  <2>3. Leads(version, Settle(Now), << >>, b) /\ EndOk(b)
    BY <2>2 DEF OnPath
  <2>4. Settle(Now) = Now /\ Now.pc = "type" /\ Now.size = size
    BY Asked, Resting DEF Payloads
  <2>5. b = Now
    BY <2>3, <2>4, LeadsStill
  <2>6. Ended.pc = "ended"
    BY PlaceFields DEF Ended, At
  <2>7. b = Expected
    BY <2>3, <2>4, <2>5, <2>6 DEF EndOk
  <2>8. Expected.pc = "type" /\ Expected.size = size
    BY <2>4, <2>5, <2>7
  <2>9. Expected = At("type", srvSize)
    <3>1. AtRect(srvSize, srvLeft) = At("type", srvSize)
      BY DEF AtRect
    <3>2. srv \notin {"version", "security", "init"}
      BY <2>8, PlaceFields DEF Expected, At
    <3> QED  BY <3>1, <3>2 DEF Expected
  <2> QED  BY <2>8, <2>9, PlaceFields DEF At
<1>2. Aligned => SizesAgree \/ lowRle
  BY <1>1 DEF Aligned
<1> QED  BY <1>2, AlignedAlways, PTL

-----------------------------------------------------------------------------
(* ByeBye.  An extension message of type 0 in the stream is the server's   *)
(* ByeBye; the client writes its own only for one, or when the stream has  *)
(* ended.                                                                  *)

ByeHeard ==
  /\ Wrote("byebye") => srvBye \/ eof
  /\ pc = "extbody" /\ etype = 0 => srvBye \/ eof

(* A read that neither leaves the field boundary nor meets the end of the  *)
(* stream took the field it asked for, or nothing.                         *)
LEMMA Consumed ==
  ASSUME Strict = TRUE, NEW k, NEW n, NEW v, Read(k, n, v), synced', ~eof'
  PROVE  \/ n = 0 /\ s2c' = s2c
         \/ n > 0 /\ s2c # << >> /\ Head(s2c).f = k /\ v = Head(s2c).v /\ s2c' = Tail(s2c)
<1>1. \/ n = 0 /\ s2c' = s2c
      \/ n > 0 /\ s2c # << >> /\ Head(s2c).f = k /\ v = Head(s2c).v /\ s2c' = Tail(s2c)
      \/ synced' = FALSE
      \/ eof' = TRUE
      \/ eof /\ eof' = eof
  BY DEF Read, stream, AtField
<1>2. (synced' = FALSE => ~synced') /\ (eof' = TRUE => eof')
  OBVIOUS
<1>3. eof /\ eof' = eof => eof'
  OBVIOUS
<1> QED  BY <1>1, <1>2, <1>3, Zenon

LEMMA EachIn ==
  ASSUME NEW S, NEW s \in Seq(S), NEW i \in 1..Len(s)
  PROVE  s[i] \in S
OBVIOUS

LEMMA ByeHeardStep ==
  ASSUME Strict = TRUE, ShortReads = FALSE, StreamAll, ByeHeard, [Next]_vars, ~lowRle'
  PROVE  ByeHeard'
<1>1. CASE Client
  <2>1. StreamAll' /\ srvBye' = srvBye /\ (eof => eof')
    <3>1. StreamAll' /\ UNCHANGED server
      BY <1>1, StreamNext, ClientReads
    <3>2. eof \in BOOLEAN /\ (eof' = eof \/ eof' = TRUE)
      BY <1>1, ClientReads, ReadStream DEF StreamAll, TypeInv, Flags
    <3> QED  BY <3>1, <3>2 DEF server
  <2>2. ASSUME pc' = "extbody", etype' = 0 PROVE srvBye' \/ eof'
    <3>1. PICK v \in Seen("ext") : Read("ext", 3, v) /\ etype' = v.etype
      BY <1>1, <2>2, ClientEnds
    <3>2. SUFFICES ASSUME ~eof' PROVE srvBye'
      OBVIOUS
    <3>3. synced'
      BY <2>1, <2>2 DEF StreamAll, Boundary
    <3>4. s2c # << >> /\ Head(s2c).f = "ext" /\ v = Head(s2c).v
      BY <3>1, <3>2, <3>3, Consumed
    <3>5. Head(s2c) \in Legal(srvBye, TRUE)
      BY <3>4, LegalHead DEF StreamAll
    <3> QED  BY <2>1, <2>2, <3>1, <3>4, <3>5 DEF Legal
  <2>3. ASSUME Wrote("byebye")' PROVE srvBye' \/ eof'
    <3>1. Has(sent', "byebye")
      BY <2>3 DEF Wrote, Has
    <3>2. pc' = "ended" /\ Has(sent', "encodings")
      <4>1. pc' \in Pcs /\ ByeInv'
        BY <2>1 DEF StreamAll, TypeInv, ClientInv, ClientType
      <4> QED  BY <3>1, <4>1 DEF ByeInv, Pcs, Setup, Loop
    <3>3. CASE pc = "extbody" /\ etype = 0
      BY <2>1, <3>3 DEF ByeHeard
    <3>4. CASE pc \in Setup
      <4>1. Shakes
        BY <1>1, <3>2, <3>4, ClientMoves DEF StreamAll, TypeInv, Declares, Works, Leaves, Starts,
           Crashes, Within, Finishes, Setup, Loop, Inner
      <4>2. PICK ms \in Seq(OutMsgs) :
              /\ sent' = sent \o ms
              /\ \A j \in 1..Len(ms) : ms[j].m \in {"version", "security", "clientinit"}
        BY <4>1 DEF Shakes
      <4>3. ~Has(ms, "encodings") /\ ~Has(sent, "encodings") /\ sent \in Seq(OutMsgs)
        BY <3>4, <4>2 DEF Has, StreamAll, ByeInv, TypeInv, ClientInv, ClientType
      <4>4. FALSE
        BY <3>2, <4>2, <4>3, HasJoined
      <4> QED  BY <4>4
    <3> QED  BY <1>1, <3>2, <3>3, <3>4, ClientEnds
  <2> QED  BY <2>2, <2>3 DEF ByeHeard
<1>2. CASE Server \/ SrvClose \/ UNCHANGED vars
  <2>1. UNCHANGED <<sent, pc, etype, eof>>
    BY <1>2 DEF Server, SrvClose, vars, client, stream
  <2>2. srvBye => srvBye'
    BY <1>2 DEF Server, SrvSecurity, SrvResult, SrvInit, SrvReceive, SrvConfigure, SrvMessage, SrvRect,
       SrvClose, vars, server
  <2> QED  BY <2>1, <2>2 DEF ByeHeard, Wrote
<1> QED  BY <1>1, <1>2 DEF Next

(* "response byebye message with byebye": with a strict server and reads   *)
(* that complete, the client says ByeBye only to a server that did, or     *)
(* after the end of the stream, or having lost the boundary in the rows of *)
(* a low run-length rectangle.                                             *)
THEOREM VncByeIsResponse ==
  ASSUME Strict = TRUE, ShortReads = FALSE
  PROVE  Spec => []ByeIsResponse
<1>1. Init => lowRle \/ ByeHeard
  BY DEF Init, ByeHeard, Wrote
<1>2. TypeInv /\ Aligned /\ (lowRle \/ ByeHeard) /\ [Next]_vars => (lowRle \/ ByeHeard)'
  BY ByeHeardStep, LowRleStays, Zenon DEF Aligned
<1>3. lowRle \/ ByeHeard => ByeIsResponse
  BY DEF ByeHeard, ByeIsResponse
<1> QED  BY <1>1, <1>2, <1>3, AlignedAlways, PTL DEF Spec

-----------------------------------------------------------------------------
(* Flow control.  First: counting.                                         *)

(* The requests that a reader at p has before it; the updates begun in s.  *)
Waiting(s, p) == {i \in (p + 1)..Len(s) : s[i].m = "request"}
Begun(s)      == {i \in 1..Len(s) : s[i].f = "fb"}

LEMMA WaitingFinite ==
  ASSUME NEW s \in Seq(OutMsgs), NEW p \in Nat
  PROVE  IsFiniteSet(Waiting(s, p)) /\ Cardinality(Waiting(s, p)) \in Nat
<1>1. Len(s) \in Nat /\ p + 1 \in Int
  OBVIOUS
<1>2. IsFiniteSet((p + 1)..Len(s))
  BY <1>1, FS_Interval
<1>3. Waiting(s, p) \in SUBSET ((p + 1)..Len(s))
  BY DEF Waiting
<1> QED  BY <1>2, <1>3, FS_Subset, FS_CardinalityType

LEMMA BegunFinite ==
  ASSUME NEW s \in Seq(FieldSet)
  PROVE  IsFiniteSet(Begun(s)) /\ Cardinality(Begun(s)) \in Nat
<1>1. Len(s) \in Nat
  OBVIOUS
<1>2. IsFiniteSet(1..Len(s))
  BY <1>1, FS_Interval
<1>3. Begun(s) \in SUBSET (1..Len(s))
  BY DEF Begun
<1> QED  BY <1>2, <1>3, FS_Subset, FS_CardinalityType

LEMMA WaitingQuiet ==
  ASSUME NEW s \in Seq(OutMsgs), NEW ms \in Seq(OutMsgs), NEW p \in Nat, ~Has(ms, "request")
  PROVE  Waiting(s \o ms, p) = Waiting(s, p)
<1> DEFINE u == s \o ms
<1>1. /\ Len(s) \in Nat /\ Len(ms) \in Nat /\ Len(u) = Len(s) + Len(ms)
      /\ \A i \in 1..(Len(s) + Len(ms)) : u[i] = IF i <= Len(s) THEN s[i] ELSE ms[i - Len(s)]
  BY ConcatProperties
<1> HIDE DEF u
<1>2. ASSUME NEW i \in (p + 1)..Len(u), u[i].m = "request"
      PROVE  i \in (p + 1)..Len(s) /\ s[i].m = "request"
  <2>1. i \in 1..(Len(s) + Len(ms))
    BY <1>1
  <2>2. CASE i <= Len(s)
    BY <1>1, <1>2, <2>1, <2>2
  <2>3. CASE ~(i <= Len(s))
    <3>1. i - Len(s) \in 1..Len(ms) /\ u[i] = ms[i - Len(s)]
      BY <1>1, <2>1, <2>3
    <3> QED  BY <1>2, <3>1 DEF Has
  <2> QED  BY <2>2, <2>3
<1>3. ASSUME NEW i \in (p + 1)..Len(s), s[i].m = "request"
      PROVE  i \in (p + 1)..Len(u) /\ u[i].m = "request"
  <2>1. i \in 1..(Len(s) + Len(ms)) /\ i <= Len(s)
    BY <1>1
  <2> QED  BY <1>1, <1>3, <2>1
<1>4. Waiting(u, p) = Waiting(s, p)
  BY <1>2, <1>3 DEF Waiting
<1> QED  BY <1>4 DEF u

LEMMA WaitingMore ==
  ASSUME NEW s \in Seq(OutMsgs), NEW x \in OutMsgs, NEW p \in 0..Len(s), x.m = "request"
  PROVE  Cardinality(Waiting(Append(s, x), p)) = Cardinality(Waiting(s, p)) + 1
<1> DEFINE u == Append(s, x)
           n == Len(s) + 1
<1>1. /\ Len(s) \in Nat /\ p \in Nat /\ Len(u) = n
      /\ \A i \in 1..n : u[i] = IF i = n THEN x ELSE s[i]
  OBVIOUS
<1> HIDE DEF u
<1>2. Waiting(u, p) = Waiting(s, p) \cup {n}
  <2>1. ASSUME NEW i \in Waiting(u, p) PROVE i \in Waiting(s, p) \cup {n}
    <3>1. i \in (p + 1)..n /\ i \in 1..n /\ u[i].m = "request"
      BY <1>1 DEF Waiting
    <3>2. CASE i # n
      <4>1. i \in (p + 1)..Len(s) /\ u[i] = s[i]
        BY <1>1, <3>1, <3>2
      <4> QED  BY <3>1, <4>1 DEF Waiting
    <3> QED  BY <3>2
  <2>2. ASSUME NEW i \in Waiting(s, p) PROVE i \in Waiting(u, p)
    <3>1. i \in (p + 1)..Len(s) /\ s[i].m = "request"
      BY DEF Waiting
    <3>2. i \in (p + 1)..Len(u) /\ i \in 1..n /\ i # n
      BY <1>1, <3>1
    <3>3. u[i] = s[i]
      BY <1>1, <3>2
    <3> QED  BY <3>1, <3>2, <3>3 DEF Waiting
  <2>3. n \in Waiting(u, p)
    <3>1. n \in (p + 1)..Len(u) /\ n \in 1..n
      BY <1>1
    <3>2. u[n] = x
      BY <1>1, <3>1
    <3> QED  BY <3>1, <3>2 DEF Waiting
  <2> QED  BY <2>1, <2>2, <2>3
<1>3. n \notin Waiting(s, p)
  BY <1>1 DEF Waiting
<1>4. IsFiniteSet(Waiting(s, p))
  BY <1>1, WaitingFinite
<1> HIDE DEF n
<1>5. Cardinality(Waiting(s, p) \cup {n}) = Cardinality(Waiting(s, p)) + 1
  BY <1>3, <1>4, FS_AddElement
<1> QED  BY <1>2, <1>5 DEF u

LEMMA WaitingTaken ==
  ASSUME NEW s \in Seq(OutMsgs), NEW p \in Nat, p < Len(s)
  PROVE  Cardinality(Waiting(s, p + 1)) =
           IF s[p + 1].m = "request" THEN Cardinality(Waiting(s, p)) - 1
                                     ELSE Cardinality(Waiting(s, p))
<1>1. Len(s) \in Nat /\ p + 1 \in (p + 1)..Len(s)
  OBVIOUS
<1>2. Waiting(s, p + 1) = Waiting(s, p) \ {p + 1}
  BY <1>1 DEF Waiting
<1>3. p + 1 \in Waiting(s, p) <=> s[p + 1].m = "request"
  BY <1>1 DEF Waiting
<1>4. IsFiniteSet(Waiting(s, p))
  BY WaitingFinite
<1>5. Cardinality(Waiting(s, p) \ {p + 1}) =
        IF p + 1 \in Waiting(s, p) THEN Cardinality(Waiting(s, p)) - 1 ELSE Cardinality(Waiting(s, p))
  BY <1>4, FS_RemoveElement
<1> QED  BY <1>2, <1>3, <1>5

LEMMA BegunQuiet ==
  ASSUME NEW s \in Seq(FieldSet), NEW fs \in Seq(FieldSet),
         \A i \in 1..Len(fs) : fs[i].f # "fb"
  PROVE  Begun(s \o fs) = Begun(s)
<1> DEFINE u == s \o fs
<1>1. /\ Len(s) \in Nat /\ Len(fs) \in Nat /\ Len(u) = Len(s) + Len(fs)
      /\ \A i \in 1..(Len(s) + Len(fs)) : u[i] = IF i <= Len(s) THEN s[i] ELSE fs[i - Len(s)]
  BY ConcatProperties
<1> HIDE DEF u
<1>2. ASSUME NEW i \in 1..Len(u), u[i].f = "fb"
      PROVE  i \in 1..Len(s) /\ s[i].f = "fb"
  <2>1. i \in 1..(Len(s) + Len(fs))
    BY <1>1
  <2>2. CASE i <= Len(s)
    BY <1>1, <1>2, <2>1, <2>2
  <2>3. CASE ~(i <= Len(s))
    <3>1. i - Len(s) \in 1..Len(fs) /\ u[i] = fs[i - Len(s)]
      BY <1>1, <2>1, <2>3
    <3> QED  BY <1>2, <3>1
  <2> QED  BY <2>2, <2>3
<1>3. ASSUME NEW i \in 1..Len(s), s[i].f = "fb"
      PROVE  i \in 1..Len(u) /\ u[i].f = "fb"
  <2>1. i \in 1..(Len(s) + Len(fs)) /\ i <= Len(s)
    BY <1>1
  <2> QED  BY <1>1, <1>3, <2>1
<1>4. Begun(u) = Begun(s)
  BY <1>2, <1>3 DEF Begun
<1> QED  BY <1>4 DEF u

LEMMA BegunMore ==
  ASSUME NEW s \in Seq(FieldSet), NEW n \in Nat
  PROVE  Cardinality(Begun(s \o FbHeader(n))) = Cardinality(Begun(s)) + 1
<1> DEFINE f == Field("type", 1, 0)
           g == Field("fb", 3, n)
           r == << f >>
           t == s \o r
           k == Len(t) + 1
           u == t \o << g >>
<1>1. /\ f \in FieldSet /\ g \in FieldSet /\ f.f = "type" /\ g.f = "fb"
      /\ FbHeader(n) = r \o << g >>
  BY FieldType DEF FieldKinds, FbHeader, MsgType
<1> HIDE DEF f, g
<1>2. r \in Seq(FieldSet) /\ << g >> \in Seq(FieldSet) /\ Len(r) = 1 /\ r[1] = f
  BY <1>1
<1>3. \A i \in 1..Len(r) : r[i].f # "fb"
  <2>1. f.f # "fb"
    BY <1>1
  <2> HIDE DEF r
  <2>2. \A i \in 1..Len(r) : i = 1
    BY <1>2
  <2> QED  BY <1>2, <2>1, <2>2
<1> HIDE DEF r
<1>4. Begun(t) = Begun(s) /\ t \in Seq(FieldSet)
  BY <1>2, <1>3, BegunQuiet
<1>5. s \o FbHeader(n) = u
  BY <1>1, <1>2, ConcatAssociative
<1> HIDE DEF t
<1>6. u = Append(t, g)
  BY <1>1, <1>4
<1>7. /\ Len(t) \in Nat /\ Len(u) = k /\ k \in Nat
      /\ \A i \in 1..k : u[i] = IF i = k THEN g ELSE t[i]
  BY SMTT(30), <1>1, <1>4, <1>6
<1>8. k \notin Begun(t) /\ IsFiniteSet(Begun(t))
  BY <1>4, <1>7, BegunFinite DEF Begun
<1> HIDE DEF u
<1>9. Begun(u) = Begun(t) \cup {k}
  <2>1. ASSUME NEW i \in Begun(u) PROVE i \in Begun(t) \cup {k}
    <3>1. i \in 1..k /\ u[i].f = "fb"
      BY <1>7 DEF Begun
    <3>2. CASE i # k
      <4>1. i \in 1..Len(t) /\ u[i] = t[i]
        BY <1>7, <3>1, <3>2
      <4> QED  BY <3>1, <4>1 DEF Begun
    <3> QED  BY <3>2
  <2>2. ASSUME NEW i \in Begun(t) PROVE i \in Begun(u)
    <3>1. i \in 1..Len(t) /\ t[i].f = "fb"
      BY DEF Begun
    <3>2. i \in 1..k /\ i # k
      BY <1>7, <3>1
    <3> QED  BY <1>7, <3>1, <3>2 DEF Begun
  <2>3. k \in Begun(u)
    <3>1. k \in 1..k
      BY <1>7
    <3> QED  BY <1>1, <1>7, <3>1 DEF Begun
  <2> QED  BY <2>1, <2>2, <2>3
<1> HIDE DEF k
<1>10. Cardinality(Begun(t) \cup {k}) = Cardinality(Begun(t)) + 1
  BY <1>8, FS_AddElement
<1> QED  BY <1>4, <1>5, <1>9, <1>10

LEMMA BegunTaken ==
  ASSUME NEW s \in Seq(FieldSet), s # << >>
  PROVE  Cardinality(Begun(Tail(s))) =
           IF s[1].f = "fb" THEN Cardinality(Begun(s)) - 1 ELSE Cardinality(Begun(s))
<1> DEFINE t == Tail(s)
           A == Begun(t)
           B == Begun(s) \ {1}
           h == [i \in A |-> i + 1]
<1>1. /\ Len(s) \in Nat /\ Len(s) > 0 /\ Len(t) = Len(s) - 1 /\ t \in Seq(FieldSet)
      /\ \A i \in 1..Len(s) - 1 : t[i] = s[i + 1]
  OBVIOUS
<1> HIDE DEF t
<1>2. \A i \in A : i \in Nat /\ i + 1 \in B
  <2> SUFFICES ASSUME NEW i \in A PROVE i \in Nat /\ i + 1 \in B
    OBVIOUS
  <2>1. i \in 1..Len(s) - 1 /\ t[i].f = "fb"
    BY <1>1 DEF Begun
  <2>2. i + 1 \in 1..Len(s) /\ i + 1 # 1 /\ s[i + 1].f = "fb" /\ i \in Nat
    BY <1>1, <2>1
  <2> QED  BY <2>2 DEF Begun
<1>3. \A j \in B : j \in Nat /\ j - 1 \in A /\ (j - 1) + 1 = j
  <2> SUFFICES ASSUME NEW j \in B PROVE j \in Nat /\ j - 1 \in A /\ (j - 1) + 1 = j
    OBVIOUS
  <2>1. j \in 1..Len(s) /\ j # 1 /\ s[j].f = "fb"
    BY DEF Begun
  <2>2. j - 1 \in 1..Len(s) - 1 /\ (j - 1) + 1 = j /\ j \in Nat
    BY <1>1, <2>1
  <2>3. t[j - 1] = s[j]
    BY <1>1, <2>2
  <2> QED  BY <1>1, <2>1, <2>2, <2>3 DEF Begun
<1> HIDE DEF A, B
<1>4. h \in [A -> B]
  BY <1>2
<1>5. \A i, j \in A : h[i] = h[j] => i = j
  BY <1>2
<1>6. \A j \in B : \E i \in A : h[i] = j
  <2> SUFFICES ASSUME NEW j \in B PROVE \E i \in A : h[i] = j
    OBVIOUS
  <2>1. j - 1 \in A /\ h[j - 1] = j
    BY <1>3
  <2> QED  BY <2>1
<1> HIDE DEF h
<1>7. h \in Bijection(A, B)
  BY <1>4, <1>5, <1>6, Fun_IsBij
<1>8. ExistsBijection(A, B)
  BY <1>7, Fun_ExistsBij
<1>9. IsFiniteSet(A) /\ IsFiniteSet(Begun(s))
  BY <1>1, BegunFinite DEF A
<1>10. Cardinality(B) = Cardinality(A)
  BY <1>8, <1>9, FS_Bijection
<1>11. Cardinality(B) = IF 1 \in Begun(s) THEN Cardinality(Begun(s)) - 1 ELSE Cardinality(Begun(s))
  BY <1>9, FS_RemoveElement DEF B
<1>12. 1 \in Begun(s) <=> s[1].f = "fb"
  BY <1>1 DEF Begun
<1> QED  BY <1>10, <1>11, <1>12 DEF A, t

-----------------------------------------------------------------------------
(* What a step of the client does to the update in flight.                 *)

(* Inside a rectangle the update carries something: it ends in a request.  *)
Updates == pc \in {"payload", "row", "runs"} => upd = 1

LEMMA UpdatesStep ==
  ASSUME Updates, Client
  PROVE  Updates'
<1> USE DEF End, AwaitInit, NextMessage, Updates
<1>1. CASE ReadVersion \/ ReadSecNum \/ ReadReasonLength \/ ReadReason \/ ReadSecTypes \/ ReadSecResult
           \/ ReadInit \/ ReadName
  BY <1>1 DEF ReadVersion, ReadSecNum, ReadReasonLength, ReadReason, ReadSecTypes, ReadSecResult,
     ReadInit, ReadName
<1>2. CASE ReadType \/ ReadColourMap \/ ReadCutText \/ ReadSkipped \/ ReadExtHeader
  BY <1>2 DEF ReadType, ReadColourMap, ReadCutText, ReadSkipped, ReadExtHeader
<1>3. CASE ReadExtBody
  BY <1>3 DEF ReadExtBody, ByeBye, DisplayConfiguration, EventConfiguration, OtherExtension, Crash
<1>4. ASSUME NEW n, NEW s, NEW u, NEW i, NextRect(n, s, u, i)
      PROVE  pc' \in {"rect", "type"}
  BY <1>4 DEF NextRect
<1>5. CASE ReadUpdateHeader
  BY <1>4, <1>5 DEF ReadUpdateHeader
<1>6. CASE ReadPayload \/ ReadRuns
  BY <1>4, <1>6 DEF ReadPayload, ReadRuns
<1>7. CASE ReadRow
  BY <1>7 DEF ReadRow, parse
<1>8. CASE ReadRect
  <2>1. PICK q : Raw(q) \/ ContextInformation(q) \/ DesktopSize(q) \/ RunLength(q) \/ UnknownEncoding(q)
    BY <1>8 DEF ReadRect
  <2>2. pc' \in {"rect", "type"} \/ upd' = 1
    BY <1>4, <2>1 DEF Raw, ContextInformation, DesktopSize, RunLength, UnknownEncoding, Payload
  <2> QED  BY <2>2
<1> QED  BY <1>1, <1>2, <1>3, <1>5, <1>6, <1>7, <1>8 DEF Client

(* The update is begun, goes on, ends in a request; a rectangle that the   *)
(* client does not know is skipped; the first request is written; anything *)
(* else.                                                                   *)
Opens ==
  /\ pc = "fb" /\ sent' = sent /\ status' = status
  /\ \E v \in Seen("fb") : Read("fb", 3, v) /\ (v > 0 => pc' \in Inner)
Inside == pc \in Inner /\ pc' \in Inner /\ sent' = sent /\ status' = status
Closes ==
  /\ pc \in Inner /\ pc' \notin Inner /\ status' = status
  /\ \E x \in OutMsgs : x.m = "request" /\ sent' = Append(sent, x)
Skips == pc = "rect" /\ \E q : Read("rect", 12, q) /\ q.e = "other"
Asks ==
  /\ pc = "extbody" /\ pc' \notin Inner /\ status = 1 /\ status' = 2
  /\ \E x \in OutMsgs : x.m = "request" /\ sent' = Append(Append(Append(sent, Out("event")), Out("pixelformat")), x)
Passes ==
  /\ pc \notin Inner \cup {"fb"} /\ pc' \notin Inner
  /\ (status' = 2) <=> (status = 2)
  /\ \E ms \in Seq(OutMsgs) : sent' = sent \o ms /\ ~Has(ms, "request")

LEMMA NothingSent ==
  ASSUME ClientInv, sent' = sent
  PROVE  \E ms \in Seq(OutMsgs) : sent' = sent \o ms /\ ~Has(ms, "request")
<1>1. sent \in Seq(OutMsgs)
  BY DEF ClientInv, ClientType
<1>2. << >> \in Seq(OutMsgs) /\ sent \o << >> = sent /\ ~Has(<< >>, "request")
  BY <1>1 DEF Has
<1> QED  BY <1>2

LEMMA OneSent ==
  ASSUME ClientInv, NEW m \in DOMAIN Rank, m # "request", sent' = Append(sent, Out(m))
  PROVE  \E ms \in Seq(OutMsgs) : sent' = sent \o ms /\ ~Has(ms, "request")
<1> DEFINE x == Out(m)
<1>1. sent \in Seq(OutMsgs) /\ x \in OutMsgs /\ x.m = m
  BY OutType DEF ClientInv, ClientType
<1> HIDE DEF x
<1>2. << x >> \in Seq(OutMsgs) /\ Append(sent, x) = sent \o << x >> /\ ~Has(<< x >>, "request")
  BY <1>1 DEF Has
<1> QED  BY <1>2 DEF x

LEMMA NextRectFlows ==
  ASSUME ClientInv, NEW n, NEW s \in Nat \X Nat, NEW i \in {0, 1}, NextRect(n, s, 1, i),
         pc \in Inner, status' = status
  PROVE  Inside \/ Closes
<1>1. sent \in Seq(OutMsgs) /\ Request(i, s) \in OutMsgs /\ Request(i, s).m = "request"
  BY OutType DEF ClientInv, ClientType
<1>2. CASE n > 0
  BY <1>2 DEF NextRect, Inside, Inner
<1>3. CASE ~(n > 0)
  <2>1. pc' = "type" /\ sent' = sent \o << Request(i, s) >>
    BY <1>3 DEF NextRect, NextMessage, Write
  <2>2. sent \o << Request(i, s) >> = Append(sent, Request(i, s))
    BY <1>1
  <2> QED  BY <1>1, <2>1, <2>2 DEF Closes, Inner
<1> QED  BY <1>2, <1>3

LEMMA ClientFlows ==
  ASSUME ClientInv, Updates, Client, pc' \notin {"ended", "crashed"},
         pc = "extbody" /\ DisplayConfiguration => status' = 1
  PROVE  Opens \/ Inside \/ Closes \/ Skips \/ Asks \/ Passes
<1>0. size \in Nat \X Nat /\ inc \in {0, 1} /\ sent \in Seq(OutMsgs) /\ status \in 0..3
  BY DEF ClientInv, ClientType
<1>1. CASE ReadVersion \/ ReadSecNum \/ ReadReasonLength \/ ReadReason \/ ReadSecTypes \/ ReadSecResult
           \/ ReadInit \/ ReadName
  <2>1. pc \in Setup /\ status' = status
    BY <1>1 DEF ReadVersion, ReadSecNum, ReadReasonLength, ReadReason, ReadSecTypes, ReadSecResult,
       ReadInit, ReadName, Handshake, config, Setup
  <2>2. Shakes \/ Declares
    BY <1>1, <2>1, ClientMoves DEF Client, Works, Leaves, Starts, Crashes, Within, Finishes, Flows,
       Setup, Loop, Inner
  <2>3. CASE Shakes
    <3>1. PICK ms \in Seq(OutMsgs) :
            /\ sent' = sent \o ms
            /\ \A j \in 1..Len(ms) : ms[j].m \in {"version", "security", "clientinit"}
      BY <2>3 DEF Shakes
    <3>2. ~Has(ms, "request")
      BY <3>1 DEF Has
    <3>3. pc' \notin Inner /\ pc \notin Inner \cup {"fb"}
      BY <2>3 DEF Shakes, Setup, Inner
    <3> QED  BY <2>1, <3>1, <3>2, <3>3 DEF Passes
  <2>4. CASE Declares
    <3>1. pc' \notin Inner /\ pc \notin Inner \cup {"fb"}
      BY <2>4 DEF Declares, Inner
    <3>2. "encodings" \in DOMAIN Rank /\ sent' = Append(sent, Out("encodings"))
      BY <2>4, RankDomain DEF Declares
    <3> QED  BY <2>1, <3>1, <3>2, OneSent DEF Passes
  <2> QED  BY <2>2, <2>3, <2>4
<1>2. CASE ReadType \/ ReadColourMap \/ ReadCutText \/ ReadSkipped \/ ReadExtHeader
  <2>1. /\ pc \in {"type", "cmap", "cut", "skip", "ext"} /\ sent' = sent /\ status' = status
        /\ pc' \in {"type", "fb", "cmap", "cut", "ext", "skip", "extbody"}
    BY <1>2 DEF ReadType, ReadColourMap, ReadCutText, ReadSkipped, ReadExtHeader, NextMessage, Handshake, config
  <2>2. pc' \notin Inner /\ pc \notin Inner \cup {"fb"}
    BY <2>1 DEF Inner
  <2> QED  BY <2>1, <2>2, NothingSent DEF Passes
<1>3. CASE ReadExtBody
  <2>1. pc = "extbody" /\ (DisplayConfiguration \/ EventConfiguration \/ OtherExtension)
    BY <1>3 DEF ReadExtBody, ByeBye, End
  <2>2. pc' = "type" /\ pc' \notin Inner /\ pc \notin Inner \cup {"fb"}
    BY <2>1 DEF DisplayConfiguration, EventConfiguration, OtherExtension, NextMessage, Crash, Inner
  <2>3. CASE DisplayConfiguration
    <3>1. sent' = sent \o << Out("display") >> /\ status = 0 /\ status' = 1
      BY <2>1, <2>3 DEF DisplayConfiguration, Write, Crash
    <3>2. Out("display") \in OutMsgs /\ "display" \in DOMAIN Rank
      BY OutType, RankDomain
    <3>3. sent \o << Out("display") >> = Append(sent, Out("display"))
      BY <1>0, <3>2
    <3> QED  BY <2>2, <3>1, <3>2, <3>3, OneSent DEF Passes
  <2>4. CASE EventConfiguration
    <3> DEFINE a == Out("event")
               c == Out("pixelformat")
               d == Request(0, size)
    <3>1. sent' = sent \o <<a, c, d>> /\ status = 1 /\ status' = 2
      BY <2>4 DEF EventConfiguration, Write, Crash
    <3>2. a \in OutMsgs /\ c \in OutMsgs /\ d \in OutMsgs /\ d.m = "request"
      BY <1>0, OutType, RankDomain
    <3> HIDE DEF a, c, d
    <3>3. sent' = Append(Append(Append(sent, a), c), d)
      BY <1>0, <3>1, <3>2
    <3> QED  BY <2>1, <2>2, <3>1, <3>2, <3>3 DEF Asks, a, c
  <2>5. CASE OtherExtension
    BY <2>2, <2>5, NothingSent DEF OtherExtension, config, Passes
  <2> QED  BY <2>1, <2>3, <2>4, <2>5
<1>4. CASE ReadUpdateHeader
  <2>1. PICK v \in Seen("fb") : Read("fb", 3, v) /\ NextRect(v, size, 0, 1)
    BY <1>4 DEF ReadUpdateHeader
  <2>2. pc = "fb" /\ status' = status
    BY <1>4 DEF ReadUpdateHeader, config
  <2>3. sent' = sent /\ (v > 0 => pc' \in Inner)
    BY <2>1 DEF NextRect, Inner
  <2> QED  BY <2>1, <2>2, <2>3 DEF Opens
<1>5. CASE ReadRect
  <2>1. PICK q \in Seen("rect") :
          /\ Read("rect", 12, q)
          /\ Raw(q) \/ ContextInformation(q) \/ DesktopSize(q) \/ RunLength(q) \/ UnknownEncoding(q)
    BY <1>5 DEF ReadRect
  <2>2. pc = "rect" /\ pc \in Inner /\ status' = status
    BY <1>5 DEF ReadRect, config, Inner
  <2>3. <<q.w, q.h>> \in Nat \X Nat
    <3>1. q \in Rects
      BY SeenTypes
    <3> QED  BY <3>1 DEF Rects
  <2>4. \/ sent' = sent /\ pc' \in {"payload", "row"}
        \/ NextRect(num - 1, size, 1, inc)
        \/ NextRect(num - 1, <<q.w, q.h>>, 1, 0)
        \/ q.e = "other"
    BY <2>1 DEF Raw, ContextInformation, DesktopSize, RunLength, UnknownEncoding, Payload
  <2>5. CASE sent' = sent /\ pc' \in {"payload", "row"}
    BY <2>2, <2>5 DEF Inside, Inner
  <2>6. CASE NextRect(num - 1, size, 1, inc)
    BY <1>0, <2>2, <2>6, NextRectFlows
  <2>7. CASE NextRect(num - 1, <<q.w, q.h>>, 1, 0)
    BY <2>2, <2>3, <2>7, NextRectFlows
  <2>8. CASE q.e = "other"
    BY <2>1, <2>2, <2>8 DEF Skips
  <2> QED  BY <2>4, <2>5, <2>6, <2>7, <2>8
<1>6. CASE ReadPayload \/ ReadRuns
  <2>1. /\ pc \in {"payload", "runs"} /\ status' = status
        /\ \/ NextRect(num - 1, size, upd, inc)
           \/ pc' = "row" /\ sent' = sent
    BY <1>6 DEF ReadPayload, ReadRuns, config
  <2>2. upd = 1 /\ pc \in Inner
    BY <2>1 DEF Updates, Inner
  <2>3. CASE NextRect(num - 1, size, upd, inc)
    BY <1>0, <2>1, <2>2, <2>3, NextRectFlows
  <2>4. CASE pc' = "row" /\ sent' = sent
    BY <2>1, <2>2, <2>4 DEF Inside, Inner
  <2> QED  BY <2>1, <2>3, <2>4
<1>7. CASE ReadRow
  BY <1>7 DEF ReadRow, config, Inside, Inner
<1> QED  BY <1>1, <1>2, <1>3, <1>4, <1>5, <1>6, <1>7 DEF Client

-----------------------------------------------------------------------------
(* The invariant: what is in flight, counted over the client's output that *)
(* the server has not read, the server, the stream and the parser.         *)

InFlight ==
  Cardinality(Waiting(sent, srvPos)) + srvReq + Cardinality(Begun(s2c)) + (IF pc \in Inner THEN 1 ELSE 0)

FlowInv ==
  /\ Updates
  /\ ~closed /\ synced /\ pc # "ended" => InFlight = IF status = 2 THEN 1 ELSE 0

LEMMA InFlightNext ==
  InFlight' = Cardinality(Waiting(sent', srvPos')) + srvReq' + Cardinality(Begun(s2c'))
                + (IF pc' \in Inner THEN 1 ELSE 0)
BY DEF InFlight, Waiting, Begun

LEMMA CountsType ==
  ASSUME TypeInv, FieldsInv
  PROVE  /\ sent \in Seq(OutMsgs) /\ srvPos \in 0..Len(sent) /\ srvPos \in Nat /\ srvReq \in Nat
         /\ s2c \in Seq(FieldSet)
         /\ Cardinality(Waiting(sent, srvPos)) \in Nat /\ Cardinality(Begun(s2c)) \in Nat
<1>1. sent \in Seq(OutMsgs) /\ srvPos \in 0..Len(sent) /\ srvReq \in Nat
  BY DEF TypeInv, ClientInv, ClientType, ServerType
<1>2. srvPos \in Nat /\ s2c \in Seq(FieldSet)
  BY <1>1, FieldsType
<1> QED  BY <1>1, <1>2, WaitingFinite, BegunFinite

LEMMA WaitingOther ==
  ASSUME NEW s \in Seq(OutMsgs), NEW x \in OutMsgs, NEW p \in Nat, x.m # "request"
  PROVE  Waiting(Append(s, x), p) = Waiting(s, p) /\ Append(s, x) \in Seq(OutMsgs)
         /\ Len(Append(s, x)) = Len(s) + 1
<1>1. /\ << x >> \in Seq(OutMsgs) /\ ~Has(<< x >>, "request") /\ Append(s, x) = s \o << x >>
      /\ Append(s, x) \in Seq(OutMsgs) /\ Len(Append(s, x)) = Len(s) + 1
  BY DEF Has
<1> QED  BY <1>1, WaitingQuiet

(* A field that is taken from the stream takes an update from it if it is  *)
(* the header of one.                                                      *)
LEMMA BegunRead ==
  ASSUME Strict = TRUE, FieldsInv, TypeInv, NEW k, NEW n, NEW v, Read(k, n, v), synced', ~eof'
  PROVE  /\ k # "fb" => Cardinality(Begun(s2c')) = Cardinality(Begun(s2c))
         /\ k = "fb" /\ n > 0 => /\ Cardinality(Begun(s2c')) = Cardinality(Begun(s2c)) - 1
                                 /\ v \in Nat \ {0}
<1>1. s2c \in Seq(FieldSet)
  BY FieldsType
<1>2. \/ n = 0 /\ s2c' = s2c
      \/ n > 0 /\ s2c # << >> /\ Head(s2c).f = k /\ v = Head(s2c).v /\ s2c' = Tail(s2c)
  BY Consumed
<1>3. CASE n = 0 /\ s2c' = s2c
  <2>1. ~(n > 0)
    BY <1>3
  <2> QED  BY <1>3, <2>1
<1>4. CASE n > 0 /\ s2c # << >> /\ Head(s2c).f = k /\ v = Head(s2c).v /\ s2c' = Tail(s2c)
  <2>1. Head(s2c) = s2c[1] /\ Head(s2c) \in Legal(srvBye, TRUE)
    BY <1>4, LegalHead
  <2>2. Cardinality(Begun(Tail(s2c))) =
          IF s2c[1].f = "fb" THEN Cardinality(Begun(s2c)) - 1 ELSE Cardinality(Begun(s2c))
    BY <1>1, <1>4, BegunTaken
  <2>3. k = "fb" => v \in Nat \ {0}
    BY <1>4, <2>1 DEF Legal
  <2> QED  BY <1>4, <2>1, <2>2, <2>3
<1> QED  BY <1>2, <1>3, <1>4

LEMMA FlowClient ==
  ASSUME Strict = TRUE, ShortReads = FALSE, StreamAll, FlowInv, Client, ~lowRle'
  PROVE  FlowInv'
<1>1. Updates'
  BY UpdatesStep DEF FlowInv
<1>2. SUFFICES ASSUME ~closed', synced', pc' # "ended"
               PROVE  InFlight' = IF status' = 2 THEN 1 ELSE 0
  BY <1>1 DEF FlowInv
<1>3. StreamAll' /\ UNCHANGED <<closed, srvPos, srvReq>>
  BY StreamNext, ClientReads DEF Next, server
<1>4. ~eof'
  BY <1>2, <1>3 DEF StreamAll, Starting
<1>a. pc' # "crashed" /\ (pc = "extbody" /\ DisplayConfiguration => status' = 1)
  BY CalmStep DEF StreamAll, Calm
<1>5. PICK w : Moved(w)
  BY <1>2, <1>a, ClientParses DEF StreamAll, TypeInv
<1>6. pc # "ended" /\ synced /\ ~closed
  BY <1>2, <1>3, <1>5 DEF Moved, StreamAll, Boundary
<1>7. InFlight = IF status = 2 THEN 1 ELSE 0
  BY <1>6 DEF FlowInv
<1> DEFINE W == Cardinality(Waiting(sent, srvPos))
           V == Cardinality(Waiting(sent', srvPos))
           B == Cardinality(Begun(s2c))
           C == Cardinality(Begun(s2c'))
<1>8. /\ sent \in Seq(OutMsgs) /\ srvPos \in 0..Len(sent) /\ srvPos \in Nat /\ srvReq \in Nat
      /\ W \in Nat /\ B \in Nat
  BY CountsType DEF StreamAll
<1>9. InFlight = W + srvReq + B + (IF pc \in Inner THEN 1 ELSE 0)
  BY DEF InFlight
<1>10. InFlight' = V + srvReq + C + (IF pc' \in Inner THEN 1 ELSE 0)
  BY <1>3, InFlightNext
<1>11. pc # "fb" => C = B
  <2>1. pc # "fb" => Kind(Now) # "fb"
    BY PlaceFields DEF Kind, Now
  <2> QED  BY <1>2, <1>4, <1>5, <2>1, BegunRead DEF Moved, StreamAll
<1>12. CASE Opens
  <2>1. PICK v \in Seen("fb") : Read("fb", 3, v) /\ (v > 0 => pc' \in Inner)
    BY <1>12 DEF Opens
  <2>2. C = B - 1 /\ v \in Nat \ {0}
    BY <1>2, <1>4, <2>1, BegunRead DEF StreamAll
  <2>3. V = W /\ status' = status /\ pc \notin Inner /\ pc' \in Inner
    BY <1>12, <2>1, <2>2 DEF Opens, Inner
  <2> HIDE DEF W, V, B, C
  <2> QED  BY <1>7, <1>8, <1>9, <1>10, <2>2, <2>3
<1>13. CASE Inside
  <2>1. V = W /\ C = B /\ status' = status /\ pc \in Inner /\ pc' \in Inner
    BY <1>11, <1>13 DEF Inside, Inner
  <2> HIDE DEF W, V, B, C
  <2> QED  BY <1>7, <1>9, <1>10, <2>1
<1>14. CASE Closes
  <2>1. PICK x \in OutMsgs : x.m = "request" /\ sent' = Append(sent, x)
    BY <1>14 DEF Closes
  <2>2. V = W + 1
    BY <1>8, <2>1, WaitingMore
  <2>3. C = B /\ status' = status /\ pc \in Inner /\ pc' \notin Inner
    BY <1>11, <1>14 DEF Closes, Inner
  <2> HIDE DEF W, V, B, C
  <2> QED  BY <1>7, <1>8, <1>9, <1>10, <2>2, <2>3
<1>15. CASE Skips
  <2>1. PICK q : Read("rect", 12, q) /\ q.e = "other"
    BY <1>15 DEF Skips
  <2>2. s2c # << >> /\ Head(s2c).f = "rect" /\ q = Head(s2c).v
    BY <1>2, <1>4, <2>1, Consumed
  <2>3. Head(s2c) \in Legal(srvBye, TRUE)
    BY <2>2, LegalHead DEF StreamAll
  <2>4. FALSE
    BY <2>1, <2>2, <2>3 DEF Legal
  <2> QED  BY <2>4
<1>16. CASE Asks
  <2> DEFINE a == Out("event")
             c == Out("pixelformat")
             s == Append(Append(sent, a), c)
  <2>1. PICK x \in OutMsgs : x.m = "request" /\ sent' = Append(s, x)
    BY <1>16 DEF Asks
  <2>2. a \in OutMsgs /\ a.m # "request" /\ c \in OutMsgs /\ c.m # "request"
    BY OutType, RankDomain
  <2> HIDE DEF a, c
  <2>3. Waiting(s, srvPos) = Waiting(sent, srvPos) /\ s \in Seq(OutMsgs) /\ Len(s) = Len(sent) + 2
    <3> DEFINE t == Append(sent, a)
    <3>1. Waiting(t, srvPos) = Waiting(sent, srvPos) /\ t \in Seq(OutMsgs) /\ Len(t) = Len(sent) + 1
      BY <1>8, <2>2, WaitingOther
    <3>2. s = Append(t, c)
      OBVIOUS
    <3> HIDE DEF t, s
    <3>3. Waiting(s, srvPos) = Waiting(t, srvPos) /\ s \in Seq(OutMsgs) /\ Len(s) = Len(t) + 1
      BY <1>8, <2>2, <3>1, <3>2, WaitingOther
    <3>4. Len(sent) \in Nat
      BY <1>8
    <3> QED  BY <3>1, <3>3, <3>4
  <2>4. srvPos \in 0..Len(s)
    BY <1>8, <2>3
  <2> HIDE DEF s
  <2>5. V = W + 1
    BY <2>1, <2>3, <2>4, WaitingMore
  <2>6. C = B /\ status = 1 /\ status' = 2 /\ pc \notin Inner /\ pc' \notin Inner
    BY <1>11, <1>16 DEF Asks, Inner
  <2> HIDE DEF W, V, B, C
  <2> QED  BY <1>7, <1>8, <1>9, <1>10, <2>5, <2>6
<1>17. CASE Passes
  <2>1. PICK ms \in Seq(OutMsgs) : sent' = sent \o ms /\ ~Has(ms, "request")
    BY <1>17 DEF Passes
  <2>2. V = W
    BY <1>8, <2>1, WaitingQuiet
  <2>3. C = B /\ (status' = 2 <=> status = 2) /\ pc \notin Inner /\ pc' \notin Inner
    BY <1>11, <1>17 DEF Passes
  <2> HIDE DEF W, V, B, C
  <2> QED  BY <1>7, <1>8, <1>9, <1>10, <2>2, <2>3
<1> QED
  BY <1>2, <1>a, <1>12, <1>13, <1>14, <1>15, <1>16, <1>17, ClientFlows DEF StreamAll, TypeInv, FlowInv

(* The server reads a request, or begins the update that answers one.      *)
LEMMA FlowServer ==
  ASSUME Strict = TRUE, ShortReads = FALSE, StreamAll, FlowInv, Server, ~lowRle'
  PROVE  FlowInv'
<1>1. UNCHANGED <<closed, synced, pc, status, upd, sent>>
  BY DEF Server, client, config, parse
<1>2. SUFFICES ASSUME ~closed, synced, pc # "ended"
               PROVE  InFlight' = InFlight
  BY <1>1 DEF FlowInv, Updates
<1>3. /\ sent \in Seq(OutMsgs) /\ srvPos \in 0..Len(sent) /\ srvPos \in Nat /\ srvReq \in Nat
      /\ s2c \in Seq(FieldSet)
      /\ Cardinality(Waiting(sent, srvPos)) \in Nat /\ Cardinality(Begun(s2c)) \in Nat
  BY CountsType DEF StreamAll
<1>4. PICK fs : Sends(fs)
  BY <1>2, <1>3, NoByeReceived, ServerSends DEF StreamAll
<1>5. s2c' = s2c \o fs
  BY <1>2, <1>4 DEF Sends, Send
<1> DEFINE W == Cardinality(Waiting(sent, srvPos))
           V == Cardinality(Waiting(sent, srvPos'))
           B == Cardinality(Begun(s2c))
           C == Cardinality(Begun(s2c'))
           P == IF pc \in Inner THEN 1 ELSE 0
<1>6. InFlight = W + srvReq + B + P /\ InFlight' = V + srvReq' + C + P /\ P \in Nat
  BY <1>1, InFlightNext DEF InFlight
<1>7. CASE fs \in Seq(Legal(srvBye', FALSE)) /\ Takes
  <2>1. srvBye' \in BOOLEAN
    BY StreamNext DEF Next, StreamAll, TypeInv, Flags
  <2>2. fs \in Seq(FieldSet)
    BY <1>7, <2>1, LegalWidens
  <2>3. \A i \in 1..Len(fs) : fs[i].f # "fb"
    <3> SUFFICES ASSUME NEW i \in 1..Len(fs) PROVE fs[i].f # "fb"
      OBVIOUS
    <3>1. fs[i] \in Legal(srvBye', FALSE)
      BY <1>7, EachIn
    <3> QED  BY <3>1 DEF Legal
  <2>4. C = B
    BY <1>3, <1>5, <2>2, <2>3, BegunQuiet
  <2>5. V + srvReq' = W + srvReq
    <3>1. CASE Receives("request") /\ srvReq' = srvReq + 1
      <4>1. srvPos < Len(sent) /\ sent[srvPos + 1].m = "request" /\ srvPos' = srvPos + 1
        BY <3>1 DEF Receives
      <4>2. V = W - 1
        BY <1>3, <4>1, WaitingTaken
      <4> HIDE DEF V, W
      <4> QED  BY <1>3, <3>1, <4>2 DEF W
    <3>2. CASE (\E m \in DOMAIN Rank \ {"request"} : Receives(m)) /\ srvReq' = srvReq
      <4>1. srvPos < Len(sent) /\ sent[srvPos + 1].m # "request" /\ srvPos' = srvPos + 1
        BY <3>2 DEF Receives
      <4>2. V = W
        BY <1>3, <4>1, WaitingTaken
      <4> QED  BY <3>2, <4>2
    <3>3. CASE UNCHANGED <<srvPos, srvReq>>
      BY <3>3
    <3> QED  BY <1>7, <3>1, <3>2, <3>3 DEF Takes
  <2> HIDE DEF W, V, B, C, P
  <2> QED  BY <1>6, <2>4, <2>5
<1>8. CASE /\ fs = FbHeader(srvLeft') /\ srvLeft' \in Nat \ {0}
           /\ srvReq > 0 /\ srvReq' = srvReq - 1 /\ srvPos' = srvPos
  <2>1. C = B + 1
    BY <1>3, <1>5, <1>8, BegunMore
  <2>2. V = W
    BY <1>8
  <2> HIDE DEF V, C, P
  <2> QED  BY <1>3, <1>6, <1>8, <2>1, <2>2
<1> QED  BY <1>4, <1>7, <1>8 DEF Sends

(* With a strict server and reads that complete there is, once the session *)
(* is configured, exactly one update request or update in flight until the *)
(* connection goes, or the server sends a low run-length rectangle:        *)
(* requests neither pile up nor run dry.                                   *)
THEOREM VncOneUpdateInFlight ==
  ASSUME Strict = TRUE, ShortReads = FALSE
  PROVE  Spec => [](OneUpdateInFlight \/ lowRle)
<1>1. Init => FlowInv
  <2> SUFFICES ASSUME Init PROVE FlowInv
    OBVIOUS
  <2>1. PICK v \in Any("version") : s2c = << Field("version", 12, v) >>
    BY DEF Init
  <2>2. sent = << >> /\ srvPos = 0 /\ srvReq = 0 /\ pc = "version" /\ status = 0
    BY DEF Init
  <2>3. Begun(s2c) = {}
    <3>1. Field("version", 12, v).f # "fb"
      BY DEF Field
    <3> DEFINE f == Field("version", 12, v)
    <3> HIDE DEF f
    <3>2. Len(s2c) = 1 /\ s2c[1] = f
      BY <2>1 DEF f
    <3>3. \A i \in 1..Len(s2c) : i = 1
      BY <3>2
    <3>4. f.f # "fb"
      BY <3>1 DEF f
    <3> QED  BY <3>2, <3>3, <3>4 DEF Begun
  <2>4. Waiting(sent, srvPos) = {}
    BY <2>2 DEF Waiting
  <2>5. Cardinality({}) = 0
    BY FS_EmptySet
  <2>6. InFlight = 0
    BY <2>2, <2>3, <2>4, <2>5 DEF InFlight, Inner
  <2> QED  BY <2>2, <2>6 DEF FlowInv, Updates
<1>2. StreamAll /\ FlowInv /\ [Next]_vars /\ ~lowRle' => FlowInv'
  <2> SUFFICES ASSUME StreamAll, FlowInv, [Next]_vars, ~lowRle' PROVE FlowInv'
    OBVIOUS
  <2>1. CASE SrvClose
    <3>1. closed' = TRUE /\ pc' = pc /\ upd' = upd
      BY <2>1 DEF SrvClose, client, parse
    <3> QED  BY <3>1 DEF FlowInv, Updates
  <2>2. CASE UNCHANGED vars
    <3>1. UNCHANGED <<closed, synced, pc, status, upd, sent, srvPos, srvReq, s2c>>
      BY <2>2 DEF vars, stream, client, config, parse, server
    <3>2. InFlight' = InFlight
      BY <3>1, InFlightNext DEF InFlight
    <3> QED  BY <3>1, <3>2 DEF FlowInv, Updates
  <2> QED  BY <2>1, <2>2, FlowClient, FlowServer DEF Next
<1>3. FlowInv => OneUpdateInFlight
  <2>1. Unread("request") = Cardinality(Waiting(sent, srvPos)) /\ Fields("fb") = Cardinality(Begun(s2c))
    BY DEF Unread, Waiting, Fields, Begun
  <2>2. Updating <=> pc \in Inner
    BY DEF Updating, Inner
  <2> QED  BY <2>1, <2>2 DEF FlowInv, InFlight, OneUpdateInFlight
<1>4. TypeInv /\ Aligned /\ (lowRle \/ FlowInv) /\ [Next]_vars => (lowRle \/ FlowInv)'
  BY <1>2, LowRleStays, Zenon DEF Aligned
<1> QED  BY <1>1, <1>3, <1>4, AlignedAlways, PTL DEF Spec
=============================================================================
