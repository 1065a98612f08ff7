----------------------------- MODULE SsdpProofs -----------------------------
(***************************************************************************)
(* Proofs about SsdpTool, for all words, datagrams and bounds: what the    *)
(* loop of handle_ssdp computes for a datagram, and that the reports are   *)
(* those of the datagrams taken.                                           *)
(*                                                                         *)
(* The loop is a recursive function over the lines.  That it is one, and   *)
(* what it returns, is shown by the least line at which it would fail:     *)
(* a set of natural numbers that is not empty has a least element.         *)
(***************************************************************************)
EXTENDS SsdpTool, TLAPS, FiniteSetTheorems, WellFoundedInduction

LEMMA LeastElement ==
  ASSUME NEW T \in SUBSET Nat, T # {}
  PROVE  \E n \in T : \A m \in T : n <= m
<1> DEFINE R == {p \in Nat \X Nat : p[1] < p[2]}
<1>1. IsWellFoundedOn(R, Nat)
  BY NatLessThanWellFounded, Zenon DEF OpToRel
<1>2. PICK n \in T : \A m \in T : <<m, n>> \notin R
  <2> HIDE DEF R
  <2> QED  BY <1>1, WFMin
<1>3. ASSUME NEW m \in T PROVE n <= m
  <2>1. m \in Nat /\ n \in Nat
    OBVIOUS
  <2>2. <<m, n>> \in Nat \X Nat /\ <<m, n>>[1] = m /\ <<m, n>>[2] = n
    BY <2>1
  <2>3. ~(m < n)
    BY <1>2, <2>2
  <2> QED  BY <2>1, <2>3
<1> QED  BY <1>3

(* A set that holds 0 and, with each number below n, the next one, holds   *)
(* all numbers up to n.                                                    *)
LEMMA UpTo ==
  ASSUME NEW n \in Nat, NEW S, 0 \in S, \A i \in 1..n : i - 1 \in S => i \in S
  PROVE  0..n \subseteq S
<1> SUFFICES ASSUME ~(0..n \subseteq S) PROVE FALSE
  OBVIOUS
<1> DEFINE T == (0..n) \ S
<1>1. T \in SUBSET Nat /\ T # {}
  OBVIOUS
<1>2. PICK k \in T : \A m \in T : k <= m
  BY <1>1, LeastElement
<1>3. k \in 0..n /\ k \notin S /\ k # 0
  OBVIOUS
<1>4. k \in 1..n /\ k - 1 \in 0..n /\ ~(k <= k - 1)
  BY <1>3
<1>5. k - 1 \in S
  BY <1>2, <1>4
<1> QED  BY <1>3, <1>4, <1>5

-----------------------------------------------------------------------------
(* The loop.                                                               *)

LoopOf(d, n, f) == f = [i \in 0..n |-> IF i = 0 THEN Fresh ELSE HandleLine(f[i - 1], d[i])]

LEMMA LoopDefined ==
  ASSUME NEW d, NEW n \in Nat
  PROVE  \E f : LoopOf(d, n, f)
<1> DEFINE S == {i \in Nat : \E f : LoopOf(d, i, f)}
<1>1. 0 \in S
  <2> DEFINE f == [i \in 0..0 |-> Fresh]
  <2>1. f = [i \in 0..0 |-> IF i = 0 THEN Fresh ELSE HandleLine(f[i - 1], d[i])]
    OBVIOUS
  <2>2. LoopOf(d, 0, f)
    BY <2>1 DEF LoopOf
  <2> QED  BY <2>2
<1>2. ASSUME NEW k \in 1..n, k - 1 \in S PROVE k \in S
  <2>1. PICK g : LoopOf(d, k - 1, g)
    BY <1>2
  <2> DEFINE f == [i \in 0..k |-> IF i = 0 THEN Fresh ELSE HandleLine(g[i - 1], d[i])]
  <2>2. ASSUME NEW i \in 0..(k - 1) PROVE f[i] = g[i]
    <3>1. i \in 0..k
      OBVIOUS
    <3>2. f[i] = IF i = 0 THEN Fresh ELSE HandleLine(g[i - 1], d[i])
      BY <3>1
    <3> HIDE DEF f
    <3>3. g[i] = IF i = 0 THEN Fresh ELSE HandleLine(g[i - 1], d[i])
      BY <2>1 DEF LoopOf
    <3> QED  BY <3>2, <3>3
  <2>3. ASSUME NEW i \in 0..k PROVE f[i] = IF i = 0 THEN Fresh ELSE HandleLine(f[i - 1], d[i])
    <3>1. f[i] = IF i = 0 THEN Fresh ELSE HandleLine(g[i - 1], d[i])
      OBVIOUS
    <3> HIDE DEF f
    <3>2. i # 0 => i - 1 \in 0..(k - 1)
      OBVIOUS
    <3>3. i # 0 => f[i - 1] = g[i - 1]
      BY <2>2, <3>2
    <3> QED  BY <3>1, <3>3
  <2>4. f = [i \in 0..k |-> f[i]]
    OBVIOUS
  <2> HIDE DEF f
  <2>5. f = [i \in 0..k |-> IF i = 0 THEN Fresh ELSE HandleLine(f[i - 1], d[i])]
    BY <2>3, <2>4
  <2>6. LoopOf(d, k, f) /\ k \in Nat
    BY <2>5 DEF LoopOf
  <2> QED  BY <2>6
<1> HIDE DEF S
<1>3. 0..n \subseteq S
  BY <1>1, <1>2, UpTo
<1>4. n \in S
  BY <1>3
<1> QED  BY <1>4 DEF S

(* A word of the last of the first n lines of d that begins with the key.  *)
WithKey(d, n, key) == {i \in 1..n : d[i].key = key /\ d[i].word # None}
LastWord(d, n, key, w) ==
  \/ WithKey(d, n, key) = {} /\ w = None
  \/ \E i \in WithKey(d, n, key) : w = d[i].word /\ \A j \in WithKey(d, n, key) : j <= i

LEMMA LastWordNext ==
  ASSUME NEW d, NEW n \in Nat, NEW key, NEW w, LastWord(d, n, key, w),
         NEW v, v = IF d[n + 1].key = key /\ d[n + 1].word # None THEN d[n + 1].word ELSE w
  PROVE  LastWord(d, n + 1, key, v)
<1>1. CASE d[n + 1].key = key /\ d[n + 1].word # None
  <2>1. n + 1 \in WithKey(d, n + 1, key)
    BY <1>1 DEF WithKey
  <2>2. \A j \in WithKey(d, n + 1, key) : j <= n + 1
    BY DEF WithKey
  <2> QED  BY <1>1, <2>1, <2>2 DEF LastWord
<1>2. CASE ~(d[n + 1].key = key /\ d[n + 1].word # None)
  <2>1. WithKey(d, n + 1, key) = WithKey(d, n, key)
    BY <1>2 DEF WithKey
  <2> QED  BY <1>2, <2>1 DEF LastWord
<1> QED  BY <1>1, <1>2

LEMMA LastWordSaid ==
  ASSUME NEW d, NEW key, NEW w, LastWord(d, Len(d), key, w), Len(d) \in Nat
  PROVE  w = Said(d, key)
<1> DEFINE at == WithKey(d, Len(d), key)
<1>1. Said(d, key) = IF at = {} THEN None ELSE d[CHOOSE i \in at : \A j \in at : j <= i].word
  BY DEF Said, WithKey
<1>2. \A i \in at : i \in Nat
  BY DEF WithKey
<1>3. CASE at = {}
  BY <1>1, <1>3 DEF LastWord
<1>4. CASE at # {}
  <2>1. PICK i \in at : w = d[i].word /\ \A j \in at : j <= i
    BY <1>4 DEF LastWord
  <2> HIDE DEF at
  <2> DEFINE k == CHOOSE h \in at : \A j \in at : j <= h
  <2>2. k \in at /\ \A j \in at : j <= k
    BY <2>1
  <2> HIDE DEF k
  <2>3. k = i
    BY <1>2, <2>1, <2>2
  <2> QED  BY <1>1, <1>4, <2>1, <2>3 DEF k
<1> QED  BY <1>3, <1>4

(* What the locals of handle_ssdp hold after n lines.                      *)
Holds(d, n, s) ==
  /\ s \in [st : Words \cup {None}, location : Words \cup {None}, found : BOOLEAN]
  /\ LastWord(d, n, "ST", s.st) /\ LastWord(d, n, "Location", s.location)
  /\ s.found <=> \E i \in 1..n : d[i].key = "ST" /\ d[i].word = TAS

LEMMA LineHandled ==
  ASSUME NEW d \in Seq(Lines), NEW n \in Nat, n + 1 <= Len(d), NEW s, Holds(d, n, s)
  PROVE  Holds(d, n + 1, HandleLine(s, d[n + 1]))
<1> DEFINE l == d[n + 1]
           t == HandleLine(s, l)
           st == IF l.word # None THEN l.word ELSE s.st
<1>1. l \in Lines /\ TAS \in Words /\ None \notin Words
  <2>1. n + 1 \in 1..Len(d)
    OBVIOUS
  <2> QED  BY <2>1, SsdpAssumption
<1>2. l.key \in {"ST", "Location"} /\ l.word \in Words \cup {None}
  BY <1>1 DEF Lines
<1>3. s \in [st : Words \cup {None}, location : Words \cup {None}, found : BOOLEAN]
  BY DEF Holds
<1>4. t = IF l.key = "ST" THEN [s EXCEPT !.st = st, !.found = @ \/ st = TAS]
          ELSE IF l.word # None THEN [s EXCEPT !.location = l.word] ELSE s
  BY DEF HandleLine
<1>5. \A i : i \in 1..(n + 1) <=> i \in 1..n \/ i = n + 1
  OBVIOUS
<1> HIDE DEF l, t
<1>6. CASE l.key = "ST"
  <2>1. t.st = st /\ t.location = s.location /\ (t.found <=> (s.found \/ st = TAS))
        /\ t \in [st : Words \cup {None}, location : Words \cup {None}, found : BOOLEAN]
    BY <1>2, <1>3, <1>4, <1>6
  <2>2. LastWord(d, n + 1, "ST", t.st)
    BY <1>6, <2>1, LastWordNext DEF Holds, l
  <2>3. LastWord(d, n + 1, "Location", t.location)
    BY <1>6, <2>1, LastWordNext DEF Holds, l
  <2>4. t.found <=> \E i \in 1..(n + 1) : d[i].key = "ST" /\ d[i].word = TAS
    <3>1. CASE l.word # None
      <4>1. t.found <=> (s.found \/ l.word = TAS)
        BY <2>1, <3>1
      <4>2. (\E i \in 1..(n + 1) : d[i].key = "ST" /\ d[i].word = TAS)
              <=> (s.found \/ l.word = TAS)
        BY <1>5, <1>6 DEF Holds, l
      <4> QED  BY <4>1, <4>2
    <3>2. CASE l.word = None
      <4>1. l.word # TAS
        BY <1>1, <3>2
      <4>2. (\E i \in 1..(n + 1) : d[i].key = "ST" /\ d[i].word = TAS) <=> s.found
        BY <1>5, <4>1 DEF Holds, l
      <4>3. s.st = TAS => s.found
        <5> SUFFICES ASSUME s.st = TAS PROVE s.found
          OBVIOUS
        <5>1. s.st # None
          BY <1>1
        <5>2. PICK i \in WithKey(d, n, "ST") : s.st = d[i].word
          BY <5>1 DEF Holds, LastWord
        <5> QED  BY <5>2 DEF Holds, WithKey
      <4>4. t.found <=> (s.found \/ s.st = TAS)
        BY <2>1, <3>2
      <4> QED  BY <4>2, <4>3, <4>4
    <3> QED  BY <3>1, <3>2
  <2> QED  BY <2>1, <2>2, <2>3, <2>4 DEF Holds, t, l
<1>7. CASE l.key # "ST"
  <2>1. /\ l.key = "Location" /\ t.st = s.st /\ t.found = s.found
        /\ t.location = IF l.word # None THEN l.word ELSE s.location
        /\ t \in [st : Words \cup {None}, location : Words \cup {None}, found : BOOLEAN]
    BY <1>2, <1>3, <1>4, <1>7
  <2>2. LastWord(d, n + 1, "ST", t.st)
    BY <1>7, <2>1, LastWordNext DEF Holds, l
  <2>3. LastWord(d, n + 1, "Location", t.location)
    BY <2>1, LastWordNext DEF Holds, l
  <2>4. t.found <=> \E i \in 1..(n + 1) : d[i].key = "ST" /\ d[i].word = TAS
    BY <1>5, <1>7, <2>1 DEF Holds, l
  <2> QED  BY <2>1, <2>2, <2>3, <2>4 DEF Holds, t, l
<1> QED  BY <1>6, <1>7

(* The locals after the last line: the last words of the datagram, and     *)
(* whether an ST line names the application server, for every datagram.    *)
THEOREM SsdpHandled ==
  ASSUME NEW d \in Seq(Lines)
  PROVE  /\ Handled(d).st = Said(d, "ST") /\ Handled(d).location = Said(d, "Location")
         /\ Handled(d).found <=> Names(d)
         /\ Handled(d) \in [st : Words \cup {None}, location : Words \cup {None}, found : BOOLEAN]
<1>1. Len(d) \in Nat
  OBVIOUS
<1> DEFINE s == CHOOSE f : LoopOf(d, Len(d), f)
<1>2. LoopOf(d, Len(d), s)
  BY <1>1, LoopDefined
<1>3. Handled(d) = s[Len(d)]
  BY DEF Handled, LoopOf
<1> HIDE DEF s
<1> DEFINE S == {i \in 0..Len(d) : Holds(d, i, s[i])}
<1>4. \A i \in 0..Len(d) : s[i] = IF i = 0 THEN Fresh ELSE HandleLine(s[i - 1], d[i])
  BY <1>2 DEF LoopOf
<1>5. 0 \in S
  <2>1. s[0] = Fresh /\ 0 \in 0..Len(d)
    BY <1>1, <1>4
  <2>2. Holds(d, 0, Fresh)
    BY DEF Holds, Fresh, LastWord, WithKey
  <2> QED  BY <2>1, <2>2
<1>6. ASSUME NEW k \in 1..Len(d), k - 1 \in S PROVE k \in S
  <2>1. /\ k - 1 \in Nat /\ (k - 1) + 1 = k /\ k <= Len(d) /\ k \in 0..Len(d) /\ k # 0
        /\ Holds(d, k - 1, s[k - 1])
    BY <1>1, <1>6
  <2>2. Holds(d, k, HandleLine(s[k - 1], d[k]))
    BY <2>1, LineHandled
  <2>3. s[k] = HandleLine(s[k - 1], d[k])
    BY <1>4, <2>1
  <2> QED  BY <2>1, <2>2, <2>3
<1> HIDE DEF S
<1>7. 0..Len(d) \subseteq S
  BY <1>1, <1>5, <1>6, UpTo
<1>8. Holds(d, Len(d), Handled(d))
  BY <1>1, <1>3, <1>7 DEF S
<1> QED  BY <1>1, <1>8, LastWordSaid DEF Holds, Names

-----------------------------------------------------------------------------
(* The reports.                                                            *)

Reports == (Words \cup {None}) \X (Words \cup {None})
Report(d) == <<Said(d, "Location"), Said(d, "ST")>>

(* The numbers of the datagrams of r that name the application server, and *)
(* the reports p on them.                                                  *)
NamedIn(r) == {k \in 1..Len(r) : Names(r[k])}
Matches(r, p) ==
  /\ Len(p) = Cardinality(NamedIn(r))
  /\ \A k \in NamedIn(r) : p[Cardinality(NamedIn(r) \cap (1..k))] = Report(r[k])

LEMMA DatagramType == \A d \in Datagrams : d \in Seq(Lines)
<1> SUFFICES ASSUME NEW d \in Datagrams PROVE d \in Seq(Lines)
  OBVIOUS
<1>1. PICK n \in 0..MaxLines : d \in [1..n -> Lines]
  BY DEF Datagrams
<1> QED  BY <1>1, SsdpAssumption

LEMMA NamedNext ==
  ASSUME NEW r \in Seq(Datagrams), NEW d \in Datagrams
  PROVE  /\ NamedIn(Append(r, d)) = NamedIn(r) \cup (IF Names(d) THEN {Len(r) + 1} ELSE {})
         /\ IsFiniteSet(NamedIn(r)) /\ Cardinality(NamedIn(r)) \in Nat
         /\ Len(r) + 1 \notin NamedIn(r)
         /\ \A k \in NamedIn(r) : Append(r, d)[k] = r[k] /\ k <= Len(r)
         /\ Append(r, d)[Len(r) + 1] = d
<1> DEFINE u == Append(r, d)
<1>1. /\ Len(r) \in Nat /\ Len(u) = Len(r) + 1 /\ u[Len(r) + 1] = d
      /\ \A i \in 1..Len(r) : u[i] = r[i]
  OBVIOUS
<1> HIDE DEF u
<1>2. \A i : i \in 1..Len(u) <=> i \in 1..Len(r) \/ i = Len(r) + 1
  BY <1>1
<1>3. NamedIn(u) = NamedIn(r) \cup (IF Names(d) THEN {Len(r) + 1} ELSE {})
  <2>1. ASSUME NEW i
        PROVE  i \in NamedIn(u) <=> i \in NamedIn(r) \/ (i = Len(r) + 1 /\ Names(d))
    <3>1. CASE i \in 1..Len(r)
      <4>1. i # Len(r) + 1 /\ u[i] = r[i] /\ i \in 1..Len(u)
        BY <1>1, <1>2, <3>1
      <4> QED  BY <3>1, <4>1 DEF NamedIn
    <3>2. CASE i \notin 1..Len(r)
      BY <1>1, <1>2, <3>2 DEF NamedIn
    <3> QED  BY <3>1, <3>2
  <2> QED  BY <2>1
<1>4. IsFiniteSet(1..Len(r)) /\ NamedIn(r) \in SUBSET (1..Len(r))
  BY <1>1, FS_Interval DEF NamedIn
<1>5. IsFiniteSet(NamedIn(r)) /\ Cardinality(NamedIn(r)) \in Nat
  BY <1>4, FS_Subset, FS_CardinalityType
<1> QED  BY <1>1, <1>3, <1>4, <1>5 DEF u

LEMMA MatchesTaken ==
  ASSUME NEW r \in Seq(Datagrams), NEW p \in Seq(Reports), Matches(r, p), NEW d \in Datagrams,
         NEW q, q = IF Names(d) THEN Append(p, Report(d)) ELSE p
  PROVE  Matches(Append(r, d), q)
<1> DEFINE u == Append(r, d)
           N == NamedIn(r)
           M == NamedIn(u)
           n == Len(r) + 1
<1>1. /\ M = N \cup (IF Names(d) THEN {n} ELSE {}) /\ IsFiniteSet(N) /\ Cardinality(N) \in Nat
      /\ n \notin N /\ (\A k \in N : u[k] = r[k] /\ k <= Len(r)) /\ u[n] = d
  BY NamedNext
<1>2. Len(r) \in Nat /\ n \in Nat /\ N \subseteq 1..Len(r)
  BY DEF NamedIn
<1>3. Len(p) = Cardinality(N) /\ \A k \in N : p[Cardinality(N \cap (1..k))] = Report(r[k])
  BY DEF Matches
<1>4. ASSUME NEW k \in N
      PROVE  M \cap (1..k) = N \cap (1..k) /\ Cardinality(N \cap (1..k)) \in 1..Cardinality(N)
  <2>1. k \in 1..Len(r)
    BY <1>2
  <2>2. n \notin 1..k
    BY <1>2, <2>1
  <2>3. M \cap (1..k) = N \cap (1..k)
    BY <1>1, <2>2
  <2>4. k \in N \cap (1..k)
    BY <2>1
  <2> DEFINE A == N \cap (1..k)
  <2>5. A \in SUBSET N /\ A # {}
    BY <2>4
  <2> HIDE DEF A, N
  <2>6. IsFiniteSet(A) /\ Cardinality(A) <= Cardinality(N)
    BY <1>1, <2>5, FS_Subset
  <2>7. Cardinality(A) \in Nat /\ Cardinality(A) # 0
    BY <2>5, <2>6, FS_CardinalityType, FS_EmptySet
  <2> QED  BY <1>1, <2>3, <2>6, <2>7 DEF A
<1>5. CASE ~Names(d)
  <2>1. M = N /\ q = p
    BY <1>1, <1>5
  <2>2. \A k \in N : u[k] = r[k]
    BY <1>1
  <2> HIDE DEF u
  <2>3. Matches(u, q)
    BY <1>3, <2>1, <2>2 DEF Matches
  <2> QED  BY <2>3 DEF u
<1>6. CASE Names(d)
  <2>1. M = N \cup {n} /\ q = Append(p, Report(d))
    BY <1>1, <1>6
  <2>2. Cardinality(M) = Cardinality(N) + 1
    <3> HIDE DEF N, M, n
    <3> QED  BY <1>1, <2>1, FS_AddElement
  <2>3. Len(q) = Cardinality(N) + 1 /\ q[Cardinality(N) + 1] = Report(d)
        /\ \A i \in 1..Cardinality(N) : q[i] = p[i]
    <3> HIDE DEF N
    <3> QED  BY <1>1, <1>3, <2>1
  <2>4. ASSUME NEW k \in M PROVE q[Cardinality(M \cap (1..k))] = Report(u[k])
    <3>1. CASE k \in N
      <4>1. Cardinality(M \cap (1..k)) = Cardinality(N \cap (1..k))
            /\ Cardinality(N \cap (1..k)) \in 1..Cardinality(N)
        BY <1>4, <3>1
      <4>2. u[k] = r[k]
        BY <1>1, <3>1
      <4> HIDE DEF u, N, M
      <4> QED  BY <1>3, <2>3, <3>1, <4>1, <4>2
    <3>2. CASE k = n
      <4>1. M \subseteq 1..n
        BY <1>2, <2>1
      <4>2. M \cap (1..k) = M
        BY <3>2, <4>1
      <4> HIDE DEF u, N, M, n
      <4> QED  BY <1>1, <2>2, <2>3, <3>2, <4>2
    <3> HIDE DEF M, N, n
    <3> QED  BY <2>1, <3>1, <3>2
  <2>5. Len(q) = Cardinality(M)
    BY <2>2, <2>3
  <2> HIDE DEF u
  <2>6. Matches(u, q)
    BY <2>4, <2>5 DEF Matches
  <2> QED  BY <2>6 DEF u
<1> QED  BY <1>5, <1>6

(* The reports match what was taken, and what is queued are datagrams.     *)
SsdpInv ==
  /\ inq \in Seq(Datagrams) /\ read \in Seq(Datagrams) /\ printed \in Seq(Reports)
  /\ Matches(read, printed)

LEMMA SsdpNext == SsdpInv /\ [Next]_vars => SsdpInv'
<1> SUFFICES ASSUME SsdpInv, [Next]_vars PROVE SsdpInv'
  OBVIOUS
<1> USE DEF SsdpInv
<1>1. CASE Arrive
  <2>1. PICK d \in Datagrams : inq' = Append(inq, d)
    BY <1>1 DEF Arrive
  <2>2. inq' \in Seq(Datagrams) /\ read' = read /\ printed' = printed
    BY <1>1, <2>1 DEF Arrive
  <2> QED  BY <2>2 DEF Matches, NamedIn
<1>2. CASE Receive
  <2> DEFINE d == Head(inq)
  <2>1. d \in Datagrams /\ inq' \in Seq(Datagrams) /\ read' = Append(read, d)
        /\ read' \in Seq(Datagrams)
    BY <1>2 DEF Receive
  <2>2. d \in Seq(Lines)
    BY <2>1, DatagramType
  <2> HIDE DEF d
  <2>3. printed' = (IF Names(d) THEN Append(printed, Report(d)) ELSE printed) /\ Report(d) \in Reports
    <3>1. Said(d, "Location") \in Words \cup {None} /\ Said(d, "ST") \in Words \cup {None}
      BY <2>2, SsdpHandled
    <3>2. CASE d # << >> /\ handle_ssdp(d)
      BY <2>2, <3>1, <3>2, SsdpHandled DEF handle_ssdp, Report, Reports
    <3>3. CASE d = << >> /\ UNCHANGED printed
      <4>1. ~Names(d)
        BY <3>3 DEF Names
      <4> QED  BY <3>1, <3>3, <4>1 DEF Report, Reports
    <3> QED  BY <1>2, <3>2, <3>3 DEF Receive, d
  <2>4. printed' \in Seq(Reports)
    BY <2>3
  <2>5. Matches(Append(read, d), printed')
    BY <2>1, <2>3, MatchesTaken
  <2> QED  BY <2>1, <2>4, <2>5 DEF Matches, NamedIn
<1>3. CASE Setup \/ send_ssdp \/ ReceiveTimeout \/ Done \/ UNCHANGED vars
  <2>1. UNCHANGED <<inq, read, printed>>
    BY <1>3 DEF Setup, send_ssdp, ReceiveTimeout, Done, vars
  <2> QED  BY <2>1 DEF Matches, NamedIn
<1> QED  BY <1>1, <1>2, <1>3 DEF Next, Main

(* One report for each datagram that names the application server, in      *)
(* their order and with the words of that datagram alone, for any number   *)
(* and any contents of the datagrams, lost, repeated or reordered.         *)
THEOREM SsdpReportsMatch == Spec => []ReportsMatch
<1>1. Init => SsdpInv
  <2> SUFFICES ASSUME Init PROVE SsdpInv
    OBVIOUS
  <2>1. NamedIn(read) = {} /\ Len(printed) = 0
    BY DEF Init, NamedIn
  <2> QED  BY <2>1, FS_EmptySet DEF Init, SsdpInv, Matches
<1>2. SsdpInv => ReportsMatch
  BY DEF SsdpInv, Matches, NamedIn, Report, ReportsMatch, Named
<1> QED  BY <1>1, <1>2, SsdpNext, PTL DEF Spec
=============================================================================
