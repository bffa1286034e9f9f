--------------------------- MODULE ForkEcho_proof ---------------------------
(***************************************************************************)
(* For any number of clients, lines, processes and descriptors: why a      *)
(* client of a forking server sees the end of its connection too soon, and *)
(* that a client which waits for each echo has its lines back one at a     *)
(* time.                                                                   *)
(***************************************************************************)
EXTENDS ForkEcho, FiniteSetTheorems, SequenceTheorems, TLAPS

Waiting == Range(backlog)
Forked  == {c \in Clients : kid[c] # "none"}

\* The types that the argument needs.
Types ==
    /\ server \in Servers
    /\ kid \in [Clients -> {"none", "echo", "spin", "zombie", "reaped"}]
    /\ cpc \in [Clients -> {"start", "select", "fgets", "readline", "done", "premature"}]
    /\ backlog \in Seq(Clients) /\ idle \in Nat
    /\ connfd \in Clients \cup {None}
    /\ spc \notin {"fork", "close"} => connfd = None

\* A connection is nowhere lost: it waits, the parent holds it, it got a child, or
\* fork failed for it.
Tracked ==
    /\ \A c \in Clients : cpc[c] # "start" =>
           c \in Waiting \cup kept \cup turned \/ kid[c] # "none"
    /\ spc = "fork" /\ connfd # None => connfd \in kept
    /\ spc = "close" /\ connfd # None => connfd \in turned \/ kid[connfd] # "none"

\* A child ends because its client did, or because it was killed; tcpserv01 waits
\* for no child.
ChildrenOK ==
    \A c \in Clients :
        /\ kid[c] \in {"zombie", "reaped"} => c \in killed \/ Gone(c)
        /\ kid[c] = "reaped" => server # "tcpserv01"

IInv == Types /\ Tracked /\ ChildrenOK /\ PrematureHasCause

-----------------------------------------------------------------------------
(* The queue of connections *)

LEMMA AcceptOne ==
  ASSUME Types, backlog # <<>>
  PROVE  /\ Head(backlog) \in Clients /\ Tail(backlog) \in Seq(Clients)
         /\ Waiting = Range(Tail(backlog)) \cup {Head(backlog)}
<1>1. backlog \in Seq(Clients) /\ Len(backlog) \in Nat \ {0}
  BY DEF Types
<1>2. Head(backlog) = backlog[1] /\ 1 \in DOMAIN backlog
  BY <1>1
<1>3. /\ Tail(backlog) \in Seq(Clients) /\ Len(Tail(backlog)) = Len(backlog) - 1
      /\ \A k \in 1 .. Len(backlog) - 1 : Tail(backlog)[k] = backlog[k + 1]
  BY <1>1
<1>4. \A k \in DOMAIN backlog : k = 1 \/ (k - 1 \in 1 .. Len(backlog) - 1 /\ (k - 1) + 1 = k)
  BY <1>1
<1>5. Waiting \subseteq Range(Tail(backlog)) \cup {Head(backlog)}
  BY <1>1, <1>2, <1>3, <1>4 DEF Waiting, Range
<1>6. Range(Tail(backlog)) \subseteq Waiting
  <2>1. \A k \in 1 .. Len(backlog) - 1 : k + 1 \in DOMAIN backlog
    BY <1>1
  <2> QED
    BY <1>3, <2>1 DEF Waiting, Range
<1> QED
  BY <1>1, <1>2, <1>3, <1>5, <1>6 DEF Waiting, Range

LEMMA ConnectOne ==
  ASSUME Types, NEW c \in Clients
  PROVE  /\ Append(backlog, c) \in Seq(Clients)
         /\ Range(Append(backlog, c)) = Waiting \cup {c}
<1>1. backlog \in Seq(Clients) /\ Len(backlog) \in Nat
  BY DEF Types
<1> DEFINE s == Append(backlog, c)
<1>2. /\ s \in Seq(Clients) /\ DOMAIN s = 1 .. Len(backlog) + 1
      /\ s[Len(backlog) + 1] = c
      /\ \A k \in 1 .. Len(backlog) : s[k] = backlog[k]
  BY <1>1
<1>3. DOMAIN backlog = 1 .. Len(backlog)
  BY <1>1
<1> HIDE DEF s
<1>4. \A k \in 1 .. Len(backlog) + 1 : k \in 1 .. Len(backlog) \/ k = Len(backlog) + 1
  BY <1>1
<1>5. \A k \in 1 .. Len(backlog) : k \in 1 .. Len(backlog) + 1
  BY <1>1
<1>6. Len(backlog) + 1 \in 1 .. Len(backlog) + 1
  BY <1>1
<1>7. Range(s) = Waiting \cup {c}
  BY <1>2, <1>3, <1>4, <1>5, <1>6 DEF Waiting, Range
<1> QED
  BY <1>2, <1>7 DEF s

-----------------------------------------------------------------------------
(* The steps of the parent *)

\* Only the children made count in PrematureHasCause.
LEMMA ForkLimit ==
  ASSUME IInv, Fork
  PROVE  server = "tcpserv01" => Cardinality(Forked') < NPROC
<1> SUFFICES ASSUME server = "tcpserv01" PROVE Cardinality(Forked') < NPROC
  OBVIOUS
<1>1. connfd \in Clients /\ idle \in Nat
  BY DEF IInv, Types, Fork
<1>2. Procs = Forked /\ IsFiniteSet(Forked)
  <2>1. Procs = Forked
    BY DEF IInv, Types, ChildrenOK, Procs, Forked
  <2>2. Forked \in SUBSET Clients
    BY DEF Forked
  <2> QED
    BY <2>1, <2>2, ClientsAssumption, FS_Subset
<1>3. Cardinality(Forked) \in Nat /\ Cardinality(Forked) < NPROC /\ NPROC \in Nat
  BY <1>2, FS_CardinalityType, BoundsAssumption DEF IInv, PrematureHasCause, Forked
<1>4. CASE Room
  <2>1. kid' = [kid EXCEPT ![connfd] = "echo"]
    BY <1>4 DEF Fork
  <2>2. Forked' = Forked \cup {connfd}
    BY <1>1, <2>1 DEF Forked, IInv, Types
  <2>3. Cardinality(Forked') <= Cardinality(Forked) + 1
    <3>1. Cardinality(Forked') \in {Cardinality(Forked), Cardinality(Forked) + 1}
      BY <1>2, <2>2, FS_AddElement
    <3> QED
      BY <1>3, <3>1
  <2>4. Cardinality(Forked') \in Nat
    BY <1>2, <2>2, FS_AddElement, FS_CardinalityType
  <2>5. Cardinality(Forked) + idle + 1 < NPROC
    BY <1>2, <1>4 DEF Room
  <2> HIDE DEF Forked
  <2> QED
    BY <1>1, <1>3, <2>3, <2>4, <2>5
<1>5. CASE ~Room
  BY <1>3, <1>5 DEF Fork, Forked
<1> QED
  BY <1>4, <1>5

LEMMA ParentStep ==
  ASSUME IInv, Parent
  PROVE  IInv'
<1> USE DEF IInv
<1>1. CASE Select \/ EchoDatagram
  <2>1. /\ spc \in {"top", "recvfrom"} /\ spc' \in {"accept", "recvfrom", "top"}
        /\ UNCHANGED <<server, connfd, kid, cpc, backlog, kept, turned, killed, idle>>
    BY <1>1 DEF Select, EchoDatagram, Branch, children, failures, tcp, clients
  <2> QED
    BY <2>1 DEF Types, Tracked, ChildrenOK, PrematureHasCause, NeverAccepted, Waiting, Gone
<1>2. CASE Accept
  <2>1. /\ connfd' = Head(backlog) /\ backlog # <<>> /\ backlog' = Tail(backlog)
        /\ kept' = kept \cup {connfd'} /\ spc' = "fork" /\ spc # "ended"
        /\ UNCHANGED <<server, kid, cpc, turned, killed, idle>>
    BY <1>2 DEF Accept, InAccept, children, failures, clients
  <2>2. /\ connfd' \in Clients /\ backlog' \in Seq(Clients)
        /\ Waiting = Waiting' \cup {connfd'}
    BY <2>1, AcceptOne DEF Waiting
  <2> QED
    BY <2>1, <2>2 DEF Types, Tracked, ChildrenOK, PrematureHasCause, NeverAccepted, Gone
<1>3. CASE Fork
  <2>1. /\ spc = "fork" /\ connfd \in Clients /\ connfd \in kept
        /\ (spc' = "top" /\ connfd' = None) \/ (spc' = "close" /\ connfd' = connfd)
        /\ UNCHANGED <<server, cpc, backlog, kept, killed, idle>>
    BY <1>3 DEF Fork, Types, Tracked, failures, tcp, clients
  <2>2. \/ kid' = [kid EXCEPT ![connfd] = "echo"] /\ UNCHANGED turned
        \/ turned' = turned \cup {connfd} /\ UNCHANGED kid
    BY <1>3 DEF Fork
  <2>3. Types' /\ Tracked' /\ ChildrenOK'
    BY <2>1, <2>2 DEF Types, Tracked, ChildrenOK, Waiting, Gone
  <2>4. turned \subseteq turned'
    BY <2>2
  <2> QED
    BY <1>3, <2>1, <2>3, <2>4, ForkLimit DEF PrematureHasCause, NeverAccepted, Forked
<1>4. CASE ForkIdle
  <2>1. /\ spc = "fork" /\ connfd = None /\ spc' = "close" /\ idle' \in Nat
        /\ UNCHANGED <<server, connfd, kid, cpc, backlog, kept, turned, killed>>
    BY <1>4 DEF ForkIdle, Types, children, tcp, clients
  <2> QED
    BY <2>1 DEF Types, Tracked, ChildrenOK, PrematureHasCause, NeverAccepted, Waiting, Gone
<1>5. CASE Close
  <2>1. /\ spc = "close" /\ spc' \in {"recvfrom", "top"} /\ kept' = kept \ {connfd}
        /\ connfd' = None
        /\ UNCHANGED <<server, kid, cpc, backlog, turned, killed, idle>>
    BY <1>5 DEF Close, CloseConn, children, failures, tcp, clients
  <2>2. Types' /\ ChildrenOK'
    BY <2>1 DEF Types, ChildrenOK, Gone
  <2>3. Tracked'
    <3>1. ASSUME NEW c \in Clients, c = connfd
          PROVE  c \in turned \/ kid[c] # "none"
      BY <2>1, <3>1, ClientsAssumption DEF Tracked
    <3> QED
      BY <2>1, <3>1 DEF Tracked, Waiting
  <2> QED
    BY <2>1, <2>2, <2>3 DEF PrematureHasCause, NeverAccepted
<1> QED
  BY <1>1, <1>2, <1>3, <1>4, <1>5 DEF Parent

\* An accept that fails, and a child that never had a connection.
LEMMA FailureStep ==
  ASSUME IInv, AcceptFails \/ ReapIdle
  PROVE  IInv'
<1> USE DEF IInv
<1>1. /\ spc' \in {spc, "ended", "fork"} /\ (spc' # spc => spc \notin {"fork", "close", "ended"})
      /\ UNCHANGED <<server, connfd, kid, cpc, backlog, kept, turned, killed>>
  BY DEF AcceptFails, InAccept, ReapIdle, parent, children, tcp, clients
<1>2. idle' \in Nat
  BY DEF AcceptFails, ReapIdle, Types
<1> QED
  BY <1>1, <1>2 DEF Types, Tracked, ChildrenOK, PrematureHasCause, NeverAccepted, Waiting, Gone

-----------------------------------------------------------------------------
(* The steps of the children and the clients *)

LEMMA ChildStep ==
  ASSUME IInv, NEW c \in Clients, Child(c) \/ Kill(c)
  PROVE  IInv'
<1> USE DEF IInv
<1>1. UNCHANGED <<server, cpc, backlog, spc, connfd, kept, turned, idle>>
  BY DEF Child, Kill, Echo, EchoEnds, Reap, parent, failures, clients, tcp
<1>2. kid[c] # "none" /\ killed \subseteq killed'
  BY DEF Child, Kill, Echo, EchoEnds, Reap
<1>3. \E k \in {"echo", "spin", "zombie", "reaped"} :
         /\ kid' = [kid EXCEPT ![c] = k]
         /\ k \in {"zombie", "reaped"} => c \in killed' \/ Gone(c)
         /\ k = "reaped" => server # "tcpserv01"
  BY DEF Child, Kill, Echo, EchoEnds, Reap, HasSigChld, AfterEcho, ChildrenOK
<1>4. Types' /\ Tracked' /\ ChildrenOK'
  BY <1>1, <1>2, <1>3 DEF Types, Tracked, ChildrenOK, Waiting, Gone
<1>5. {d \in Clients : kid'[d] # "none"} = {d \in Clients : kid[d] # "none"}
  BY <1>2, <1>3 DEF Types
<1>6. PrematureHasCause'
  BY <1>1, <1>2, <1>5 DEF PrematureHasCause, NeverAccepted
<1> QED
  BY <1>4, <1>6

LEMMA ClientStep ==
  ASSUME IInv, NEW c \in Clients, Client(c)
  PROVE  IInv'
<1> USE DEF IInv
<1>1. UNCHANGED <<server, kid, spc, connfd, kept, turned, killed, idle>>
  BY DEF Client, Connect, SelectClient, Type, InputEnds, Fill, Returns, ReadsEof, parent,
         children, failures
<1>2. CASE Connect(c)
  <2>1. /\ \E t \in {"select", "fgets"} : cpc' = [cpc EXCEPT ![c] = t]
        /\ cpc[c] = "start" /\ backlog' = Append(backlog, c)
    BY <1>2 DEF Connect, Become
  <2>2. backlog' \in Seq(Clients) /\ Waiting' = Waiting \cup {c}
    BY <2>1, ConnectOne DEF Waiting
  <2>3. Types' /\ Tracked' /\ ChildrenOK'
    BY <1>1, <2>1, <2>2 DEF Types, Tracked, ChildrenOK, Gone
  <2>4. PrematureHasCause'
    BY <1>1, <2>1, <2>2 DEF PrematureHasCause, NeverAccepted, Waiting, Types
  <2> QED
    BY <2>3, <2>4
<1>3. CASE ~Connect(c)
  <2>1. /\ UNCHANGED backlog /\ cpc[c] # "start" /\ ~Gone(c)
        /\ \E t \in {cpc[c], "select", "fgets", "readline", "done", "premature"} :
             /\ cpc' = [cpc EXCEPT ![c] = t]
             /\ t = "premature" => Closed(c)
    <3>1. CASE SelectClient(c) \/ Type(c) \/ InputEnds(c) \/ Returns(c) \/ ReadsEof(c)
      BY <3>1 DEF SelectClient, Type, InputEnds, Returns, ReadsEof, Become, Gone, tcp
    <3>2. CASE Fill(c)
      <4>1. UNCHANGED <<backlog, cpc>> /\ cpc[c] = "readline"
        BY <3>2 DEF Fill
      <4> QED
        BY <4>1 DEF Gone, Types
    <3> QED
      BY <1>3, <3>1, <3>2 DEF Client
  <2>2. Closed(c) => c \in turned \cup killed \/ NeverAccepted(c)
    BY <2>1 DEF Closed, Types, Tracked, ChildrenOK, Waiting
  <2>3. Types' /\ Tracked' /\ ChildrenOK'
    BY <1>1, <2>1 DEF Types, Tracked, ChildrenOK, Gone, Waiting
  <2>4. PrematureHasCause'
    BY <1>1, <2>1, <2>2 DEF PrematureHasCause, NeverAccepted, Types, Gone
  <2> QED
    BY <2>3, <2>4
<1> QED
  BY <1>2, <1>3

-----------------------------------------------------------------------------
(* The theorem *)

LEMMA InitIInv == Init => IInv
<1> SUFFICES ASSUME Init PROVE IInv
  OBVIOUS
<1>1. {c \in Clients : kid[c] # "none"} = {}
  BY DEF Init
<1>2. Cardinality({c \in Clients : kid[c] # "none"}) < NPROC
  BY <1>1, FS_EmptySet, BoundsAssumption
<1>3. Types /\ Tracked /\ ChildrenOK
  BY DEF Init, Types, Tracked, ChildrenOK, Waiting, None
<1> QED
  BY <1>2, <1>3 DEF Init, IInv, PrematureHasCause

LEMMA StepIInv == IInv /\ [Next]_vars => IInv'
<1> SUFFICES ASSUME IInv, [Next]_vars PROVE IInv'
  OBVIOUS
<1>1. CASE SendDatagram \/ UNCHANGED vars
  <2>1. UNCHANGED <<server, kid, cpc, backlog, spc, connfd, kept, turned, killed, idle>>
    BY <1>1 DEF SendDatagram, vars, parent, children, failures, tcp, clients
  <2> QED
    BY <2>1 DEF IInv, Types, Tracked, ChildrenOK, PrematureHasCause, NeverAccepted, Waiting, Gone
<1> QED
  BY <1>1, ParentStep, FailureStep, ChildStep, ClientStep DEF Next

\* "server terminated prematurely" is printed only to a client whose fork failed,
\* whose child was killed, or which the server had not accepted when it ended; and
\* tcpserv01, which waits for no child, makes NPROC - 1 of them at most.
THEOREM PrematureOnlyWithCause == Spec => []PrematureHasCause
<1>1. Spec => []IInv
  BY InitIInv, StepIInv, PTL DEF Spec
<1> QED
  BY <1>1, PTL DEF IInv

-----------------------------------------------------------------------------
(* The clients that wait for each echo: types and queues first *)

\* A connection waits once, and without a child.
Fresh ==
    /\ \A i, j \in DOMAIN backlog : backlog[i] = backlog[j] => i = j
    /\ \A c \in Clients : cpc[c] = "start" =>
           c \notin Waiting /\ kid[c] = "none" /\ ~(spc = "fork" /\ connfd = c)
    /\ \A c \in Waiting : kid[c] = "none"
    /\ spc = "fork" /\ connfd # None => kid[connfd] = "none" /\ connfd \notin Waiting

\* The datagram that select saw is there until recvfrom.
DatagramsOK ==
    /\ dgrams <= sent
    /\ spc = "recvfrom" \/ "udpfd" \in rset => dgrams > 0

\* One line at most is under way, whole, unless the child of the connection was
\* killed; what a killed child had not read stays where it is.
StreamOK(c) ==
    /\ kid[c] = "none" => down[c] = <<>> /\ buf[c] = <<>>
    /\ c \in killed => kid[c] \in {"zombie", "reaped"}
    /\ ~Selects(c) =>
         /\ cpc[c] # "select"
         /\ cpc[c] \in {"start", "fgets"} => CutOff(c) \/ Flow(c) = <<>>
         /\ cpc[c] = "readline" => CutOff(c) \/ Flow(c) = Line
         /\ cpc[c] \in {"start", "fgets", "done"} => shown[c] = typed[c]
         /\ cpc[c] \in {"readline", "premature"} => shown[c] + 1 = typed[c]
         /\ cpc[c] = "done" => typed[c] = Lines

Streams == \A c \in Clients : StreamOK(c)

StepInv == IInv /\ TypeOK /\ Fresh /\ DatagramsOK /\ Streams

Bytes == {"byte", "nl"}

LEMMA Pieces ==
  ASSUME NEW s \in Seq(Bytes), NEW n \in DOMAIN s
  PROVE  /\ Take(s, n) \in Seq(Bytes) /\ Drop(s, n) \in Seq(Bytes)
         /\ Take(s, n) \o Drop(s, n) = s
<1>1. n \in 1 .. Len(s) /\ Len(s) \in Nat /\ \A i \in 1 .. Len(s) : s[i] \in Bytes
  BY LenProperties, ElementOfSeq
<1>2. SubSeq(s, 1, n) \in Seq(Bytes)
  <2>1. \A i \in 1 .. n : s[i] \in Bytes
    BY <1>1
  <2> QED
    BY <1>1, <2>1, SubSeqProperties
<1>3. SubSeq(s, n + 1, Len(s)) \in Seq(Bytes)
  <2>1. \A i \in n + 1 .. Len(s) : s[i] \in Bytes
    BY <1>1
  <2> QED
    BY <1>1, <2>1, SubSeqProperties
<1>4. SubSeq(s, 1, n) \o SubSeq(s, n + 1, Len(s)) = SubSeq(s, 1, Len(s))
  <2>1. 1 \in 1 .. Len(s) + 1 /\ n \in 1 - 1 .. Len(s) /\ Len(s) \in n .. Len(s)
    BY <1>1
  <2> QED
    BY <2>1, ConcatAdjacentSubSeq
<1> QED
  BY <1>2, <1>3, <1>4, SubSeqFull DEF Take, Drop

LEMMA Smallest ==
  ASSUME NEW T \in SUBSET Nat, T # {}
  PROVE  \E n \in T : \A m \in T : n <= m
<1>1. PICK n \in T : \A m \in T : ~ (<<m, n>> \in OpToRel(<, Nat))
  BY NatLessThanWellFounded, WFMin
<1>2. \A m \in T : ~ (m < n)
  BY <1>1 DEF OpToRel
<1> QED
  BY <1>2

LEMMA LineTail ==
  ASSUME NEW s \in Seq(Bytes)
  PROVE  AfterLine(s) \in Seq(Bytes) /\ ("nl" \notin Range(s) => AfterLine(s) = <<>>)
<1> DEFINE ends == {n \in DOMAIN s : s[n] = "nl"}
<1>1. /\ Len(s) \in Nat /\ DOMAIN s = 1 .. Len(s)
      /\ \A i \in 1 .. Len(s) : s[i] \in Bytes
  BY LenProperties, ElementOfSeq
<1>2. CASE ends = {}
  BY <1>2, EmptySeq DEF AfterLine
<1>3. CASE ends # {}
  <2>1. ends \in SUBSET Nat
    BY <1>1
  <2>2. \E n \in ends : \A m \in ends : n <= m
    <3> HIDE DEF ends
    <3> QED
      BY <1>3, <2>1, Smallest
  <2> DEFINE k == CHOOSE n \in ends : \A m \in ends : n <= m
  <2>3. k \in ends
    BY <2>2
  <2>4. AfterLine(s) = Drop(s, k)
    BY <1>3 DEF AfterLine
  <2>5. k \in DOMAIN s /\ s[k] = "nl"
    BY <2>3
  <2> HIDE DEF k
  <2> QED
    BY <2>4, <2>5, Pieces DEF Range
<1> QED
  BY <1>2, <1>3

\* Reading and echoing move the bytes of a client and keep their order.
LEMMA Moved ==
  ASSUME NEW a \in Seq(Bytes), NEW b \in Seq(Bytes), NEW n \in DOMAIN b
  PROVE  /\ a \o Take(b, n) \in Seq(Bytes) /\ Drop(b, n) \in Seq(Bytes)
         /\ (a \o Take(b, n)) \o Drop(b, n) = a \o b
<1>1. Take(b, n) \in Seq(Bytes) /\ Drop(b, n) \in Seq(Bytes) /\ Take(b, n) \o Drop(b, n) = b
  BY Pieces
<1> DEFINE t == Take(b, n)
           u == Drop(b, n)
<1>2. t \in Seq(Bytes) /\ u \in Seq(Bytes) /\ t \o u = b
  BY <1>1
<1> HIDE DEF t, u
<1>3. a \o t \in Seq(Bytes)
  BY <1>2, ConcatProperties
<1>4. (a \o t) \o u = a \o (t \o u)
  <2>1. \A x, y, z \in Seq(Bytes) : (x \o y) \o z = x \o (y \o z)
    BY ConcatAssociative
  <2> QED
    BY <1>2, <2>1
<1> QED
  BY <1>2, <1>3, <1>4 DEF t, u

LEMMA EmptyFlow ==
  ASSUME NEW a \in Seq(Bytes), NEW b \in Seq(Bytes), NEW d \in Seq(Bytes)
  PROVE  a \o (b \o d) = <<>> <=> a = <<>> /\ b = <<>> /\ d = <<>>
<1>1. b \o d \in Seq(Bytes)
  BY ConcatProperties
<1>2. <<>> \in Seq(Bytes) /\ <<>> \o <<>> = <<>>
  BY EmptySeq, ConcatEmptySeq
<1> QED
  BY <1>1, <1>2, ConcatSimplifications

\* Of a line under way nothing is left once readline has its newline.
LEMMA WholeLine ==
  ASSUME NEW a \in Seq(Bytes), NEW r \in Seq(Bytes), a \o r = Line, "nl" \in Range(a)
  PROVE  AfterLine(a) = <<>> /\ r = <<>>
<1>1. /\ Len(a) \in Nat /\ Len(r) \in Nat /\ Len(a) + Len(r) = 2
      /\ \A i \in 1 .. 2 : i <= Len(a) => a[i] = Line[i]
  <2>1. Len(a) \in Nat /\ Len(r) \in Nat
    BY LenProperties
  <2>2. /\ Len(a \o r) = Len(a) + Len(r)
        /\ \A i \in 1 .. Len(a) + Len(r) : i <= Len(a) => (a \o r)[i] = a[i]
    BY ConcatProperties
  <2>3. Len(Line) = 2
    BY DEF Line
  <2> QED
    BY <2>1, <2>2, <2>3
<1>2. DOMAIN a = 1 .. Len(a)
  BY LenProperties
<1>3. Len(a) = 2 /\ Len(r) = 0
  BY <1>1, <1>2 DEF Range, Line
<1>4. r = <<>>
  BY <1>3, EmptySeq
<1>5. {n \in DOMAIN a : a[n] = "nl"} = {2}
  BY <1>1, <1>2, <1>3 DEF Line
<1>6. AfterLine(a) = SubSeq(a, 2 + 1, 2)
  BY <1>3, <1>5 DEF AfterLine, Drop
<1> QED
  BY <1>4, <1>6, SubSeqEmpty

-----------------------------------------------------------------------------
(* Every step keeps them *)

LEMMA InitStepInv == Init => StepInv
<1> SUFFICES ASSUME Init PROVE StepInv
  OBVIOUS
<1>1. <<>> \in Seq(Bytes) /\ <<>> \in Seq(Clients) /\ 0 \in 0 .. Lines /\ 0 \in 0 .. Datagrams
      /\ 0 \in 0 .. MaxFails
  BY EmptySeq, BoundsAssumption
<1>2. TypeOK
  BY <1>1 DEF Init, TypeOK, None, Bytes
<1>3. Fresh /\ DatagramsOK
  BY DEF Init, Fresh, DatagramsOK, Waiting, Range
<1>4. <<>> \o (<<>> \o <<>>) = <<>>
  BY <1>1, EmptyFlow
<1>5. Streams
  BY <1>4 DEF Init, Streams, StreamOK, Flow
<1> QED
  BY <1>2, <1>3, <1>5, InitIInv DEF StepInv

\* What the streams do not depend on.
LEMMA SameStreams ==
  ASSUME StepInv,
         UNCHANGED <<server, up, down, buf, cpc, typed, shown, killed>>,
         \A c \in Clients : kid'[c] = kid[c] \/ (kid[c] = "none" /\ c \notin killed)
                              \/ (kid[c] = "zombie" /\ kid'[c] = "reaped")
  PROVE  Streams'
<1> SUFFICES ASSUME NEW c \in Clients PROVE StreamOK(c)'
  BY DEF Streams
<1>1. StreamOK(c)
  BY DEF StepInv, Streams
<1>2. Selects(c)' <=> Selects(c)
  BY DEF Selects
<1>3. Flow(c)' = Flow(c) /\ (CutOff(c)' <=> CutOff(c))
  BY DEF Flow, CutOff
<1> QED
  BY <1>1, <1>2, <1>3 DEF StreamOK

LEMMA ParentKeeps ==
  ASSUME StepInv, Parent
  PROVE  TypeOK' /\ Fresh' /\ DatagramsOK' /\ Streams'
<1> USE DEF StepInv
<1>1. Streams'
  <2>1. UNCHANGED <<server, up, down, buf, cpc, typed, shown, killed>>
    BY DEF Parent, Select, Accept, Fork, ForkIdle, Close, EchoDatagram, children, tcp, clients
  <2>2. \/ UNCHANGED kid
        \/ spc = "fork" /\ connfd # None /\ kid' = [kid EXCEPT ![connfd] = "echo"]
    BY DEF Parent, Select, Accept, Fork, ForkIdle, Close, EchoDatagram, children
  <2>3. spc = "fork" /\ connfd # None
           => connfd \in Clients /\ kid[connfd] = "none" /\ connfd \notin killed
    BY DEF IInv, Types, Fresh, Streams, StreamOK
  <2>4. \A c \in Clients : kid'[c] = kid[c] \/ (kid[c] = "none" /\ c \notin killed)
    BY <2>2, <2>3 DEF TypeOK
  <2> QED
    BY <2>1, <2>4, SameStreams
<1>2. CASE Select
  <2>1. /\ UNCHANGED <<server, connfd, kept, turned, kid, killed, fails, idle, dgrams, sent,
                       backlog, up, down, cpc, typed, buf, stdin, shown>>
        /\ spc' = Branch(rset') /\ rset' # {}
        /\ rset' = (IF backlog # <<>> THEN {"listenfd"} ELSE {})
                     \cup (IF dgrams > 0 THEN {"udpfd"} ELSE {})
    BY <1>2 DEF Select, children, failures, udp, tcp, clients
  <2>2. /\ rset' \subseteq {"listenfd", "udpfd"} /\ ("udpfd" \in rset' => dgrams > 0)
        /\ spc' \in {"accept", "recvfrom"} /\ (spc' = "recvfrom" => "udpfd" \in rset')
    BY <2>1 DEF Branch
  <2>3. TypeOK'
    BY <2>1, <2>2 DEF TypeOK
  <2> QED
    BY <1>1, <2>1, <2>2, <2>3 DEF Fresh, DatagramsOK, Waiting
<1>3. CASE Accept
  <2>1. /\ UNCHANGED <<server, rset, turned, kid, killed, fails, idle, dgrams, sent, up, down,
                       cpc, typed, buf, stdin, shown>>
        /\ backlog # <<>> /\ connfd' = Head(backlog) /\ backlog' = Tail(backlog)
        /\ kept' = kept \cup {connfd'} /\ spc' = "fork"
    BY <1>3 DEF Accept, children, failures, udp, clients
  <2>2. /\ connfd' \in Clients /\ backlog' \in Seq(Clients)
        /\ Waiting = Waiting' \cup {connfd'}
    BY <2>1, AcceptOne DEF IInv, Waiting
  <2>3. TypeOK'
    BY <2>1, <2>2 DEF TypeOK
  <2>4. /\ Len(backlog) \in Nat \ {0} /\ connfd' = backlog[1]
        /\ DOMAIN backlog = 1 .. Len(backlog) /\ DOMAIN backlog' = 1 .. Len(backlog) - 1
        /\ \A k \in 1 .. Len(backlog) - 1 : backlog'[k] = backlog[k + 1]
    BY <2>1 DEF TypeOK
  <2>5. \A k \in 1 .. Len(backlog) - 1 : k + 1 \in 1 .. Len(backlog) /\ k + 1 # 1
    BY <2>4
  <2>6. \A i, j \in DOMAIN backlog' : backlog'[i] = backlog'[j] => i = j
    <3> SUFFICES ASSUME NEW i \in 1 .. Len(backlog) - 1, NEW j \in 1 .. Len(backlog) - 1,
                        backlog'[i] = backlog'[j]
                 PROVE  i = j
      BY <2>4
    <3>1. backlog[i + 1] = backlog[j + 1] /\ i + 1 \in DOMAIN backlog /\ j + 1 \in DOMAIN backlog
      BY <2>4, <2>5
    <3>2. i + 1 = j + 1
      BY <3>1 DEF Fresh
    <3> QED
      BY <2>4, <3>2
  <2>7. connfd' \notin Waiting'
    <3> SUFFICES ASSUME NEW k \in 1 .. Len(backlog) - 1, backlog[k + 1] = backlog[1]
                 PROVE  FALSE
      BY <2>4 DEF Waiting, Range
    <3>1. k + 1 \in DOMAIN backlog /\ 1 \in DOMAIN backlog
      BY <2>4, <2>5
    <3> QED
      BY <2>4, <2>5, <3>1 DEF Fresh
  <2>8. Fresh'
    BY <2>1, <2>2, <2>6, <2>7 DEF Fresh
  <2>9. DatagramsOK'
    BY <2>1 DEF DatagramsOK
  <2> QED
    BY <1>1, <2>3, <2>8, <2>9
<1>4. CASE Fork
  <2>1. /\ spc = "fork" /\ connfd \in Clients /\ connfd \notin Waiting
        /\ spc' \in {"top", "close"} /\ connfd' \in {None, connfd}
        /\ kid' \in {kid, [kid EXCEPT ![connfd] = "echo"]}
        /\ turned' \in {turned, turned \cup {connfd}}
        /\ UNCHANGED <<server, rset, kept, killed, fails, idle, dgrams, sent, backlog, up, down,
                       cpc, typed, buf, stdin, shown>>
    BY <1>4 DEF Fork, IInv, Types, Fresh, failures, udp, tcp, clients
  <2>2. TypeOK'
    <3>1. /\ kid' \in [Clients -> {"none", "echo", "spin", "zombie", "reaped"}]
          /\ connfd' \in Clients \cup {None} /\ turned' \subseteq Clients
      BY <2>1 DEF TypeOK
    <3> QED
      BY <2>1, <3>1 DEF TypeOK
  <2>3. Fresh'
    <3>1. \A c \in Clients : c # connfd => kid'[c] = kid[c]
      BY <2>1 DEF TypeOK
    <3>2. Waiting \subseteq Clients
      BY DEF Waiting, Range, TypeOK
    <3>3. \A c \in Clients : cpc[c] = "start" => c # connfd
      BY <2>1 DEF Fresh
    <3> QED
      BY <2>1, <3>1, <3>2, <3>3 DEF Fresh, Waiting
  <2>4. DatagramsOK'
    BY <2>1 DEF DatagramsOK
  <2> QED
    BY <1>1, <2>2, <2>3, <2>4
<1>5. CASE Close
  <2>1. /\ spc' \in {"recvfrom", "top"} /\ (spc' = "recvfrom" => "udpfd" \in rset)
        /\ kept' = kept \ {connfd} /\ connfd' = None /\ rset' = {}
        /\ UNCHANGED <<server, turned, kid, killed, fails, idle, dgrams, sent, backlog, up, down,
                       cpc, typed, buf, stdin, shown>>
    BY <1>5 DEF Close, CloseConn, children, failures, udp, tcp, clients
  <2>2. TypeOK'
    BY <2>1 DEF TypeOK
  <2>3. Fresh' /\ DatagramsOK'
    BY <2>1 DEF Fresh, DatagramsOK, Waiting
  <2> QED
    BY <1>1, <2>2, <2>3
<1>6. CASE EchoDatagram
  <2>1. /\ spc = "recvfrom" /\ dgrams' = dgrams - 1 /\ spc' = "top" /\ rset' = {}
        /\ UNCHANGED <<server, connfd, kept, turned, kid, killed, fails, idle, sent, backlog, up,
                       down, cpc, typed, buf, stdin, shown>>
    BY <1>6 DEF EchoDatagram, children, failures, tcp, clients
  <2>2. dgrams \in Nat /\ dgrams > 0 /\ dgrams <= sent /\ sent \in 0 .. Datagrams
    BY <2>1 DEF TypeOK, DatagramsOK
  <2>3. dgrams' \in 0 .. Datagrams /\ dgrams' <= sent'
    BY <2>1, <2>2, BoundsAssumption
  <2>4. TypeOK'
    BY <2>1, <2>3 DEF TypeOK
  <2> QED
    BY <1>1, <2>1, <2>3, <2>4 DEF Fresh, DatagramsOK, Waiting
<1>7. CASE ForkIdle
  <2>1. /\ spc = "fork" /\ connfd = None /\ spc' = "close"
        /\ idle' \in {idle, idle + 1}
        /\ UNCHANGED <<server, connfd, rset, kept, turned, kid, killed, fails, dgrams, sent,
                       backlog, up, down, cpc, typed, buf, stdin, shown>>
    BY <1>7 DEF ForkIdle, children, udp, tcp, clients
  <2>2. idle' \in Nat
    BY <2>1 DEF TypeOK
  <2>3. TypeOK'
    BY <2>1, <2>2 DEF TypeOK
  <2>4. Fresh' /\ DatagramsOK'
    BY <2>1 DEF Fresh, DatagramsOK, Waiting
  <2> QED
    BY <1>1, <2>3, <2>4
<1> QED
  BY <1>2, <1>3, <1>4, <1>5, <1>6, <1>7 DEF Parent

LEMMA FailureKeeps ==
  ASSUME StepInv, AcceptFails \/ ReapIdle
  PROVE  TypeOK' /\ Fresh' /\ DatagramsOK' /\ Streams'
<1> USE DEF StepInv
<1>1. /\ spc' \in {spc, "ended", "fork"}
      /\ spc' # spc => spc \in {"top", "accept"} /\ connfd = None
      /\ UNCHANGED <<server, connfd, rset, kept, turned, kid, killed, dgrams, sent, backlog, up,
                     down, cpc, typed, buf, stdin, shown>>
  <2>1. CASE AcceptFails
    BY <2>1 DEF AcceptFails, InAccept, IInv, Types, children, udp, tcp, clients
  <2>2. CASE ReapIdle
    BY <2>2 DEF ReapIdle, parent, children, udp, tcp, clients
  <2> QED
    BY <2>1, <2>2
<1>2. fails' \in 0 .. MaxFails /\ idle' \in Nat
  <2>1. fails \in 0 .. MaxFails /\ idle \in Nat /\ MaxFails \in Nat
    BY BoundsAssumption DEF TypeOK
  <2>2. (fails' = fails /\ idle > 0 /\ idle' = idle - 1)
        \/ (fails < MaxFails /\ fails' = fails + 1 /\ idle' = idle)
    BY DEF AcceptFails, ReapIdle
  <2> QED
    BY <2>1, <2>2
<1>3. TypeOK'
  BY <1>1, <1>2 DEF TypeOK
<1>4. Fresh' /\ DatagramsOK'
  <2>1. None \notin Clients
    BY ClientsAssumption
  <2> QED
    BY <1>1, <2>1 DEF Fresh, DatagramsOK, Waiting
<1>5. Streams'
  BY <1>1, SameStreams
<1> QED
  BY <1>3, <1>4, <1>5

LEMMA ChildKeeps ==
  ASSUME StepInv, NEW c \in Clients, Child(c) \/ Kill(c)
  PROVE  TypeOK' /\ Fresh' /\ DatagramsOK' /\ Streams'
<1> USE DEF StepInv
<1>0. /\ kid[c] # "none"
      /\ UNCHANGED <<server, spc, connfd, rset, kept, turned, fails, idle, dgrams, sent, backlog,
                     cpc, typed, buf, stdin, shown>>
  BY DEF Child, Kill, Echo, EchoEnds, Reap, parent, failures, udp, tcp, clients
<1>1. \E k \in {"echo", "spin", "zombie", "reaped"} : kid' = [kid EXCEPT ![c] = k]
  BY DEF Child, Kill, Echo, EchoEnds, Reap, AfterEcho
<1>2. Fresh' /\ DatagramsOK'
  <2>1. Waiting \subseteq Clients
    BY DEF Waiting, Range, TypeOK
  <2>2. \A d \in Clients : kid[d] = "none" => kid'[d] = "none"
    BY <1>0, <1>1 DEF TypeOK
  <2> QED
    BY <1>0, <2>1, <2>2 DEF Fresh, DatagramsOK, Waiting, IInv, Types
<1>3. kid' \in [Clients -> {"none", "echo", "spin", "zombie", "reaped"}]
  BY <1>1 DEF TypeOK
<1>4. CASE Echo(c)
  <2>1. PICK n \in DOMAIN up[c] : /\ up' = [up EXCEPT ![c] = Drop(@, n)]
                                  /\ down' = [down EXCEPT ![c] = @ \o Take(up[c], n)]
    BY <1>4 DEF Echo
  <2>2. kid[c] = "echo" /\ UNCHANGED killed
    BY <1>4 DEF Echo
  <2>3. up[c] \in Seq(Bytes) /\ down[c] \in Seq(Bytes) /\ buf[c] \in Seq(Bytes)
    BY DEF TypeOK, Bytes
  <2>4. /\ up'[c] \in Seq(Bytes) /\ down'[c] \in Seq(Bytes)
        /\ down'[c] \o up'[c] = down[c] \o up[c]
    BY <2>1, <2>3, Moved DEF TypeOK
  <2>5. up' \in [Clients -> Seq(Bytes)] /\ down' \in [Clients -> Seq(Bytes)]
    BY <2>1, <2>4 DEF TypeOK, Bytes
  <2>6. TypeOK'
    BY <1>0, <1>3, <2>2, <2>5 DEF TypeOK, Bytes
  <2>7. ASSUME NEW d \in Clients PROVE StreamOK(d)'
    <3>1. StreamOK(d) /\ (Selects(d)' <=> Selects(d))
      BY <1>0 DEF Streams, Selects
    <3>2. Flow(d)' = Flow(d)
      BY <1>0, <2>1, <2>4 DEF Flow, TypeOK
    <3>3. CASE d = c
      BY <1>0, <1>1, <2>2, <3>1, <3>2, <3>3 DEF StreamOK, CutOff, TypeOK
    <3>4. CASE d # c
      <4>1. kid'[d] = kid[d] /\ down'[d] = down[d]
        BY <1>1, <2>1, <3>4 DEF TypeOK
      <4> QED
        BY <1>0, <2>2, <3>1, <3>2, <4>1 DEF StreamOK, CutOff
    <3> QED
      BY <3>3, <3>4
  <2> QED
    BY <1>2, <2>6, <2>7 DEF Streams
<1>5. CASE EchoEnds(c) \/ Reap(c) \/ Kill(c)
  <2>1. /\ UNCHANGED <<up, down>> /\ killed \subseteq killed' /\ killed' \subseteq killed \cup {c}
        /\ kid' \in {[kid EXCEPT ![c] = "spin"], [kid EXCEPT ![c] = "zombie"],
                     [kid EXCEPT ![c] = "reaped"]}
    BY <1>5 DEF EchoEnds, Reap, Kill, udp, tcp
  <2>2. c \in killed' => kid'[c] \in {"zombie", "reaped"}
    BY <1>5 DEF EchoEnds, Reap, Kill, Streams, StreamOK, TypeOK
  <2>3. TypeOK'
    <3>1. killed' \subseteq Clients
      BY <2>1 DEF TypeOK
    <3> QED
      BY <1>0, <1>3, <2>1, <3>1 DEF TypeOK
  <2>4. ASSUME NEW d \in Clients PROVE StreamOK(d)'
    <3>1. StreamOK(d) /\ (Selects(d)' <=> Selects(d)) /\ Flow(d)' = Flow(d)
      BY <1>0, <2>1 DEF Streams, Selects, Flow
    <3>2. CutOff(d) => CutOff(d)'
      BY <1>0, <2>1 DEF CutOff
    <3>3. d # c => kid'[d] = kid[d] /\ (d \in killed' => d \in killed)
      BY <1>1, <2>1 DEF TypeOK
    <3>4. d \in killed' => kid'[d] \in {"zombie", "reaped"}
      BY <2>2, <3>1, <3>3 DEF StreamOK
    <3>5. kid'[d] = "none" => kid[d] = "none"
      BY <1>1 DEF TypeOK
    <3> QED
      BY <1>0, <2>1, <3>1, <3>2, <3>4, <3>5 DEF StreamOK
  <2> QED
    BY <1>2, <2>3, <2>4 DEF Streams
<1> QED
  BY <1>4, <1>5 DEF Child

\* A client changes only what is its own.
LEMMA OwnStream ==
  ASSUME StepInv, NEW c \in Clients,
         UNCHANGED <<server, kid, killed>>, StreamOK(c)',
         \A d \in Clients \ {c} : /\ up'[d] = up[d] /\ down'[d] = down[d] /\ buf'[d] = buf[d]
                                  /\ cpc'[d] = cpc[d] /\ typed'[d] = typed[d]
                                  /\ shown'[d] = shown[d]
  PROVE  Streams'
<1> SUFFICES ASSUME NEW d \in Clients, d # c PROVE StreamOK(d)'
  BY DEF Streams
<1>1. StreamOK(d) /\ (Selects(d)' <=> Selects(d))
  BY DEF StepInv, Streams, Selects
<1>2. Flow(d)' = Flow(d) /\ (CutOff(d)' <=> CutOff(d))
  BY DEF Flow, CutOff
<1> QED
  BY <1>1, <1>2 DEF StreamOK

LEMMA ConnectKeeps ==
  ASSUME StepInv, NEW c \in Clients, Connect(c)
  PROVE  TypeOK' /\ Fresh' /\ DatagramsOK' /\ Streams'
<1> USE DEF StepInv
<1>1. /\ cpc[c] = "start" /\ backlog' = Append(backlog, c)
      /\ cpc' = [cpc EXCEPT ![c] = IF Selects(c) THEN "select" ELSE "fgets"]
      /\ UNCHANGED <<server, spc, connfd, rset, kept, turned, kid, killed, fails, idle, dgrams,
                     sent, up, down, typed, buf, stdin, shown>>
  BY DEF Connect, Become, parent, children, failures, udp
<1>2. backlog' \in Seq(Clients) /\ Waiting' = Waiting \cup {c}
  BY <1>1, ConnectOne DEF IInv, Waiting
<1>3. TypeOK'
  BY <1>1, <1>2 DEF TypeOK
<1>4. /\ Len(backlog) \in Nat /\ DOMAIN backlog = 1 .. Len(backlog)
      /\ DOMAIN backlog' = 1 .. Len(backlog) + 1 /\ backlog'[Len(backlog) + 1] = c
      /\ \A k \in 1 .. Len(backlog) : backlog'[k] = backlog[k]
  BY <1>1 DEF TypeOK
<1>5. c \notin Waiting /\ kid[c] = "none" /\ ~(spc = "fork" /\ connfd = c)
  BY <1>1 DEF Fresh
<1>6. \A i, j \in DOMAIN backlog' : backlog'[i] = backlog'[j] => i = j
  <2>1. \A k \in 1 .. Len(backlog) : backlog[k] # c
    BY <1>4, <1>5 DEF Waiting, Range
  <2>2. \A k \in DOMAIN backlog' : k \in DOMAIN backlog \/ k = Len(backlog) + 1
    BY <1>4
  <2> QED
    BY <1>4, <2>1, <2>2 DEF Fresh
<1>7. Fresh'
  <2>1. \A d \in Clients : cpc'[d] = "start" => d # c /\ cpc[d] = "start"
    BY <1>1 DEF TypeOK
  <2> QED
    BY <1>1, <1>2, <1>5, <1>6, <2>1 DEF Fresh
<1>8. Streams'
  <2>1. StreamOK(c) /\ (Selects(c)' <=> Selects(c)) /\ (CutOff(c)' <=> CutOff(c))
    BY <1>1 DEF Streams, Selects, CutOff
  <2>2. Flow(c)' = Flow(c) /\ cpc'[c] = IF Selects(c) THEN "select" ELSE "fgets"
    BY <1>1 DEF Flow, TypeOK
  <2>3. StreamOK(c)'
    BY <1>1, <2>1, <2>2 DEF StreamOK
  <2> QED
    BY <1>1, <2>3, OwnStream DEF TypeOK
<1> QED
  BY <1>1, <1>3, <1>7, <1>8 DEF DatagramsOK

LEMMA TypeKeeps ==
  ASSUME StepInv, NEW c \in Clients, Type(c)
  PROVE  TypeOK' /\ Streams'
<1> USE DEF StepInv
<1>1. PICK s \in Written(c) : up' = [up EXCEPT ![c] = @ \o s]
  BY DEF Type
<1>2. /\ cpc[c] = "fgets" /\ typed[c] < Lines /\ typed' = [typed EXCEPT ![c] = @ + 1]
      /\ cpc' = [cpc EXCEPT ![c] = IF Selects(c) THEN "select" ELSE "readline"]
      /\ stdin' = [stdin EXCEPT ![c] = FALSE]
      /\ UNCHANGED <<server, spc, connfd, rset, kept, turned, kid, killed, fails, idle, dgrams,
                     sent, backlog, down, buf, shown>>
  BY DEF Type, Become, parent, children, failures, udp
<1>3. s \in Seq(Bytes) /\ up[c] \in Seq(Bytes) /\ buf[c] \in Seq(Bytes) /\ down[c] \in Seq(Bytes)
  <2>1. /\ Line \in Seq(Bytes) /\ <<"nl", "byte">> \in Seq(Bytes)
        /\ <<"nl", "nl", "byte">> \in Seq(Bytes)
    BY DEF Bytes, Line
  <2>2. s \in {Line, <<"nl", "byte">>, <<"nl", "nl", "byte">>}
    BY <1>1 DEF Written, Line
  <2> QED
    BY <2>1, <2>2 DEF TypeOK, Bytes
<1>4. up'[c] = up[c] \o s /\ up'[c] \in Seq(Bytes)
  BY <1>1, <1>3, ConcatProperties DEF TypeOK
<1>5. typed[c] \in 0 .. Lines /\ typed'[c] = typed[c] + 1 /\ shown[c] \in Nat
  BY <1>2 DEF TypeOK
<1>6. up' \in [Clients -> Seq(Bytes)] /\ typed'[c] \in 0 .. Lines
  <2>1. typed'[c] \in 0 .. Lines
    BY <1>2, <1>5, BoundsAssumption
  <2> QED
    BY <1>1, <1>4, <2>1 DEF TypeOK, Bytes
<1>7. TypeOK'
  BY <1>2, <1>5, <1>6 DEF TypeOK, Bytes
<1>8. StreamOK(c)'
  <2>1. StreamOK(c) /\ (Selects(c)' <=> Selects(c))
    BY <1>2 DEF Streams, Selects
  <2>2. CASE Selects(c)
    BY <1>2, <2>1, <2>2 DEF StreamOK
  <2>3. CASE ~Selects(c)
    <3>1. s = Line
      BY <2>3 DEF Written, Line
    <3>2. shown[c] + 1 = typed'[c] /\ (CutOff(c) \/ Flow(c) = <<>>)
      BY <1>2, <1>5, <2>1, <2>3 DEF StreamOK
    <3>3. ASSUME Flow(c) = <<>> PROVE Flow(c)' = Line
      <4>1. buf[c] = <<>> /\ down[c] = <<>> /\ up[c] = <<>>
        BY <1>3, <3>3, EmptyFlow DEF Flow
      <4>2. Flow(c)' = <<>> \o (<<>> \o (<<>> \o s))
        BY <1>2, <1>4, <4>1 DEF Flow
      <4> QED
        BY <1>3, <3>1, <4>2, ConcatEmptySeq
    <3>4. CutOff(c)' <=> CutOff(c)
      BY <1>2 DEF CutOff
    <3>5. cpc'[c] = "readline"
      BY <1>2, <2>3 DEF TypeOK
    <3> QED
      BY <1>2, <2>1, <2>3, <3>2, <3>3, <3>4, <3>5 DEF StreamOK
  <2> QED
    BY <2>2, <2>3
<1> QED
  BY <1>1, <1>2, <1>7, <1>8, OwnStream DEF TypeOK

LEMMA FillKeeps ==
  ASSUME StepInv, NEW c \in Clients, Fill(c)
  PROVE  TypeOK' /\ Streams'
<1> USE DEF StepInv
<1>1. PICK n \in DOMAIN down[c] : /\ down' = [down EXCEPT ![c] = Drop(@, n)]
                                  /\ buf' = [buf EXCEPT ![c] = @ \o Take(down[c], n)]
  BY DEF Fill
<1>2. /\ cpc[c] = "readline"
      /\ UNCHANGED <<server, spc, connfd, rset, kept, turned, kid, killed, fails, idle, dgrams,
                     sent, backlog, up, cpc, typed, stdin, shown>>
  BY DEF Fill, parent, children, failures, udp
<1>3. up[c] \in Seq(Bytes) /\ buf[c] \in Seq(Bytes) /\ down[c] \in Seq(Bytes)
  BY DEF TypeOK, Bytes
<1>4. /\ buf'[c] \in Seq(Bytes) /\ down'[c] \in Seq(Bytes)
      /\ buf'[c] \o down'[c] = buf[c] \o down[c]
  BY <1>1, <1>3, Moved DEF TypeOK
<1>5. buf' \in [Clients -> Seq(Bytes)] /\ down' \in [Clients -> Seq(Bytes)]
  BY <1>1, <1>4 DEF TypeOK, Bytes
<1>6. TypeOK'
  BY <1>2, <1>5 DEF TypeOK, Bytes
<1>7. Flow(c)' = Flow(c)
  <2>1. \A x, y, z \in Seq(Bytes) : (x \o y) \o z = x \o (y \o z)
    BY ConcatAssociative
  <2>2. /\ (buf'[c] \o down'[c]) \o up[c] = buf'[c] \o (down'[c] \o up[c])
        /\ (buf[c] \o down[c]) \o up[c] = buf[c] \o (down[c] \o up[c])
    BY <1>3, <1>4, <2>1
  <2> QED
    BY <1>2, <1>4, <2>2 DEF Flow
<1>8. StreamOK(c)'
  <2>1. StreamOK(c) /\ (Selects(c)' <=> Selects(c))
    BY <1>2 DEF Streams, Selects
  <2>2. down[c] # <<>>
    BY <1>1
  <2>3. kid[c] # "none" /\ ~CutOff(c)
    BY <2>1, <2>2 DEF StreamOK, CutOff
  <2> QED
    BY <1>2, <1>7, <2>1, <2>3 DEF StreamOK
<1> QED
  BY <1>1, <1>2, <1>6, <1>8, OwnStream DEF TypeOK

LEMMA ReadlineKeeps ==
  ASSUME StepInv, NEW c \in Clients, Returns(c) \/ ReadsEof(c)
  PROVE  TypeOK' /\ Streams'
<1> USE DEF StepInv
<1>1. /\ cpc[c] = "readline" /\ buf' = [buf EXCEPT ![c] = AfterLine(@)]
      /\ UNCHANGED <<server, spc, connfd, rset, kept, turned, kid, killed, fails, idle, dgrams,
                     sent, backlog, up, down, typed, stdin>>
  BY DEF Returns, ReadsEof, parent, children, failures, udp, tcp
<1>2. /\ up[c] \in Seq(Bytes) /\ buf[c] \in Seq(Bytes) /\ down[c] \in Seq(Bytes)
      /\ down[c] \o up[c] \in Seq(Bytes)
  BY ConcatProperties DEF TypeOK, Bytes
<1>3. buf' \in [Clients -> Seq(Bytes)] /\ buf'[c] = AfterLine(buf[c])
  BY <1>1, <1>2, LineTail DEF TypeOK, Bytes
<1>4. \/ /\ shown' = [shown EXCEPT ![c] = @ + 1]
         /\ cpc' = [cpc EXCEPT ![c] = IF Selects(c) /\ ~stdin[c] THEN "select" ELSE "fgets"]
      \/ ReadsEof(c) /\ buf[c] = <<>> /\ shown' = shown /\ cpc' = [cpc EXCEPT ![c] = "premature"]
  BY DEF Returns, ReadsEof, Become
<1>5. TypeOK'
  <2>1. shown' \in [Clients -> Nat]
    <3>1. shown \in [Clients -> Nat]
      BY DEF TypeOK
    <3>2. shown' = shown \/ shown' = [shown EXCEPT ![c] = shown[c] + 1]
      BY <1>4
    <3> QED
      BY <3>1, <3>2
  <2>2. cpc' \in [Clients -> {"start", "select", "fgets", "readline", "done", "premature"}]
    BY <1>4 DEF TypeOK
  <2> QED
    BY <1>1, <1>3, <2>1, <2>2 DEF TypeOK, Bytes
<1>6. StreamOK(c) /\ (Selects(c)' <=> Selects(c))
  BY <1>1 DEF Streams, Selects
<1>7. shown[c] \in Nat /\ typed[c] \in Nat
  BY BoundsAssumption DEF TypeOK
<1>8. kid[c] = "none" => down'[c] = <<>> /\ buf'[c] = <<>>
  <2>1. <<>> \in Seq(Bytes) /\ "nl" \notin Range(<<>>)
    BY EmptySeq DEF Range
  <2> QED
    BY <1>1, <1>3, <1>6, <2>1, LineTail DEF StreamOK
<1>9. StreamOK(c)'
  <2>1. CASE Selects(c)
    BY <1>1, <1>6, <1>8, <2>1 DEF StreamOK
  <2>2. CASE ~Selects(c) /\ Returns(c)
    <3>1. "nl" \in Range(buf[c])
      BY <2>2 DEF Returns, LineInBuf
    <3>2. buf[c] # <<>>
      BY <3>1 DEF Range
    <3>3. Flow(c) = Line
      BY <1>1, <1>6, <2>2, <3>2 DEF StreamOK, CutOff
    <3>4. buf'[c] = <<>> /\ down[c] \o up[c] = <<>>
      <4> DEFINE r == down[c] \o up[c]
      <4>1. r \in Seq(Bytes) /\ buf[c] \o r = Line
        BY <1>2, <3>3 DEF Flow
      <4> HIDE DEF r
      <4>2. AfterLine(buf[c]) = <<>> /\ r = <<>>
        BY <1>2, <3>1, <4>1, WholeLine
      <4> QED
        BY <1>3, <4>2 DEF r
    <3>5. <<>> \o <<>> = <<>> /\ <<>> \in Seq(Bytes)
      BY EmptySeq, ConcatEmptySeq
    <3>6. Flow(c)' = <<>>
      BY <1>1, <3>4, <3>5 DEF Flow
    <3>7. /\ shown' = [shown EXCEPT ![c] = @ + 1] /\ cpc' = [cpc EXCEPT ![c] = "fgets"]
      BY <2>2 DEF Returns, Become
    <3>8. cpc'[c] = "fgets" /\ shown'[c] = shown[c] + 1
      BY <3>7 DEF TypeOK
    <3>9. shown[c] + 1 = typed[c]
      BY <1>1, <1>6, <2>2 DEF StreamOK
    <3>10. shown'[c] = typed'[c]
      BY <1>1, <3>8, <3>9
    <3> QED
      BY <1>1, <1>6, <1>8, <2>2, <3>6, <3>8, <3>10 DEF StreamOK
  <2>3. CASE ~Selects(c) /\ ReadsEof(c)
    <3>1. "nl" \notin Range(buf[c]) /\ down[c] = <<>> /\ Closed(c)
      BY <2>3 DEF ReadsEof, LineInBuf
    <3>2. buf'[c] = <<>>
      BY <1>2, <1>3, <3>1, LineTail
    <3>3. shown[c] + 1 = typed[c]
      BY <1>1, <1>6, <2>3 DEF StreamOK
    <3>4. CASE buf[c] = <<>>
      <4>1. shown' = shown /\ cpc'[c] = "premature"
        BY <2>3, <3>4 DEF ReadsEof, Become, TypeOK
      <4> QED
        BY <1>1, <1>6, <1>8, <2>3, <3>3, <4>1 DEF StreamOK
    <3>5. CASE buf[c] # <<>>
      <4>1. kid[c] \in {"zombie", "reaped"}
        BY <1>6, <3>1, <3>5 DEF StreamOK, Closed, TypeOK
      <4>2. c \in killed
        BY <1>1, <4>1 DEF IInv, ChildrenOK, Gone
      <4>3. CutOff(c)'
        BY <1>1, <3>1, <3>2, <4>2 DEF CutOff
      <4>4. shown' = [shown EXCEPT ![c] = @ + 1] /\ cpc' = [cpc EXCEPT ![c] = "fgets"]
        BY <2>3, <3>5 DEF ReadsEof, Become
      <4>5. shown'[c] = shown[c] + 1 /\ cpc'[c] = "fgets"
        BY <4>4 DEF TypeOK
      <4>6. shown'[c] = typed'[c]
        BY <1>1, <3>3, <4>5
      <4> QED
        BY <1>1, <1>6, <1>8, <2>3, <4>3, <4>5, <4>6 DEF StreamOK
    <3> QED
      BY <3>4, <3>5
  <2> QED
    BY <2>1, <2>2, <2>3
<1>10. \A d \in Clients \ {c} : shown'[d] = shown[d] /\ cpc'[d] = cpc[d] /\ buf'[d] = buf[d]
  BY <1>1, <1>4 DEF TypeOK
<1> QED
  BY <1>1, <1>5, <1>9, <1>10, OwnStream

LEMMA ClientKeeps ==
  ASSUME StepInv, NEW c \in Clients, Client(c)
  PROVE  TypeOK' /\ Fresh' /\ DatagramsOK' /\ Streams'
<1> USE DEF StepInv
<1>1. CASE Connect(c)
  BY <1>1, ConnectKeeps
<1>2. CASE ~Connect(c)
  <2>1. /\ cpc[c] # "start" /\ (cpc' = cpc \/ \E t \in {"select", "fgets", "readline", "done",
                                              "premature"} : cpc' = [cpc EXCEPT ![c] = t])
        /\ UNCHANGED <<kid, backlog, spc, connfd, rset, dgrams, sent>>
    BY <1>2 DEF Client, SelectClient, Type, InputEnds, Fill, Returns, ReadsEof, Become, parent,
                children, udp, tcp
  <2>2. Fresh' /\ DatagramsOK'
    <3>1. \A d \in Clients : cpc'[d] = "start" => cpc[d] = "start"
      BY <2>1 DEF TypeOK
    <3> QED
      BY <2>1, <3>1 DEF Fresh, DatagramsOK, Waiting
  <2>3. CASE SelectClient(c) \/ InputEnds(c)
    <3>1. /\ cpc[c] \in {"select", "fgets"} /\ stdin' \in [Clients -> BOOLEAN]
          /\ \E t \in {"readline", "fgets", "done"} : cpc' = [cpc EXCEPT ![c] = t]
          /\ cpc[c] = "select" \/ cpc' = [cpc EXCEPT ![c] = "done"]
          /\ cpc[c] = "fgets" => typed[c] = Lines
          /\ UNCHANGED <<server, spc, connfd, rset, kept, turned, kid, killed, fails, idle,
                         dgrams, sent, backlog, up, down, typed, buf, shown>>
      <4>1. CASE SelectClient(c)
        <5>1. PICK b \in BOOLEAN : stdin' = [stdin EXCEPT ![c] = b]
          BY <4>1 DEF SelectClient
        <5>2. stdin' \in [Clients -> BOOLEAN]
          BY <5>1 DEF TypeOK
        <5> QED
          BY <4>1, <5>2 DEF SelectClient, Become, parent, children, failures, udp, tcp
      <4>2. CASE InputEnds(c)
        BY <4>2 DEF InputEnds, Become, parent, children, failures, udp, tcp, TypeOK
      <4> QED
        BY <2>3, <4>1, <4>2
    <3>2. TypeOK'
      <4>1. cpc' \in [Clients -> {"start", "select", "fgets", "readline", "done", "premature"}]
        BY <3>1 DEF TypeOK
      <4> QED
        BY <3>1, <4>1 DEF TypeOK
    <3>3. StreamOK(c) /\ (Selects(c)' <=> Selects(c))
      BY <3>1 DEF Streams, Selects
    <3>4. cpc[c] = "select" => Selects(c)
      BY <3>3 DEF StreamOK
    <3>5. (cpc[c] = "fgets" /\ cpc'[c] = "done") \/ Selects(c)
      BY <3>1, <3>4 DEF TypeOK
    <3>6. StreamOK(c)'
      BY <3>1, <3>3, <3>5 DEF StreamOK
    <3> QED
      BY <2>2, <3>1, <3>2, <3>6, OwnStream DEF TypeOK
  <2> QED
    BY <1>2, <2>2, <2>3, TypeKeeps, FillKeeps, ReadlineKeeps DEF Client
<1> QED
  BY <1>1, <1>2

LEMMA StepStepInv == StepInv /\ [Next]_vars => StepInv'
<1> SUFFICES ASSUME StepInv, [Next]_vars PROVE StepInv'
  OBVIOUS
<1>1. IInv'
  BY StepIInv DEF StepInv
<1>2. CASE SendDatagram \/ UNCHANGED vars
  <2>1. /\ UNCHANGED <<server, spc, connfd, rset, kept, turned, kid, killed, fails, idle, backlog,
                       up, down, cpc, typed, buf, stdin, shown>>
        /\ \/ UNCHANGED <<dgrams, sent>>
           \/ sent < Datagrams /\ sent' = sent + 1 /\ dgrams' = dgrams + 1
    BY <1>2 DEF SendDatagram, vars, parent, children, failures, udp, tcp, clients
  <2>2. /\ sent' \in 0 .. Datagrams /\ dgrams' \in 0 .. Datagrams /\ dgrams' <= sent'
        /\ dgrams > 0 => dgrams' > 0
    BY <2>1, BoundsAssumption DEF StepInv, TypeOK, DatagramsOK
  <2>3. TypeOK'
    BY <2>1, <2>2 DEF StepInv, TypeOK
  <2>4. Fresh' /\ DatagramsOK'
    BY <2>1, <2>2 DEF StepInv, Fresh, DatagramsOK, Waiting
  <2>5. Streams'
    BY <2>1, SameStreams
  <2> QED
    BY <1>1, <2>3, <2>4, <2>5 DEF StepInv
<1> QED
  BY <1>1, <1>2, ParentKeeps, FailureKeeps, ChildKeeps, ClientKeeps DEF Next, StepInv

\* While a client that waits for each echo waits, its line and nothing else is in its
\* buffer and under way; when it reads its next line, nothing is; it has shown every
\* line but the one it waits for, and all of its lines when it ends well.  So it is
\* unless the child of its connection was killed, whatever pieces reads and writes
\* made of the line and however many other clients there are.
THEOREM OneLineAtATime == Spec => []InStep
<1>1. StepInv => InStep
  BY DEF StepInv, InStep, Streams, StreamOK
<1> QED
  BY InitStepInv, StepStepInv, <1>1, PTL DEF Spec
=============================================================================
