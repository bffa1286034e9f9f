-------------------------- MODULE EchoSelect_proof --------------------------
(***************************************************************************)
(* The select server for any number of clients and connections of any      *)
(* size: its four tables agree, it never blocks in read, a client that     *)
(* comes to its end has the echo of all its input, and who may hang.       *)
(***************************************************************************)
EXTENDS EchoSelect, Functions, FiniteSetTheorems, WellFoundedInduction, TLAPS

\* A descriptor is one connection.
FdsOK ==
    /\ Own \subseteq allset /\ allset \subseteq Own \cup (IF fails > 0 THEN {NegBit} ELSE {})
    /\ {client[k] : k \in Used} = {fd[c] : c \in Clients} \ {None}
    /\ \A j, k \in Used : client[j] = client[k] => j = k
    /\ \A k \in Used : k <= maxi /\ client[k] <= maxfd
    /\ \A c, d \in Clients : fd[c] = fd[d] /\ fd[c] # None => c = d

\* A connection waits once, and before it has a descriptor.
QueueOK ==
    /\ \A j, k \in DOMAIN backlog : backlog[j] = backlog[k] => j = k
    /\ \A c \in Range(backlog) : fd[c] = None /\ c \notin closed /\ cpc[c] # "start"
    /\ \A c \in Clients : cpc[c] = "start" => fd[c] = None /\ c \notin closed

\* What the ends of a connection know of each other.
Ends(c) ==
    /\ c \in eof => left[c] = 0 /\ togo[c] = 0 /\ cpc[c] \notin {"start", "write"}
    /\ rst[c] # "no" => cpc[c] = "left"
    /\ cpc[c] = "left" => c \in eof
    /\ c \in closed => spc = "failed" \/ (up[c] = 0 /\ fd[c] = None /\ c \in eof)
    /\ cpc[c] = "done" => c \in closed /\ down[c] = 0 /\ c \in eof
    /\ cpc[c] = "premature" => c \in closed \/ spc = "failed"
    /\ cpc[c] = "failed" => spc = "failed"
    /\ cpc[c] \in {"start", "select"} => togo[c] = 0

EndsOK == \A c \in Clients : Ends(c)

\* Bytes between read and Write of the server.
InServer(c) == IF spc = "write" /\ fd[c] = client[i] THEN n ELSE 0

Sum(c) == left[c] + togo[c] + up[c] + InServer(c) + down[c] + out[c]

\* Bytes are lost only for a client that left.
BytesOK == \A c \in Clients : Sum(c) <= Input[c] /\ (cpc[c] # "left" => Sum(c) = Input[c])

\* A read of c would return.
Ready(c) == up[c] > 0 \/ rst[c] # "no" \/ c \in eof

\* The slots ahead whose read would not return.
AllReady ==
    \A k \in Ahead : \A c \in Clients :
        fd[c] = client[k] => Ready(c) \/ (spc = "write" /\ k = i)

\* nready and rset say what is left to do in this turn of the loop, unless select
\* failed: then the turn ends with accept.
LoopOK ==
    /\ spc = "accept" =>
         /\ i = 0
         /\ \/ nready = -1 /\ fails > 0
            \/ /\ backlog # <<>> /\ rset \subseteq Own /\ AllReady
               /\ nready = Cardinality(Ahead) + 1
    /\ spc \in {"scan", "write"} => nready = Cardinality(Ahead)
    /\ spc = "scan" => Ahead # {}
    /\ spc = "write" => i \in Ahead
    /\ spc \in {"scan", "write"} => AllReady

IInv == TypeOK /\ FdsOK /\ QueueOK /\ EndsOK /\ BytesOK /\ LoopOK

-----------------------------------------------------------------------------
(* Numbers *)

LEMMA Sizes ==
  /\ Cardinality(Clients) \in Nat /\ IsFiniteSet(Clients)
  /\ Slots \subseteq Nat /\ IsFiniteSet(Slots) /\ Cardinality(Slots) = Cardinality(Clients) + 1
  /\ Fds \subseteq Nat /\ IsFiniteSet(Fds) /\ Cardinality(Fds) = Cardinality(Clients)
  /\ listenfd \notin Fds /\ None \notin Fds /\ None \notin Slots /\ None # listenfd
<1>1. Cardinality(Clients) \in Nat /\ IsFiniteSet(Clients)
  BY ClientsAssumption, FS_CardinalityType
<1>2. IsFiniteSet(Slots) /\ Cardinality(Slots) = Cardinality(Clients) + 1
  BY <1>1, FS_Interval DEF Slots
<1>3. IsFiniteSet(Fds) /\ Cardinality(Fds) = Cardinality(Clients)
  BY <1>1, FS_Interval DEF Fds, listenfd
<1> QED
  BY <1>1, <1>2, <1>3 DEF Slots, Fds, listenfd, None

LEMMA Minimum ==
  ASSUME NEW S \in SUBSET Nat, S # {}
  PROVE  Min(S) \in S /\ \A x \in S : Min(S) <= x
<1>1. PICK m \in S : \A x \in S : ~ (<<x, m>> \in OpToRel(<, Nat))
  BY NatLessThanWellFounded, WFMin
<1>2. \A x \in S : ~ (x < m)
  BY <1>1 DEF OpToRel
<1>3. \E x \in S : \A y \in S : x <= y
  BY <1>2
<1> QED
  BY <1>3 DEF Min

LEMMA Maximum ==
  ASSUME NEW a \in Int, NEW b \in Int
  PROVE  Max({a, b}) \in {a, b} /\ Max({a, b}) >= a /\ Max({a, b}) >= b
<1>1. \E x \in {a, b} : \A y \in {a, b} : x >= y
  OBVIOUS
<1> QED
  BY <1>1 DEF Max

\* The connection of a descriptor in use.
LEMMA ConnOf ==
  ASSUME TypeOK, FdsOK, NEW k \in Used
  PROVE  /\ client[k] \in Fds /\ client[k] # None
         /\ Conn(client[k]) \in Clients /\ fd[Conn(client[k])] = client[k]
         /\ \A c \in Clients : fd[c] = client[k] => c = Conn(client[k])
<1>1. client[k] \in Fds /\ client[k] # None
  BY Sizes DEF TypeOK, Used
<1>2. PICK c \in Clients : fd[c] = client[k]
  BY <1>1 DEF FdsOK
<1>3. Conn(client[k]) \in Clients /\ fd[Conn(client[k])] = client[k]
  BY <1>2 DEF Conn
<1> QED
  BY <1>1, <1>3 DEF FdsOK

\* A slot is always left.
LEMMA SlotLeft ==
  ASSUME TypeOK, FdsOK, NEW s, s = Min({k \in Slots : client[k] = None})
  PROVE  s \in Slots /\ client[s] = None
<1>1. ASSUME \A k \in Slots : client[k] # None PROVE FALSE
  <2> DEFINE g == [k \in Slots |-> Conn(client[k])]
  <2>1. Used = Slots
    BY <1>1 DEF Used
  <2>2. \A k \in Slots : Conn(client[k]) \in Clients /\ fd[Conn(client[k])] = client[k]
    BY <2>1, ConnOf
  <2>3. g \in [Slots -> Clients]
    BY <2>2
  <2>4. Cardinality(Clients) < Cardinality(Slots)
    BY Sizes
  <2> HIDE DEF g
  <2>5. PICK x, y \in Slots : x # y /\ g[x] = g[y]
    BY <2>3, <2>4, Sizes, FS_PigeonHole
  <2>6. client[x] = client[y]
    BY <2>2, <2>5 DEF g
  <2> QED
    BY <2>1, <2>5, <2>6 DEF FdsOK
<1>2. s \in {k \in Slots : client[k] = None}
  BY <1>1, Minimum, Sizes
<1> QED
  BY <1>2

\* A connection that waits leaves a descriptor to the others.
LEMMA RoomForOne ==
  ASSUME TypeOK, FdsOK, QueueOK, backlog # <<>>
  PROVE  \E f \in Fds : f \notin {fd[c] : c \in Clients}
<1> DEFINE h == Head(backlog)
           Others == Clients \ {h}
<1>1. h \in Clients /\ fd[h] = None
  BY DEF TypeOK, QueueOK, Range
<1>2. Cardinality(Others) = Cardinality(Clients) - 1 /\ IsFiniteSet(Others)
  BY <1>1, Sizes, FS_RemoveElement
<1> HIDE DEF h
<1>3. ASSUME \A f \in Fds : f \in {fd[c] : c \in Clients} PROVE FALSE
  <2> DEFINE g == [f \in Fds |-> Conn(f)]
  <2>1. \A f \in Fds : Conn(f) \in Clients /\ fd[Conn(f)] = f
    BY <1>3 DEF Conn
  <2>2. g \in [Fds -> Others]
    BY <1>1, <2>1, Sizes
  <2>3. Cardinality(Others) < Cardinality(Fds)
    BY <1>2, Sizes
  <2> HIDE DEF g, Others
  <2>4. PICK x, y \in Fds : x # y /\ g[x] = g[y]
    BY <1>2, <2>2, <2>3, Sizes, FS_PigeonHole
  <2> QED
    BY <2>1, <2>4 DEF g
<1> QED
  BY <1>3

\* What accept and the loop behind it find.
LEMMA FreeOnes ==
  ASSUME TypeOK, FdsOK, QueueOK, backlog # <<>>,
         NEW f, f = Min(Fds \ {fd[c] : c \in Clients}),
         NEW s, s = Min({k \in Slots : client[k] = None})
  PROVE  /\ f \in Fds /\ \A c \in Clients : fd[c] # f
         /\ s \in Slots /\ client[s] = None
<1>1. f \in Fds \ {fd[c] : c \in Clients}
  BY RoomForOne, Minimum, Sizes
<1>2. s \in Slots /\ client[s] = None
  BY SlotLeft
<1> QED
  BY <1>1, <1>2

LEMMA AheadOK ==
  TypeOK => /\ Ahead \subseteq Used /\ Ahead \subseteq Nat /\ IsFiniteSet(Ahead)
            /\ Cardinality(Ahead) \in 0 .. Cardinality(Slots)
            /\ Ahead # {} => Min(Ahead) \in Ahead /\ \A k \in Ahead : Min(Ahead) <= k
<1> SUFFICES ASSUME TypeOK
             PROVE  /\ Ahead \subseteq Used /\ Ahead \subseteq Nat /\ IsFiniteSet(Ahead)
                    /\ Cardinality(Ahead) \in 0 .. Cardinality(Slots)
                    /\ Ahead # {} => Min(Ahead) \in Ahead /\ \A k \in Ahead : Min(Ahead) <= k
  OBVIOUS
<1>1. Ahead \subseteq Used /\ Ahead \subseteq Slots
  <2>1. \A k \in i .. maxi : k \in Slots
    BY Sizes DEF TypeOK, Slots, None
  <2> QED
    BY <2>1 DEF Ahead, Used
<1>2. IsFiniteSet(Ahead) /\ Cardinality(Ahead) <= Cardinality(Slots)
  BY <1>1, Sizes, FS_Subset
<1>3. Cardinality(Ahead) \in Nat
  BY <1>2, FS_CardinalityType
<1>4. Ahead \subseteq Nat
  BY <1>1, Sizes
<1> QED
  BY <1>1, <1>2, <1>3, <1>4, Minimum, Sizes

\* The numbers of one client.
LEMMA CountsOf ==
  ASSUME TypeOK, NEW c \in Clients
  PROVE  /\ up[c] \in 0 .. Cap /\ down[c] \in 0 .. Cap /\ left[c] \in 0 .. Input[c]
         /\ out[c] \in 0 .. Input[c] /\ togo[c] \in 0 .. MAXLINE /\ n \in 0 .. MAXLINE
         /\ InServer(c) \in 0 .. MAXLINE
         /\ Input[c] \in Nat /\ MAXLINE \in Nat \ {0} /\ Cap \in Nat \ {0}
<1>1. InServer(c) \in 0 .. MAXLINE
  BY SizesAssumption DEF TypeOK, InServer
<1> QED
  BY <1>1, SizesAssumption DEF TypeOK

-----------------------------------------------------------------------------
(* The clients *)

\* No step of a client touches the server or takes from what a read would return.
LEMMA ClientQuiet ==
  ASSUME IInv, NEW c \in Clients, Client(c)
  PROVE  /\ UNCHANGED <<server, fd, closed>>
         /\ \A d \in Clients : Ready(d) => Ready(d)'
         /\ backlog # <<>> => backlog' # <<>>
         /\ \A d \in Clients \ {c} :
               /\ up'[d] = up[d] /\ down'[d] = down[d] /\ left'[d] = left[d]
               /\ togo'[d] = togo[d] /\ out'[d] = out[d] /\ rst'[d] = rst[d]
               /\ cpc'[d] = cpc[d] /\ (d \in eof' <=> d \in eof)
<1>0. backlog \in Seq(Clients)
  BY DEF IInv, TypeOK
<1> USE DEF IInv, TypeOK
<1>1. CASE Connect(c)
  <2>1. backlog' # <<>>
    <3>1. backlog' = Append(backlog, c)
      BY <1>1 DEF Connect
    <3> HIDE DEF IInv, TypeOK
    <3>2. Len(Append(backlog, c)) = Len(backlog) + 1 /\ Len(backlog) \in Nat
      BY <1>0
    <3> QED
      BY <3>1, <3>2
  <2> QED
    BY <1>1, <2>1 DEF Connect, Become, Ready
<1>2. CASE ReadSock(c)
  BY <1>2 DEF ReadSock, Ready
<1>3. CASE SockEof(c) \/ ServerDied(c) \/ Refused(c)
  BY <1>3 DEF SockEof, ServerDied, Refused, Become, tcp, Ready
<1>4. CASE ReadStdin(c)
  BY <1>4 DEF ReadStdin, Become, tcp, Ready
<1>5. CASE WriteSock(c)
  <2>1. Least(togo[c], Cap - up[c]) \in Nat
    <3>1. togo[c] \in Nat /\ up[c] \in 0 .. Cap
      BY CountsOf
    <3>2. Cap - up[c] \in Nat
      BY <3>1, SizesAssumption
    <3> QED
      BY <3>1, <3>2 DEF Least
  <2>2. up'[c] >= up[c]
    BY <1>5, <2>1, CountsOf DEF WriteSock
  <2>3. up' \in [Clients -> Int] /\ \A d \in Clients \ {c} : up'[d] = up[d]
    BY <1>5, <2>1 DEF WriteSock
  <2>4. up[c] \in Int /\ up'[c] \in Int
    BY <2>3, CountsOf
  <2>5. up[c] > 0 => up'[c] > 0
    BY <2>2, <2>4
  <2>6. \A d \in Clients : up[d] > 0 => up'[d] > 0
    BY <2>3, <2>5
  <2> QED
    BY <1>5, <2>3, <2>6 DEF WriteSock, Become, Ready
<1>6. CASE StdinEof(c)
  BY <1>6 DEF StdinEof, Leave, HalfClose, Become, Ready
<1> QED
  BY <1>1, <1>2, <1>3, <1>4, <1>5, <1>6 DEF Client

\* What one client's step makes of its bytes and of its end.
LEMMA ClientOwn ==
  ASSUME IInv, NEW c \in Clients, Client(c)
  PROVE  /\ cpc' \in [Clients -> {"start", "select", "write", "done", "left", "failed",
                                  "premature"}]
         /\ rst' \in [Clients -> {"no", "pending", "taken"}] /\ eof' \subseteq Clients
         /\ up' \in [Clients -> Int] /\ up'[c] \in 0 .. Cap
         /\ down' \in [Clients -> Int] /\ down'[c] \in 0 .. Cap
         /\ left' \in [Clients -> Int] /\ left'[c] \in 0 .. Input[c]
         /\ togo' \in [Clients -> Int] /\ togo'[c] \in 0 .. MAXLINE
         /\ out' \in [Clients -> Int] /\ out'[c] >= out[c]
         /\ left'[c] + togo'[c] + up'[c] + down'[c] + out'[c]
              = left[c] + togo[c] + up[c] + down[c] + out[c]
         /\ cpc[c] = "left" => cpc'[c] = "left"
         /\ Ends(c)'
<1> DEFINE Goal ==
         /\ cpc' \in [Clients -> {"start", "select", "write", "done", "left", "failed",
                                  "premature"}]
         /\ rst' \in [Clients -> {"no", "pending", "taken"}] /\ eof' \subseteq Clients
         /\ up' \in [Clients -> Int] /\ up'[c] \in 0 .. Cap
         /\ down' \in [Clients -> Int] /\ down'[c] \in 0 .. Cap
         /\ left' \in [Clients -> Int] /\ left'[c] \in 0 .. Input[c]
         /\ togo' \in [Clients -> Int] /\ togo'[c] \in 0 .. MAXLINE
         /\ out' \in [Clients -> Int] /\ out'[c] >= out[c]
         /\ left'[c] + togo'[c] + up'[c] + down'[c] + out'[c]
              = left[c] + togo[c] + up[c] + down[c] + out[c]
         /\ cpc[c] = "left" => cpc'[c] = "left"
         /\ Ends(c)'
<1>0. /\ up[c] \in 0 .. Cap /\ down[c] \in 0 .. Cap /\ left[c] \in 0 .. Input[c]
      /\ out[c] \in 0 .. Input[c] /\ togo[c] \in 0 .. MAXLINE
      /\ Input[c] \in Nat /\ MAXLINE \in Nat \ {0} /\ Cap \in Nat \ {0}
  BY CountsOf DEF IInv
<1>a. /\ {up, down, left, togo, out} \subseteq [Clients -> Int]
      /\ cpc \in [Clients -> {"start", "select", "write", "done", "left", "failed", "premature"}]
      /\ rst \in [Clients -> {"no", "pending", "taken"}] /\ eof \subseteq Clients
  BY SizesAssumption DEF IInv, TypeOK
<1>b. Ends(c)
  BY DEF IInv, EndsOK
<1>1. CASE Connect(c)
  BY <1>0, <1>a, <1>b, <1>1 DEF Connect, Become, Ends, server
<1>2. CASE ReadSock(c)
  <2> DEFINE m == Least(down[c], MAXLINE)
  <2>0. m \in Nat /\ m <= down[c]
    BY <1>0 DEF Least
  <2>1. /\ m \in Nat /\ m <= down[c]
        /\ down' = [down EXCEPT ![c] = down[c] - m]
        /\ out' = [out EXCEPT ![c] = out[c] + m]
    BY <1>2, <2>0 DEF ReadSock
  <2> HIDE DEF m
  <2>2. down'[c] = down[c] - m /\ out'[c] = out[c] + m /\ {down', out'} \subseteq [Clients -> Int]
    BY <1>0, <1>a, <2>1
  <2>3. Ends(c)'
    BY <1>b, <1>2, <2>2 DEF ReadSock, Ends, server
  <2> QED
    BY <1>0, <1>a, <1>2, <2>1, <2>2, <2>3 DEF ReadSock
<1>3. CASE SockEof(c)
  BY <1>0, <1>a, <1>b, <1>3 DEF SockEof, Become, Ends, server, tcp
<1>4. CASE ServerDied(c) \/ Refused(c)
  BY <1>0, <1>a, <1>b, <1>4 DEF ServerDied, Refused, Become, Ends, server, tcp
<1>5. CASE ReadStdin(c)
  <2> DEFINE m == Least(left[c], MAXLINE)
  <2>0. m \in Nat /\ m <= left[c] /\ m <= MAXLINE
    BY <1>0 DEF Least
  <2>1. /\ m \in Nat /\ m <= left[c] /\ m <= MAXLINE
        /\ togo' = [togo EXCEPT ![c] = m]
        /\ left' = [left EXCEPT ![c] = left[c] - togo'[c]]
    BY <1>5, <2>0 DEF ReadStdin
  <2> HIDE DEF m
  <2>2. /\ togo'[c] = m /\ left'[c] = left[c] - m /\ {togo', left'} \subseteq [Clients -> Int]
        /\ togo[c] = 0 /\ c \notin eof
    BY <1>0, <1>a, <1>b, <1>5, <2>1 DEF ReadStdin, Ends
  <2>3. Ends(c)'
    BY <1>a, <1>b, <1>5, <2>2 DEF ReadStdin, Become, Ends, server, tcp
  <2> QED
    BY <1>0, <1>a, <1>5, <2>1, <2>2, <2>3 DEF ReadStdin, Become, tcp
<1>6. CASE WriteSock(c)
  <2> DEFINE m == Least(togo[c], Cap - up[c])
  <2>0. m \in Nat /\ m <= togo[c] /\ m <= Cap - up[c]
    BY <1>0 DEF Least
  <2>1. /\ m \in Nat /\ m <= togo[c] /\ m <= Cap - up[c]
        /\ up' = [up EXCEPT ![c] = up[c] + m]
        /\ togo' = [togo EXCEPT ![c] = togo[c] - m]
        /\ cpc' = [cpc EXCEPT ![c] = IF m = togo[c] THEN "select" ELSE "write"]
    BY <1>6, <2>0 DEF WriteSock, Become
  <2> HIDE DEF m
  <2>2. up'[c] = up[c] + m /\ togo'[c] = togo[c] - m /\ {togo', up'} \subseteq [Clients -> Int]
    BY <1>0, <1>a, <2>1
  <2>3. /\ cpc[c] = "write" /\ c \notin eof /\ (c \in closed => spc = "failed")
        /\ UNCHANGED <<server, fd, closed, down, rst, left, eof, out>>
    BY <1>b, <1>6 DEF WriteSock, Ends
  <2>4. cpc'[c] \in {"select", "write"} /\ (cpc'[c] = "select" => m = togo[c])
    BY <1>a, <2>1
  <2>5. Ends(c)'
    BY <1>0, <1>b, <2>2, <2>3, <2>4 DEF Ends, server
  <2>6. cpc' \in [Clients -> {"start", "select", "write", "done", "left", "failed", "premature"}]
    BY <1>a, <2>1
  <2> QED
    BY <1>0, <1>a, <2>1, <2>2, <2>3, <2>5, <2>6
<1>7. CASE StdinEof(c)
  <2>1. CASE HalfClose(c)
    BY <1>0, <1>a, <1>b, <1>7, <2>1 DEF StdinEof, HalfClose, Ends, server
  <2>2. CASE Leave(c)
    <3>1. rst'[c] \in {"no", "pending", "taken"} /\ cpc'[c] = "left"
          /\ rst' \in [Clients -> {"no", "pending", "taken"}]
      BY <1>a, <2>2 DEF Leave, Become
    <3>2. Ends(c)'
      BY <1>0, <1>b, <1>7, <2>2, <3>1 DEF StdinEof, Leave, Ends, server
    <3> QED
      BY <1>0, <1>a, <1>7, <2>2, <3>1, <3>2 DEF StdinEof, Leave, Become
  <2> QED
    BY <1>7, <2>1, <2>2 DEF StdinEof
<1> QED
  BY <1>1, <1>2, <1>3, <1>4, <1>5, <1>6, <1>7 DEF Client

\* The queue changes by connect only.
LEMMA ClientQueue ==
  ASSUME IInv, NEW c \in Clients, Client(c)
  PROVE  QueueOK' /\ backlog' \in Seq(Clients)
<1>1. TypeOK /\ QueueOK /\ UNCHANGED <<fd, closed>>
  BY ClientQuiet DEF IInv
<1>2. CASE Connect(c)
  <2>1. /\ cpc[c] = "start" /\ cpc' = [cpc EXCEPT ![c] = "select"]
        /\ backlog' = Append(backlog, c) /\ backlog \in Seq(Clients)
    BY <1>1, <1>2 DEF Connect, Become, TypeOK
  <2>2. c \notin Range(backlog) /\ fd[c] = None /\ c \notin closed
    BY <1>1, <2>1 DEF QueueOK
  <2> DEFINE q == Append(backlog, c)
  <2>3. Len(backlog) \in Nat /\ DOMAIN backlog = 1 .. Len(backlog)
    BY <2>1
  <2>4. /\ DOMAIN q = 1 .. Len(backlog) + 1 /\ q[Len(backlog) + 1] = c /\ q \in Seq(Clients)
        /\ \A k \in 1 .. Len(backlog) : q[k] = backlog[k]
    BY <2>1
  <2> HIDE DEF q
  <2>5. 1 .. Len(backlog) + 1 = (1 .. Len(backlog)) \cup {Len(backlog) + 1}
    BY <2>3
  <2>6. Range(q) = Range(backlog) \cup {c}
    BY <2>3, <2>4, <2>5 DEF Range
  <2>7. \A k \in 1 .. Len(backlog) : backlog[k] # c
    BY <2>2, <2>3 DEF Range
  <2>8. \A j, k \in DOMAIN q : q[j] = q[k] => j = k
    BY <1>1, <2>3, <2>4, <2>5, <2>7 DEF QueueOK
  <2>9. backlog' = q
    BY <2>1 DEF q
  <2>10. \A d \in Clients : cpc'[d] = "start" => cpc[d] = "start"
    BY <1>1, <2>1 DEF TypeOK
  <2>11. \A d \in Range(q) : d \in Clients /\ cpc'[d] # "start"
    <3>1. \A d \in Range(backlog) : d \in Clients /\ cpc[d] # "start"
      BY <1>1, <2>1 DEF QueueOK, Range
    <3>2. cpc'[c] # "start"
      BY <1>1, <2>1 DEF TypeOK
    <3> QED
      BY <2>6, <2>10, <3>1, <3>2
  <2>12. \A d \in Range(backlog') : fd'[d] = None /\ d \notin closed' /\ cpc'[d] # "start"
    BY <1>1, <2>2, <2>6, <2>9, <2>11 DEF QueueOK
  <2> QED
    BY <1>1, <2>4, <2>8, <2>9, <2>10, <2>12 DEF QueueOK
<1>3. CASE ~Connect(c)
  <2>1. backlog' = backlog /\ \A d \in Clients : cpc'[d] = "start" => cpc[d] = "start"
    BY <1>1, <1>3 DEF Client, ReadSock, SockEof, ReadStdin, WriteSock, StdinEof, HalfClose, Leave,
                      ServerDied, Refused, Become, tcp, TypeOK
  <2>2. \A d \in Range(backlog) : d \in Clients
    BY <1>1 DEF TypeOK, Range
  <2> QED
    BY <1>1, <2>1, <2>2 DEF QueueOK, TypeOK
<1> QED
  BY <1>2, <1>3

LEMMA ClientStep ==
  ASSUME IInv, NEW c \in Clients, Client(c)
  PROVE  IInv'
<1>1. UNCHANGED <<server, fd, closed>>
  BY ClientQuiet
<1>2. FdsOK'
  BY <1>1 DEF IInv, FdsOK, Own, Used, server
<1>3. EndsOK'
  <2>1. ASSUME NEW d \in Clients \ {c} PROVE Ends(d)'
    BY <1>1, <2>1, ClientQuiet DEF IInv, EndsOK, Ends, server
  <2> QED
    BY <2>1, ClientOwn DEF EndsOK
<1>4. \A d \in Clients : InServer(d)' = InServer(d)
  BY <1>1 DEF InServer, server
<1>5. BytesOK'
  <2>1. ASSUME NEW d \in Clients \ {c} PROVE Sum(d)' = Sum(d) /\ cpc'[d] = cpc[d]
    BY <1>4, <2>1, ClientQuiet DEF Sum
  <2>2. Sum(c)' = Sum(c)
    <3>1. /\ up'[c] \in Int /\ down'[c] \in Int /\ left'[c] \in Int /\ togo'[c] \in Int
          /\ out'[c] \in Int
      BY ClientOwn
    <3>2. /\ up[c] \in Int /\ down[c] \in Int /\ left[c] \in Int /\ togo[c] \in Int
          /\ out[c] \in Int /\ InServer(c) \in Int
      BY CountsOf DEF IInv
    <3>3. left'[c] + togo'[c] + up'[c] + down'[c] + out'[c]
             = left[c] + togo[c] + up[c] + down[c] + out[c]
      BY ClientOwn
    <3>4. InServer(c)' = InServer(c)
      BY <1>4
    <3>5. /\ Sum(c)' = left'[c] + togo'[c] + up'[c] + InServer(c) + down'[c] + out'[c]
          /\ Sum(c) = left[c] + togo[c] + up[c] + InServer(c) + down[c] + out[c]
      BY <3>4 DEF Sum
    <3> QED
      BY <3>1, <3>2, <3>3, <3>5
  <2> QED
    BY <2>1, <2>2, ClientOwn DEF IInv, BytesOK
<1>6. LoopOK'
  <2>1. Ahead' = Ahead
    BY <1>1 DEF Ahead, server
  <2>2. \A d \in Clients : Ready(d) => Ready(d)'
    BY ClientQuiet
  <2>3. backlog # <<>> => backlog' # <<>>
    BY ClientQuiet
  <2>4. AllReady => AllReady'
    BY <1>1, <2>1, <2>2 DEF AllReady, server
  <2>5. Own' = Own
    BY <1>1 DEF Own, Used, server
  <2> HIDE DEF Ready, Ahead
  <2> QED
    BY <1>1, <2>1, <2>3, <2>4, <2>5 DEF IInv, LoopOK, server
<1>7. TypeOK'
  <2>1. ASSUME NEW d \in Clients
        PROVE  /\ up'[d] \in 0 .. Cap /\ down'[d] \in 0 .. Cap /\ left'[d] \in 0 .. Input[d]
               /\ togo'[d] \in 0 .. MAXLINE /\ out'[d] \in 0 .. Input[d]
    <3>1. CASE d # c
      BY <3>1, ClientQuiet, CountsOf DEF IInv
    <3>2. CASE d = c
      <4>1. /\ up'[c] \in 0 .. Cap /\ down'[c] \in 0 .. Cap /\ left'[c] \in 0 .. Input[c]
            /\ togo'[c] \in 0 .. MAXLINE /\ out'[c] \in Int /\ out'[c] >= 0
        BY ClientOwn, CountsOf DEF IInv
      <4>2. Sum(c)' <= Input[c] /\ InServer(c)' \in Nat
        BY <1>4, <1>5, CountsOf DEF BytesOK, IInv
      <4>3. out'[c] <= Input[c]
        BY <4>1, <4>2, CountsOf DEF Sum, IInv
      <4> QED
        BY <3>2, <4>1, <4>3, CountsOf DEF IInv
    <3> QED
      BY <3>1, <3>2
  <2>2. /\ {up', down', left', togo', out'} \subseteq [Clients -> Int]
        /\ cpc' \in [Clients -> {"start", "select", "write", "done", "left", "failed",
                                 "premature"}]
        /\ rst' \in [Clients -> {"no", "pending", "taken"}] /\ eof' \subseteq Clients
        /\ backlog' \in Seq(Clients)
    BY ClientOwn, ClientQueue
  <2>3. /\ up' \in [Clients -> 0 .. Cap] /\ down' \in [Clients -> 0 .. Cap]
        /\ {left', out'} \subseteq [Clients -> Nat]
        /\ \A d \in Clients : left'[d] \in 0 .. Input[d] /\ out'[d] \in 0 .. Input[d]
        /\ togo' \in [Clients -> 0 .. MAXLINE]
    BY <2>1, <2>2
  <2> QED
    BY <1>1, <2>2, <2>3 DEF IInv, TypeOK, server
<1> QED
  BY <1>2, <1>3, <1>5, <1>6, <1>7, ClientQueue DEF IInv

-----------------------------------------------------------------------------
(* The server *)

\* select reports the listening descriptor and one for each slot the loop will stop at.
LEMMA SelectCounts ==
  ASSUME IInv, Select
  PROVE  /\ Cardinality(Ahead)' \in 0 .. Cardinality(Slots) /\ rset' \subseteq Own
         /\ nready' = Cardinality(Ahead)' + (IF listenfd \in rset' THEN 1 ELSE 0)
         /\ listenfd \notin rset' => Ahead' # {}
         /\ \A k \in Ahead' : k \in Used /\ client[k] \in rset'
<1> DEFINE T == rset' \ {listenfd}
           h == [k \in Ahead' |-> client[k]]
<1>1. /\ client' = client /\ maxi' = maxi /\ i' = 0 /\ rset' # {}
      /\ nready' = Cardinality(rset')
  BY DEF Select
<1>0. rset' \subseteq Own
  <2> SUFFICES ASSUME NEW f \in rset' PROVE f \in Own
    OBVIOUS
  <2>1. f \in allset /\ f <= maxfd /\ ~BadBit
    BY DEF Select
  <2>2. CASE f = NegBit
    <3>1. PICK c \in Clients : fd[c] = f
      BY <2>1, <2>2 DEF BadBit
    <3>2. f # None
      BY <2>2, FailsAssumption DEF None
    <3> QED
      BY <3>1, <3>2 DEF IInv, FdsOK, Own
  <2> QED
    BY <2>1, <2>2 DEF IInv, FdsOK
<1>2. Ahead' = {k \in 0 .. maxi : client[k] # None /\ client[k] \in rset'}
  BY <1>1 DEF Ahead
<1>3. Ahead' \subseteq Used /\ Ahead' \subseteq Slots
  <2>1. \A k \in 0 .. maxi : k \in Slots
    BY Sizes DEF IInv, TypeOK, Slots, None
  <2> QED
    BY <1>2, <2>1 DEF Used
<1>4. IsFiniteSet(Ahead') /\ Cardinality(Ahead') <= Cardinality(Slots)
  BY <1>3, Sizes, FS_Subset
<1>5. Cardinality(Ahead') \in 0 .. Cardinality(Slots)
  BY <1>4, Sizes, FS_CardinalityType
<1>6. \A k \in Used : client[k] \in Fds /\ client[k] # listenfd /\ client[k] # None
  BY Sizes DEF IInv, TypeOK, Used
<1>7. \A f \in T : \E k \in Ahead' : client[k] = f
  <2> TAKE f \in T
  <2>1. PICK k \in Used : client[k] = f
    BY <1>0 DEF Own
  <2>2. k \in 0 .. maxi
    BY Sizes DEF IInv, FdsOK, TypeOK, Used, Slots
  <2> QED
    BY <1>2, <1>6, <2>1, <2>2
<1>8. \A k \in Ahead' : client[k] \in T
  BY <1>2, <1>3, <1>6
<1>9. \A j, k \in Ahead' : client[j] = client[k] => j = k
  BY <1>3 DEF IInv, FdsOK
<1> HIDE DEF T
<1>10. h \in [Ahead' -> T]
  BY <1>8
<1>11. h \in Bijection(Ahead', T)
  BY <1>7, <1>9, <1>10 DEF Bijection, Injection, IsInjective, Surjection
<1>12. Cardinality(T) = Cardinality(Ahead') /\ IsFiniteSet(T)
  BY <1>4, <1>11, FS_Bijection DEF ExistsBijection
<1>13. CASE listenfd \in rset'
  <2>1. rset' = T \cup {listenfd} /\ listenfd \notin T
    BY <1>13 DEF T
  <2>2. Cardinality(rset') = Cardinality(T) + 1
    BY <1>12, <2>1, FS_AddElement
  <2>3. nready' = Cardinality(Ahead') + 1
    BY <1>1, <1>12, <2>2
  <2> QED
    BY <1>0, <1>2, <1>3, <1>5, <1>13, <2>3
<1>14. CASE listenfd \notin rset'
  <2>1. rset' = T /\ T # {}
    BY <1>1, <1>14 DEF T
  <2>2. nready' = Cardinality(Ahead') /\ Cardinality(Ahead') \in Nat
    BY <1>1, <1>4, <1>12, <2>1, FS_CardinalityType
  <2>3. Ahead' # {}
    BY <1>7, <2>1
  <2> QED
    BY <1>0, <1>2, <1>3, <1>5, <1>14, <2>2, <2>3
<1> QED
  BY <1>0, <1>2, <1>3, <1>13, <1>14

LEMMA SelectStep == IInv /\ Select => IInv'
<1> SUFFICES ASSUME IInv, Select PROVE IInv'
  OBVIOUS
<1>1. /\ spc = "select" /\ spc' = IF listenfd \in rset' THEN "accept" ELSE "scan"
      /\ rset' = {f \in allset : f <= maxfd /\ Readable(f)} /\ i' = 0
      /\ UNCHANGED <<client, maxi, maxfd, allset, n, fails, tcp, cli>>
  BY DEF Select
<1>2. FdsOK' /\ QueueOK' /\ EndsOK'
  BY <1>1 DEF IInv, FdsOK, Own, QueueOK, EndsOK, Ends, Used, tcp, cli
<1>3. \A c \in Clients : InServer(c)' = 0 /\ InServer(c) = 0
  BY <1>1 DEF InServer
<1>4. BytesOK'
  BY <1>1, <1>3 DEF IInv, BytesOK, Sum, tcp, cli
<1>5. rset' \subseteq allset' /\ allset' = allset
  BY <1>1
<1>6. TypeOK'
  <2>1. nready' \in -2 .. Cardinality(Slots) + 1
    <3>1. Cardinality(Slots) \in Nat
      BY Sizes
    <3> QED
      BY <3>1, SelectCounts
  <2>2. rset' \subseteq Fds \cup {listenfd, NegBit}
    BY <1>5 DEF IInv, TypeOK
  <2> QED
    BY <1>1, <2>1, <2>2 DEF IInv, TypeOK, tcp, cli
<1>7. LoopOK'
  <2>1. listenfd \in rset' => backlog' # <<>>
    BY <1>1 DEF Readable, tcp
  <2>2. ASSUME NEW k \in Ahead', NEW c \in Clients, fd'[c] = client'[k] PROVE Ready(c)'
    <3>1. k \in Used /\ client[k] \in rset' /\ fd[c] = client[k]
      BY <1>1, <2>2, SelectCounts DEF tcp
    <3>2. c = Conn(client[k]) /\ client[k] # listenfd
      BY <3>1, ConnOf, Sizes DEF IInv
    <3>3. Readable(client[k])
      BY <1>1, <3>1
    <3> QED
      BY <1>1, <3>2, <3>3 DEF Readable, Ready, tcp, cli
  <2>3. AllReady'
    BY <2>2 DEF AllReady
  <2>4. rset' \subseteq Own'
    BY <1>1, SelectCounts DEF Own, Used
  <2> QED
    BY <1>1, <2>1, <2>3, <2>4, SelectCounts DEF LoopOK
<1> QED
  BY <1>2, <1>4, <1>6, <1>7 DEF IInv

LEMMA SelectFailsStep == IInv /\ SelectFails => IInv'
<1> SUFFICES ASSUME IInv, SelectFails PROVE IInv'
  OBVIOUS
<1>1. /\ spc = "select" /\ BadBit /\ rset' = allset /\ nready' = -1 /\ i' = 0 /\ spc' = "accept"
      /\ UNCHANGED <<client, maxi, maxfd, allset, n, fails, tcp, cli>>
  BY DEF SelectFails
<1>2. FdsOK' /\ QueueOK' /\ EndsOK'
  BY <1>1 DEF IInv, FdsOK, Own, QueueOK, EndsOK, Ends, Used, tcp, cli
<1>3. \A c \in Clients : InServer(c)' = 0 /\ InServer(c) = 0
  BY <1>1 DEF InServer
<1>4. BytesOK'
  BY <1>1, <1>3 DEF IInv, BytesOK, Sum, tcp, cli
<1>5. TypeOK'
  <2>1. nready' \in -2 .. Cardinality(Slots) + 1
    BY <1>1, Sizes
  <2> QED
    BY <1>1, <2>1 DEF IInv, TypeOK, tcp, cli
<1>6. fails > 0
  <2>1. NegBit \notin Own
    <3>1. \A k \in Used : client[k] # NegBit
      BY <1>1, ConnOf DEF IInv, BadBit
    <3> QED
      BY <3>1, FailsAssumption DEF Own, listenfd
  <2> QED
    BY <1>1, <2>1 DEF BadBit, IInv, FdsOK
<1>7. LoopOK'
  BY <1>1, <1>6 DEF LoopOK
<1> QED
  BY <1>2, <1>4, <1>5, <1>7 DEF IInv

\* A turn of the loop ends: what is left is the rest.
LEMMA HandledOne ==
  ASSUME IInv, nready = Cardinality(Ahead), NEW k \in Ahead, \A j \in Ahead : k <= j,
         Handled(k), UNCHANGED <<maxi, rset>>,
         \/ client' = client
         \/ client' = [client EXCEPT ![k] = None]
  PROVE  /\ Ahead' = Ahead \ {k} /\ nready' = Cardinality(Ahead')
         /\ nready' \in -2 .. Cardinality(Slots) + 1 /\ i' \in Nat
         /\ spc' \in {"select", "scan"} /\ (spc' = "scan" => Ahead' # {})
<1>1. /\ Ahead \subseteq Used /\ Ahead \subseteq Nat /\ IsFiniteSet(Ahead)
      /\ Cardinality(Ahead) \in 0 .. Cardinality(Slots) /\ Cardinality(Slots) \in Nat
  BY AheadOK, Sizes DEF IInv
<1>2. /\ nready' = nready - 1 /\ i' = k + 1
      /\ spc' = IF nready - 1 <= 0 \/ Ahead \subseteq {k} THEN "select" ELSE "scan"
  BY DEF Handled
<1>3. Cardinality(Ahead \ {k}) = Cardinality(Ahead) - 1 /\ Cardinality(Ahead \ {k}) \in Nat
  BY <1>1, FS_RemoveElement, FS_CardinalityType
<1>4. Ahead' = Ahead \ {k}
  <2>1. i \in Nat /\ k \in i .. maxi /\ maxi \in Int /\ client \in [Slots -> Fds \cup {None}]
    BY Sizes DEF IInv, TypeOK, Ahead, None, Slots
  <2>2. \A j \in k + 1 .. maxi : j \in i .. maxi /\ j # k /\ j \in Slots
    BY <2>1, Sizes DEF IInv, TypeOK, None, Slots
  <2>3. \A j \in k + 1 .. maxi : client'[j] = client[j]
    BY <2>1, <2>2
  <2>4. Ahead' = {j \in k + 1 .. maxi : client[j] # None /\ client[j] \in rset}
    BY <1>2, <2>3 DEF Ahead
  <2>5. \A j \in Ahead \ {k} : j \in k + 1 .. maxi
    BY <1>1, <2>1 DEF Ahead
  <2> QED
    BY <2>2, <2>4, <2>5 DEF Ahead
<1>5. Ahead \subseteq {k} <=> Ahead \ {k} = {}
  OBVIOUS
<1>6. nready' \in -2 .. Cardinality(Slots) + 1 /\ i' \in Nat
  BY <1>1, <1>2, <1>3
<1> QED
  BY <1>2, <1>3, <1>4, <1>5, <1>6

\* accept: the bookkeeping of a new connection.
LEMMA AcceptFds ==
  ASSUME IInv, Accept
  PROVE  /\ FdsOK' /\ QueueOK' /\ (rset \subseteq Own => Ahead' = Ahead)
         /\ \E c \in Clients, f \in Fds :
               /\ fd' = [fd EXCEPT ![c] = f] /\ fd[c] = None /\ c \notin closed
               /\ rset \subseteq Own => f \notin rset
         /\ client' \in [Slots -> Fds \cup {None}] /\ maxi' \in Slots \cup {None}
         /\ maxfd' \in Fds \cup {listenfd} /\ allset' \subseteq Fds \cup {listenfd, NegBit}
         /\ \A k \in Ahead : client'[k] = client[k]
<1> DEFINE f == Min(Fds \ {fd[c] : c \in Clients})
           s == Min({k \in Slots : client[k] = None})
           h == Head(backlog)
<1>1. /\ fd' = [fd EXCEPT ![h] = f] /\ backlog' = Tail(backlog)
      /\ client' = [client EXCEPT ![s] = f] /\ allset' = allset \cup {f}
      /\ maxfd' = Max({maxfd, f}) /\ maxi' = Max({maxi, s})
      /\ UNCHANGED <<rset, i, fails, closed, cli>>
  BY DEF Accept, Enter
<1>2. backlog # <<>> /\ i = 0 /\ backlog \in Seq(Clients)
  BY DEF IInv, LoopOK, Accept, TypeOK
<1>3. /\ f \in Fds /\ \A c \in Clients : fd[c] # f
      /\ s \in Slots /\ client[s] = None
  BY <1>2, FreeOnes DEF IInv
<1>4. h \in Clients /\ h \in Range(backlog) /\ fd[h] = None /\ h \notin closed /\ cpc[h] # "start"
  BY <1>2 DEF IInv, QueueOK, Range
<1> HIDE DEF f, s, h
<1>5. /\ client \in [Slots -> Fds \cup {None}] /\ maxi \in Slots \cup {None}
      /\ maxfd \in Fds \cup {listenfd} /\ allset \subseteq Fds \cup {listenfd, NegBit}
      /\ fd \in [Clients -> Fds \cup {None}]
  BY DEF IInv, TypeOK
<1>6. /\ {maxi, s, maxfd, f} \subseteq Int /\ f # None /\ f # listenfd
      /\ Slots \cup Fds \subseteq Int /\ None \in Int /\ listenfd \in Int
  BY <1>3, <1>5, Sizes DEF None, listenfd
<1>7. maxfd' \in {maxfd, f} /\ maxfd' >= maxfd /\ maxfd' >= f
  BY <1>1, <1>6, Maximum
<1>8. maxi' \in {maxi, s} /\ maxi' >= maxi /\ maxi' >= s
  BY <1>1, <1>6, Maximum
<1>9. f \notin Own /\ \A k \in Used : client[k] # f
  <2>1. \A k \in Used : client[k] # f
    <3>1. \A k \in Used : \E c \in Clients : fd[c] = client[k]
      BY ConnOf DEF IInv
    <3> QED
      BY <1>3, <3>1
  <2> QED
    BY <1>6, <2>1 DEF Own
<1>10. Used' = Used \cup {s} /\ s \notin Used /\ client'[s] = f
       /\ \A k \in Used : client'[k] = client[k]
  BY <1>1, <1>3, <1>5, <1>6 DEF Used
<1>11. FdsOK'
  <2>1. {client'[k] : k \in Used'} = {client[k] : k \in Used} \cup {f}
    BY <1>10
  <2>2. /\ Own' \subseteq allset'
        /\ allset' \subseteq Own' \cup (IF fails' > 0 THEN {NegBit} ELSE {})
    <3>1. Own' = Own \cup {f}
      BY <2>1 DEF Own
    <3>2. /\ Own \subseteq allset /\ allset \subseteq Own \cup (IF fails > 0 THEN {NegBit} ELSE {})
          /\ fails' = fails /\ allset' = allset \cup {f}
      BY <1>1 DEF IInv, FdsOK
    <3> QED
      BY <3>1, <3>2
  <2>3. {fd'[c] : c \in Clients} \ {None} = ({fd[c] : c \in Clients} \ {None}) \cup {f}
    <3>1. fd'[h] = f /\ \A c \in Clients \ {h} : fd'[c] = fd[c]
      BY <1>1, <1>4, <1>5
    <3> QED
      BY <1>4, <1>6, <3>1
  <2>4. \A j, k \in Used' : client'[j] = client'[k] => j = k
    BY <1>9, <1>10 DEF IInv, FdsOK
  <2>5. \A k \in Used' : k <= maxi' /\ client'[k] <= maxfd'
    <3>1. \A k \in Used : k \in Int /\ client[k] \in Int /\ k <= maxi /\ client[k] <= maxfd
      BY <1>5, <1>6 DEF IInv, FdsOK, Used
    <3>2. maxi' \in Int /\ maxfd' \in Int
      BY <1>6, <1>7, <1>8
    <3>3. \A k \in Used : k <= maxi' /\ client'[k] <= maxfd'
      BY <1>6, <1>7, <1>8, <1>10, <3>1, <3>2
    <3> QED
      BY <1>7, <1>8, <1>10, <3>3
  <2>6. \A c, d \in Clients : fd'[c] = fd'[d] /\ fd'[c] # None => c = d
    BY <1>1, <1>3, <1>4, <1>5 DEF IInv, FdsOK
  <2>7. {client'[k] : k \in Used'} = {fd'[c] : c \in Clients} \ {None}
    BY <2>1, <2>3 DEF IInv, FdsOK
  <2> QED
    BY <2>2, <2>4, <2>5, <2>6, <2>7 DEF FdsOK
<1>12. ASSUME rset \subseteq Own PROVE Ahead' = Ahead
  <2>0. f \notin rset /\ None \notin rset
    BY <1>9, <1>12, ConnOf, Sizes DEF IInv, Own
  <2>1. \A k \in Slots : client'[k] \in rset <=> client[k] \in rset /\ k # s
    BY <1>1, <1>3, <1>5, <2>0
  <2>2. \A k \in 0 .. maxi' : k \in Slots
    <3>1. maxi' = None \/ maxi' \in 0 .. Cardinality(Clients)
      BY <1>3, <1>5, <1>8 DEF Slots
    <3>2. Cardinality(Clients) \in Nat
      BY Sizes
    <3> QED
      BY <3>1, <3>2 DEF Slots, None
  <2>3. \A k \in 0 .. maxi : k \in 0 .. maxi'
    BY <1>6, <1>8
  <2>4. \A k \in 0 .. maxi' : client[k] # None => k \in 0 .. maxi
    BY <1>6, <2>2 DEF IInv, FdsOK, Used
  <2>6. Ahead = {k \in 0 .. maxi : client[k] # None /\ client[k] \in rset}
    BY <1>2 DEF Ahead
  <2>7. Ahead' = {k \in 0 .. maxi' : client'[k] # None /\ client'[k] \in rset}
    BY <1>1, <1>2 DEF Ahead
  <2> QED
    BY <1>3, <2>0, <2>1, <2>2, <2>3, <2>4, <2>6, <2>7
<1>13. QueueOK'
  <2>1. Len(backlog) \in Nat \ {0} /\ DOMAIN backlog = 1 .. Len(backlog)
    BY <1>2
  <2>2. /\ DOMAIN backlog' = 1 .. Len(backlog) - 1
        /\ \A k \in 1 .. Len(backlog) - 1 : backlog'[k] = backlog[k + 1]
    BY <1>1, <1>2
  <2>3. h = backlog[1] /\ 1 \in DOMAIN backlog
    BY <2>1 DEF h
  <2>4. \A k \in 1 .. Len(backlog) - 1 : k + 1 \in DOMAIN backlog /\ k + 1 # 1
    BY <2>1
  <2>5. \A j, k \in 1 .. Len(backlog) - 1 : j + 1 = k + 1 => j = k
    BY <2>1
  <2>6. \A j, k \in DOMAIN backlog' : backlog'[j] = backlog'[k] => j = k
    BY <2>2, <2>4, <2>5 DEF IInv, QueueOK
  <2>7. Range(backlog') \subseteq Range(backlog) \ {h}
    BY <2>2, <2>3, <2>4 DEF IInv, QueueOK, Range
  <2>8. \A c \in Range(backlog) : c \in Clients
    BY <1>2 DEF Range
  <2>9. \A c \in Clients \ {h} : fd'[c] = fd[c]
    BY <1>1, <1>5
  <2>10. \A c \in Range(backlog') : fd'[c] = None /\ c \notin closed' /\ cpc'[c] # "start"
    BY <1>1, <2>7, <2>8, <2>9 DEF IInv, QueueOK, cli
  <2>11. \A c \in Clients : cpc'[c] = "start" => fd'[c] = None /\ c \notin closed'
    BY <1>1, <1>4, <2>9 DEF IInv, QueueOK, cli
  <2> QED
    BY <2>6, <2>10, <2>11 DEF QueueOK
<1>14. /\ client' \in [Slots -> Fds \cup {None}] /\ maxi' \in Slots \cup {None}
       /\ maxfd' \in Fds \cup {listenfd} /\ allset' \subseteq Fds \cup {listenfd, NegBit}
  BY <1>1, <1>3, <1>5, <1>7, <1>8
<1>15. rset \subseteq Own => f \notin rset
  BY <1>9
<1>16. \A k \in Ahead : client'[k] = client[k]
  BY <1>10, AheadOK DEF IInv
<1> QED
  BY <1>1, <1>3, <1>4, <1>11, <1>12, <1>13, <1>14, <1>15, <1>16

\* The turn at the listening descriptor is over.
LEMMA AcceptDone ==
  ASSUME IInv, spc = "accept", nready' = nready - 1, rset \subseteq Own => Ahead' = Ahead,
         spc' = IF nready - 1 <= 0 THEN "select" ELSE "scan"
  PROVE  /\ nready' \in -2 .. Cardinality(Slots) + 1 /\ spc' \in {"select", "scan"}
         /\ spc' = "scan" => /\ nready' = Cardinality(Ahead') /\ Ahead' # {}
                             /\ Ahead' = Ahead /\ AllReady /\ rset \subseteq Own
<1>1. \/ nready = -1
      \/ nready = Cardinality(Ahead) + 1 /\ AllReady /\ rset \subseteq Own
  BY DEF IInv, LoopOK
<1>2. Cardinality(Ahead) \in 0 .. Cardinality(Slots) /\ Cardinality(Slots) \in Nat
  BY AheadOK, Sizes DEF IInv
<1>3. Ahead = {} => Cardinality(Ahead) = 0
  BY FS_EmptySet
<1>4. CASE nready = -1
  BY <1>2, <1>4
<1>5. CASE nready = Cardinality(Ahead) + 1 /\ AllReady /\ rset \subseteq Own
  BY <1>2, <1>3, <1>5
<1> QED
  BY <1>1, <1>4, <1>5

\* No bytes are in the server but between read and Write.
LEMMA NothingHeld ==
  ASSUME spc # "write", spc' # "write", NEW c \in Clients
  PROVE  InServer(c) = 0 /\ InServer(c)' = 0
BY DEF InServer

LEMMA AcceptStep == IInv /\ Accept => IInv'
<1> SUFFICES ASSUME IInv, Accept PROVE IInv'
  OBVIOUS
<1>1. /\ spc = "accept" /\ nready' = nready - 1
      /\ backlog # <<>> /\ backlog' = Tail(backlog)
      /\ spc' = IF nready - 1 <= 0 THEN "select" ELSE "scan"
      /\ UNCHANGED <<rset, i, n, fails, closed, up, down, rst, cli>>
  BY DEF Accept
<1>2. PICK c \in Clients, f \in Fds :
         /\ fd' = [fd EXCEPT ![c] = f] /\ fd[c] = None /\ c \notin closed
         /\ rset \subseteq Own => f \notin rset
  BY AcceptFds
<1>3. FdsOK' /\ QueueOK' /\ (rset \subseteq Own => Ahead' = Ahead)
  BY AcceptFds
<1>4. /\ nready' \in -2 .. Cardinality(Slots) + 1 /\ spc' \in {"select", "scan"}
      /\ spc' = "scan" => /\ nready' = Cardinality(Ahead') /\ Ahead' # {}
                          /\ Ahead' = Ahead /\ AllReady /\ rset \subseteq Own
  BY <1>1, <1>3, AcceptDone
<1>5. EndsOK'
  BY <1>1, <1>2, <1>4 DEF IInv, EndsOK, Ends, TypeOK, cli
<1>6. BytesOK'
  BY <1>1, <1>4, NothingHeld DEF IInv, BytesOK, Sum, cli
<1>7. TypeOK'
  <2>1. backlog' \in Seq(Clients)
    <3>1. backlog \in Seq(Clients)
      BY DEF IInv, TypeOK
    <3> QED
      BY <1>1, <3>1
  <2> QED
    BY <1>1, <1>2, <1>4, <2>1, AcceptFds DEF IInv, TypeOK, cli
<1>8. LoopOK'
  <2>1. ASSUME NEW k \in Ahead', NEW d \in Clients, fd'[d] = client'[k], spc' = "scan"
        PROVE  Ready(d)'
    <3>1. client'[k] = client[k] /\ client[k] \in rset /\ k \in Ahead
      BY <1>4, <2>1, AcceptFds DEF Ahead
    <3>2. d # c /\ fd[d] = client[k]
      BY <1>2, <1>4, <2>1, <3>1 DEF IInv, TypeOK
    <3>3. Ready(d)
      BY <1>1, <1>4, <2>1, <3>1, <3>2 DEF AllReady
    <3> QED
      BY <1>1, <3>3 DEF Ready, cli
  <2> QED
    BY <1>4, <2>1 DEF LoopOK, AllReady
<1> QED
  BY <1>3, <1>5, <1>6, <1>7, <1>8 DEF IInv

LEMMA AcceptFailsStep == IInv /\ AcceptFails => IInv'
<1> SUFFICES ASSUME IInv, AcceptFails PROVE IInv'
  OBVIOUS
<1> DEFINE s == Min({k \in Slots : client[k] = None})
<1>1. /\ spc = "accept" /\ nready' = nready - 1 /\ fails < MaxFails /\ fails' = fails + 1
      /\ spc' = IF nready - 1 <= 0 THEN "select" ELSE "scan"
      /\ maxi' = Max({maxi, s}) /\ allset' = allset \cup {NegBit}
      /\ UNCHANGED <<client, maxfd, rset, i, n, tcp, cli>>
  BY DEF AcceptFails
<1>2. s \in Slots /\ client[s] = None /\ i = 0
  BY <1>1, SlotLeft DEF IInv, LoopOK
<1> HIDE DEF s
<1>3. maxi \in Slots \cup {None} /\ maxi \in Int /\ s \in Int /\ Slots \subseteq Int
  BY <1>2, Sizes DEF IInv, TypeOK, None
<1>4. maxi' \in {maxi, s} /\ maxi' >= maxi
  BY <1>1, <1>3, Maximum
<1>5. Ahead' = Ahead
  <2>1. \A k \in 0 .. maxi' : k \in Slots
    <3>1. maxi' = None \/ maxi' \in 0 .. Cardinality(Clients)
      BY <1>2, <1>3, <1>4 DEF Slots
    <3>2. Cardinality(Clients) \in Nat
      BY Sizes
    <3> QED
      BY <3>1, <3>2 DEF Slots, None
  <2>2. \A k \in 0 .. maxi : k \in 0 .. maxi'
    BY <1>3, <1>4
  <2>3. \A k \in 0 .. maxi' : client[k] # None => k \in 0 .. maxi
    BY <1>3, <2>1 DEF IInv, FdsOK, Used
  <2> QED
    BY <1>1, <1>2, <2>2, <2>3 DEF Ahead
<1>6. /\ nready' \in -2 .. Cardinality(Slots) + 1 /\ spc' \in {"select", "scan"}
      /\ spc' = "scan" => /\ nready' = Cardinality(Ahead') /\ Ahead' # {}
                          /\ Ahead' = Ahead /\ AllReady /\ rset \subseteq Own
  BY <1>1, <1>5, AcceptDone
<1>7. FdsOK'
  <2>1. \A k \in Used : k \in Int /\ k <= maxi
    BY <1>3 DEF IInv, FdsOK, Used
  <2>2. \A k \in Used : k <= maxi'
    BY <1>3, <1>4, <2>1
  <2>3. Used' = Used /\ Own' = Own /\ client' = client /\ fd' = fd /\ maxfd' = maxfd
    BY <1>1 DEF Used, Own, tcp
  <2>4. Own' \subseteq allset' /\ allset' \subseteq Own' \cup {NegBit} /\ fails' > 0
    <3>1. fails \in Nat
      BY DEF IInv, TypeOK
    <3>2. Own \subseteq allset /\ allset \subseteq Own \cup {NegBit}
      BY DEF IInv, FdsOK
    <3> QED
      BY <1>1, <2>3, <3>1, <3>2
  <2> QED
    BY <2>2, <2>3, <2>4 DEF IInv, FdsOK
<1>8. QueueOK' /\ EndsOK'
  BY <1>1, <1>6 DEF IInv, QueueOK, EndsOK, Ends, tcp, cli
<1>9. BytesOK'
  BY <1>1, <1>6, NothingHeld DEF IInv, BytesOK, Sum, tcp, cli
<1>10. TypeOK'
  <2>1. maxi' \in Slots \cup {None} /\ fails' \in 0 .. MaxFails
    BY <1>1, <1>2, <1>3, <1>4, FailsAssumption DEF IInv, TypeOK
  <2> QED
    BY <1>1, <1>6, <2>1 DEF IInv, TypeOK, tcp, cli
<1>11. LoopOK'
  <2>1. spc' = "scan" => AllReady'
    BY <1>1, <1>6 DEF AllReady, Ready, tcp, cli
  <2> QED
    BY <1>6, <2>1 DEF LoopOK
<1> QED
  BY <1>7, <1>8, <1>9, <1>10, <1>11 DEF IInv

\* The loop is at a slot in use, whose connection no client has seen closed.
LEMMA AtSlot ==
  ASSUME IInv, NEW k \in Ahead, NEW c, c = Conn(client[k]), spc \in {"scan", "write"}
  PROVE  /\ k \in Used /\ client[k] \in Fds /\ c \in Clients /\ fd[c] = client[k] /\ fd[c] # None
         /\ \A d \in Clients : fd[d] = client[k] => d = c
         /\ c \notin closed /\ cpc[c] \notin {"start", "done", "premature", "failed"}
<1>1. k \in Used
  BY AheadOK DEF IInv
<1>2. /\ client[k] \in Fds /\ c \in Clients /\ fd[c] = client[k] /\ fd[c] # None
      /\ \A d \in Clients : fd[d] = client[k] => d = c
  BY <1>1, ConnOf DEF IInv
<1>3. c \notin closed
  BY <1>2 DEF IInv, EndsOK, Ends
<1>4. cpc[c] \notin {"start", "done", "premature", "failed"}
  BY <1>2, <1>3 DEF IInv, EndsOK, Ends, QueueOK
<1> QED
  BY <1>1, <1>2, <1>3, <1>4

LEMMA ReadDataStep == ASSUME IInv, NEW k, ReadData(k) PROVE IInv'
<1> DEFINE c == Conn(client[k])
           m == Least(up[c], MAXLINE)
<1>1. /\ spc = "scan" /\ Ahead # {} /\ k = Min(Ahead) /\ up[c] > 0 /\ n' = m
      /\ up' = [up EXCEPT ![c] = up[c] - n'] /\ i' = k /\ spc' = "write"
      /\ UNCHANGED <<client, maxi, maxfd, allset, rset, nready, fails, backlog, fd, closed,
                     down, rst, cli>>
  BY DEF ReadData
<1>2. k \in Ahead /\ (\A j \in Ahead : k <= j) /\ Ahead \subseteq Nat
  BY <1>1, AheadOK DEF IInv
<1>3. /\ k \in Used /\ client[k] \in Fds /\ c \in Clients /\ fd[c] = client[k] /\ fd[c] # None
      /\ \A d \in Clients : fd[d] = client[k] => d = c
      /\ c \notin closed /\ cpc[c] \notin {"start", "done", "premature", "failed"}
  BY <1>1, <1>2, AtSlot
<1>4. up[c] \in 0 .. Cap /\ m \in 1 .. MAXLINE /\ m <= up[c] /\ MAXLINE \in Nat
  BY <1>1, <1>3, CountsOf DEF Least, IInv
<1> HIDE DEF c, m
<1>5. up' \in [Clients -> 0 .. Cap] /\ up'[c] = up[c] - m
      /\ \A d \in Clients \ {c} : up'[d] = up[d]
  <2>1. up \in [Clients -> 0 .. Cap]
    BY DEF IInv, TypeOK
  <2>2. up[c] - m \in 0 .. Cap
    BY <1>4, SizesAssumption
  <2> QED
    BY <1>1, <1>3, <2>1, <2>2
<1>6. Ahead' = Ahead
  <2>1. i \in Nat /\ maxi \in Int
    BY Sizes DEF IInv, TypeOK, None
  <2>2. \A j \in Ahead : j \in k .. maxi
    BY <1>2, <2>1 DEF Ahead
  <2>3. \A j \in k .. maxi : j \in i .. maxi
    BY <1>2, <2>1 DEF Ahead
  <2> QED
    BY <1>1, <2>2, <2>3 DEF Ahead
<1>7. FdsOK' /\ QueueOK'
  BY <1>1 DEF IInv, FdsOK, Own, QueueOK, Used, cli
<1>8. EndsOK'
  <2>1. ASSUME NEW d \in Clients PROVE Ends(d)'
    <3>1. CASE d = c
      BY <1>1, <1>3, <3>1 DEF IInv, EndsOK, Ends, cli
    <3>2. CASE d # c
      BY <1>1, <1>5, <3>2 DEF IInv, EndsOK, Ends, cli
    <3> QED
      BY <3>1, <3>2
  <2> QED
    BY <2>1 DEF EndsOK
<1>9. BytesOK'
  <2>1. ASSUME NEW d \in Clients PROVE Sum(d)' = Sum(d)
    <3>1. InServer(d) = 0 /\ InServer(d)' = IF d = c THEN m ELSE 0
      BY <1>1, <1>3 DEF InServer
    <3>2. /\ up[d] \in Int /\ up'[d] = up[d] - (IF d = c THEN m ELSE 0) /\ m \in Int
          /\ down[d] \in Int /\ left[d] \in Int /\ out[d] \in Int /\ togo[d] \in Int
      BY <1>4, <1>5, CountsOf DEF IInv
    <3>3. Sum(d) = left[d] + togo[d] + up[d] + InServer(d) + down[d] + out[d]
      BY DEF Sum
    <3>4. Sum(d)' = left[d] + togo[d] + up'[d] + InServer(d)' + down[d] + out[d]
      BY <1>1 DEF Sum, cli
    <3> QED
      BY <3>1, <3>2, <3>3, <3>4
  <2> QED
    BY <1>1, <2>1 DEF IInv, BytesOK, cli
<1>10. TypeOK'
  <2>1. n' \in 0 .. MAXLINE /\ i' \in Nat
    BY <1>1, <1>2, <1>4
  <2> QED
    BY <1>1, <1>5, <2>1 DEF IInv, TypeOK, cli
<1>11. LoopOK'
  <2>1. ASSUME NEW j \in Ahead', NEW d \in Clients, fd'[d] = client'[j]
        PROVE  Ready(d)' \/ j = i'
    <3>1. CASE j = k
      BY <1>1, <3>1
    <3>2. CASE j # k
      <4>1. d # c /\ Ready(d)
        BY <1>1, <1>2, <1>3, <1>6, <2>1, <3>2, AheadOK DEF IInv, LoopOK, AllReady, FdsOK
      <4> QED
        BY <1>1, <1>5, <4>1 DEF Ready, cli
    <3> QED
      BY <3>1, <3>2
  <2>2. nready' = Cardinality(Ahead') /\ i' \in Ahead'
    BY <1>1, <1>2, <1>6 DEF IInv, LoopOK
  <2> QED
    BY <1>1, <2>1, <2>2 DEF LoopOK, AllReady
<1> QED
  BY <1>7, <1>8, <1>9, <1>10, <1>11 DEF IInv

LEMMA ReadErrorStep == ASSUME IInv, NEW k, ReadError(k) PROVE IInv'
<1> DEFINE c == Conn(client[k])
<1>1. /\ spc = "scan" /\ Ahead # {} /\ k = Min(Ahead) /\ rst[c] = "pending"
      /\ rst' = [rst EXCEPT ![c] = "taken"] /\ Handled(k)
      /\ UNCHANGED <<client, maxi, maxfd, allset, rset, n, fails, backlog, fd, closed, up,
                     down, cli>>
  BY DEF ReadError
<1>2. k \in Ahead /\ \A j \in Ahead : k <= j
  BY <1>1, AheadOK DEF IInv
<1>3. c \in Clients
  BY <1>1, <1>2, AtSlot
<1> HIDE DEF c
<1>4. /\ Ahead' = Ahead \ {k} /\ nready' = Cardinality(Ahead')
      /\ nready' \in -2 .. Cardinality(Slots) + 1 /\ i' \in Nat
      /\ spc' \in {"select", "scan"} /\ (spc' = "scan" => Ahead' # {})
  BY <1>1, <1>2, HandledOne DEF IInv, LoopOK
<1>5. rst' \in [Clients -> {"no", "pending", "taken"}]
      /\ \A d \in Clients : rst'[d] # "no" <=> rst[d] # "no"
  BY <1>1, <1>3 DEF IInv, TypeOK
<1>6. FdsOK' /\ QueueOK'
  BY <1>1 DEF IInv, FdsOK, Own, QueueOK, Used, cli
<1>7. EndsOK'
  BY <1>1, <1>4, <1>5 DEF IInv, EndsOK, Ends, cli
<1>8. BytesOK'
  BY <1>1, <1>4, NothingHeld DEF IInv, BytesOK, Sum, cli
<1>9. TypeOK'
  BY <1>1, <1>4, <1>5 DEF IInv, TypeOK, cli
<1>10. LoopOK'
  <2>1. ASSUME NEW j \in Ahead', NEW d \in Clients, fd'[d] = client'[j] PROVE Ready(d)'
    BY <1>1, <1>4, <1>5, <2>1 DEF IInv, LoopOK, AllReady, Ready, cli
  <2> QED
    BY <1>4, <2>1 DEF LoopOK, AllReady
<1> QED
  BY <1>6, <1>7, <1>8, <1>9, <1>10 DEF IInv

\* Close, a free slot and FD_CLR leave the tables of the other connections alone.
LEMMA ReadEofFds ==
  ASSUME IInv, NEW k \in Used, NEW c \in Clients, fd[c] = client[k],
         client' = [client EXCEPT ![k] = None], allset' = allset \ {client[k]},
         fd' = [fd EXCEPT ![c] = None], UNCHANGED <<maxi, maxfd, fails>>
  PROVE  FdsOK' /\ fd' \in [Clients -> Fds \cup {None}] /\ client' \in [Slots -> Fds \cup {None}]
<1>1. /\ fd' \in [Clients -> Fds \cup {None}] /\ client' \in [Slots -> Fds \cup {None}]
      /\ fd'[c] = None /\ \A d \in Clients \ {c} : fd'[d] = fd[d]
      /\ client'[k] = None /\ \A j \in Slots \ {k} : client'[j] = client[j]
  BY DEF IInv, TypeOK, Used
<1>2. Used' = Used \ {k} /\ \A j \in Used' : client'[j] = client[j]
  BY <1>1 DEF Used
<1>3. client[k] # listenfd /\ client[k] # None
  BY ConnOf, Sizes DEF IInv
<1>4. {client'[j] : j \in Used'} = {client[j] : j \in Used} \ {client[k]}
  BY <1>2 DEF IInv, FdsOK
<1>5. {fd'[d] : d \in Clients} \ {None} = ({fd[d] : d \in Clients} \ {None}) \ {client[k]}
  <2>1. \A d \in Clients \ {c} : fd[d] # client[k]
    BY <1>3 DEF IInv, FdsOK
  <2> QED
    BY <1>1, <2>1
<1>6. \A d, e \in Clients : fd'[d] = fd'[e] /\ fd'[d] # None => d = e
  BY <1>1 DEF IInv, FdsOK
<1>7. /\ Own' \subseteq allset'
      /\ allset' \subseteq Own' \cup (IF fails' > 0 THEN {NegBit} ELSE {})
  <2>1. Own' = Own \ {client[k]}
    BY <1>3, <1>4 DEF Own
  <2> QED
    BY <2>1 DEF IInv, FdsOK
<1>8. {client'[j] : j \in Used'} = {fd'[d] : d \in Clients} \ {None}
  BY <1>4, <1>5 DEF IInv, FdsOK
<1>9. /\ \A j, l \in Used' : client'[j] = client'[l] => j = l
      /\ \A j \in Used' : j <= maxi' /\ client'[j] <= maxfd'
  BY <1>2 DEF IInv, FdsOK
<1> QED
  BY <1>1, <1>6, <1>7, <1>8, <1>9 DEF FdsOK

LEMMA ReadEofStep == ASSUME IInv, NEW k, ReadEof(k) PROVE IInv'
<1> DEFINE c == Conn(client[k])
<1>1. /\ spc = "scan" /\ Ahead # {} /\ k = Min(Ahead) /\ up[c] = 0
      /\ rst[c] = "taken" \/ c \in eof
      /\ closed' = closed \cup {c} /\ fd' = [fd EXCEPT ![c] = None]
      /\ client' = [client EXCEPT ![k] = None] /\ allset' = allset \ {client[k]}
      /\ Handled(k)
      /\ UNCHANGED <<maxi, maxfd, rset, n, fails, backlog, up, down, rst, cli>>
  BY DEF ReadEof
<1>2. k \in Ahead /\ \A j \in Ahead : k <= j
  BY <1>1, AheadOK DEF IInv
<1>3. /\ k \in Used /\ client[k] \in Fds /\ c \in Clients /\ fd[c] = client[k] /\ fd[c] # None
      /\ \A d \in Clients : fd[d] = client[k] => d = c
      /\ c \notin closed /\ cpc[c] \notin {"start", "done", "premature", "failed"}
  BY <1>1, <1>2, AtSlot
<1> HIDE DEF c
<1>4. /\ Ahead' = Ahead \ {k} /\ nready' = Cardinality(Ahead')
      /\ nready' \in -2 .. Cardinality(Slots) + 1 /\ i' \in Nat
      /\ spc' \in {"select", "scan"} /\ (spc' = "scan" => Ahead' # {})
  BY <1>1, <1>2, HandledOne DEF IInv, LoopOK
<1>5. FdsOK' /\ fd' \in [Clients -> Fds \cup {None}] /\ client' \in [Slots -> Fds \cup {None}]
  BY <1>1, <1>3, ReadEofFds
<1>6. /\ fd'[c] = None /\ \A d \in Clients \ {c} : fd'[d] = fd[d]
      /\ \A j \in Slots \ {k} : client'[j] = client[j]
  BY <1>1, <1>3 DEF IInv, TypeOK
<1>7. c \in eof
  BY <1>1, <1>3 DEF IInv, EndsOK, Ends
<1>8. EndsOK'
  <2>1. ASSUME NEW d \in Clients PROVE Ends(d)'
    <3>1. CASE d = c
      BY <1>1, <1>3, <1>6, <1>7, <3>1 DEF IInv, EndsOK, Ends, cli
    <3>2. CASE d # c
      BY <1>1, <1>6, <3>2 DEF IInv, EndsOK, Ends, cli
    <3> QED
      BY <3>1, <3>2
  <2> QED
    BY <2>1 DEF EndsOK
<1>9. QueueOK'
  <2>1. \A d \in Range(backlog) : d \in Clients
    BY DEF IInv, TypeOK, Range
  <2> QED
    BY <1>1, <1>3, <1>6, <2>1 DEF IInv, QueueOK, cli
<1>10. BytesOK'
  BY <1>1, <1>4, NothingHeld DEF IInv, BytesOK, Sum, cli
<1>11. TypeOK'
  BY <1>1, <1>3, <1>4, <1>5 DEF IInv, TypeOK, cli
<1>12. LoopOK'
  <2>1. ASSUME NEW j \in Ahead', NEW d \in Clients, fd'[d] = client'[j] PROVE Ready(d)'
    <3>1. j \in Ahead /\ j # k /\ client'[j] = client[j] /\ client[j] # None
      BY <1>4, <1>6, <2>1, AheadOK DEF IInv, Used
    <3>2. d # c /\ fd[d] = client[j]
      BY <1>6, <2>1, <3>1
    <3>3. Ready(d)
      BY <1>1, <3>1, <3>2 DEF IInv, LoopOK, AllReady
    <3> QED
      BY <1>1, <3>3 DEF Ready, cli
  <2> QED
    BY <1>4, <2>1 DEF LoopOK, AllReady
<1> QED
  BY <1>5, <1>8, <1>9, <1>10, <1>11, <1>12 DEF IInv

\* A Write is over, or takes a part: what the three cases of Echo share.
LEMMA Written ==
  ASSUME IInv, spc = "write",
         \/ Handled(i)
         \/ UNCHANGED <<nready, i, spc>>,
         UNCHANGED <<client, maxi, maxfd, allset, rset, fails, backlog, fd, closed, up, cli>>,
         rst' \in [Clients -> {"no", "pending", "taken"}],
         \A d \in Clients : rst[d] # "no" => rst'[d] # "no"
  PROVE  /\ FdsOK' /\ QueueOK' /\ LoopOK'
         /\ spc' \in {"select", "scan", "write"}
         /\ nready' \in -2 .. Cardinality(Slots) + 1 /\ i' \in Nat
<1>1. i \in Ahead /\ nready = Cardinality(Ahead) /\ \A j \in Ahead : i <= j
  <2>1. i \in Ahead /\ nready = Cardinality(Ahead)
    BY DEF IInv, LoopOK
  <2> QED
    BY <2>1 DEF Ahead
<1>2. FdsOK' /\ QueueOK'
  BY DEF IInv, FdsOK, Own, QueueOK, Used, cli
<1>3. \A d \in Clients : Ready(d) => Ready(d)'
  BY DEF Ready, cli
<1>4. CASE Handled(i)
  <2>1. /\ Ahead' = Ahead \ {i} /\ nready' = Cardinality(Ahead')
        /\ nready' \in -2 .. Cardinality(Slots) + 1 /\ i' \in Nat
        /\ spc' \in {"select", "scan"} /\ (spc' = "scan" => Ahead' # {})
    BY <1>1, <1>4, HandledOne DEF IInv
  <2>2. ASSUME NEW j \in Ahead', NEW d \in Clients, fd'[d] = client'[j] PROVE Ready(d)'
    <3>1. j \in Ahead /\ j # i /\ fd[d] = client[j]
      BY <2>1, <2>2
    <3>2. Ready(d)
      BY <3>1 DEF IInv, LoopOK, AllReady
    <3> QED
      BY <1>3, <3>2
  <2> QED
    BY <1>2, <2>1, <2>2 DEF LoopOK, AllReady
<1>5. CASE UNCHANGED <<nready, i, spc>>
  <2>1. Ahead' = Ahead
    BY <1>5 DEF Ahead
  <2>2. ASSUME NEW j \in Ahead', NEW d \in Clients, fd'[d] = client'[j]
        PROVE  Ready(d)' \/ j = i'
    <3>1. Ready(d) \/ j = i
      BY <2>1, <2>2 DEF IInv, LoopOK, AllReady
    <3> QED
      BY <1>3, <1>5, <3>1
  <2>3. LoopOK'
    BY <1>1, <1>5, <2>1, <2>2 DEF LoopOK, AllReady
  <2> QED
    BY <1>2, <1>5, <2>3 DEF IInv, TypeOK
<1> QED
  BY <1>4, <1>5

\* What a client that left does not get, nobody misses.
LEMMA Dropped ==
  ASSUME IInv, NEW c \in Clients, cpc[c] = "left",
         \A d \in Clients : InServer(d) = IF d = c THEN n ELSE 0,
         \A d \in Clients : InServer(d)' = 0,
         UNCHANGED <<up, down, cli>>
  PROVE  BytesOK'
<1>1. ASSUME NEW d \in Clients
      PROVE  /\ Sum(d)' <= Sum(d) /\ (d # c => Sum(d)' = Sum(d))
             /\ Sum(d) \in Int /\ Sum(d)' \in Int
  <2>1. /\ up[d] \in Int /\ down[d] \in Int /\ left[d] \in Int /\ out[d] \in Int
        /\ togo[d] \in Int /\ n \in Int /\ n >= 0
    BY CountsOf DEF IInv
  <2>2. Sum(d) = left[d] + togo[d] + up[d] + InServer(d) + down[d] + out[d]
    BY DEF Sum
  <2>3. Sum(d)' = left[d] + togo[d] + up[d] + InServer(d)' + down[d] + out[d]
    BY DEF Sum, cli
  <2> QED
    BY <2>1, <2>2, <2>3
<1> QED
  BY <1>1, SizesAssumption DEF IInv, BytesOK, cli

LEMMA EchoStep == IInv /\ Echo => IInv'
<1> SUFFICES ASSUME IInv, Echo PROVE IInv'
  OBVIOUS
<1> DEFINE c == Conn(client[i])
           m == Least(n, Cap - down[c])
<1>1. /\ spc = "write"
      /\ UNCHANGED <<client, maxi, maxfd, allset, rset, fails, backlog, fd, up, cli>>
  BY DEF Echo
<1>2. i \in Ahead
  BY <1>1 DEF IInv, LoopOK
<1>3. /\ i \in Used /\ client[i] \in Fds /\ c \in Clients /\ fd[c] = client[i] /\ fd[c] # None
      /\ \A d \in Clients : fd[d] = client[i] => d = c
      /\ c \notin closed /\ cpc[c] \notin {"start", "done", "premature", "failed"}
  BY <1>1, <1>2, AtSlot
<1>4. \A d \in Clients : InServer(d) = IF d = c THEN n ELSE 0
  BY <1>1, <1>3 DEF InServer
<1>5. /\ n \in 0 .. MAXLINE /\ MAXLINE \in Nat /\ Cap \in Nat /\ down[c] \in 0 .. Cap
      /\ m \in 0 .. n /\ m <= Cap - down[c]
  BY <1>3, CountsOf DEF IInv, Least
<1>6. \/ /\ rst[c] # "no" /\ spc' = "failed"
         /\ \E fin \in SUBSET {d \in Clients : fd[d] # None} : closed' = closed \cup fin
         /\ UNCHANGED <<n, nready, i, down, rst>>
      \/ /\ rst[c] = "no" /\ Gone(c)
         /\ \E r \in {"no", "pending"} : rst' = [rst EXCEPT ![c] = r]
         /\ n' = 0 /\ Handled(i) /\ UNCHANGED <<down, closed>>
      \/ /\ rst[c] = "no" /\ ~Gone(c) /\ down' = [down EXCEPT ![c] = down[c] + m]
         /\ n' = n - m /\ UNCHANGED <<rst, closed>>
         /\ IF m = n THEN Handled(i) ELSE UNCHANGED <<nready, i, spc>>
  BY DEF Echo
<1> HIDE DEF c, m
<1>7. CASE /\ rst[c] # "no" /\ spc' = "failed"
           /\ \E fin \in SUBSET {d \in Clients : fd[d] # None} : closed' = closed \cup fin
           /\ UNCHANGED <<n, nready, i, down, rst>>
  <2>1. cpc[c] = "left"
    BY <1>3, <1>7 DEF IInv, EndsOK, Ends
  <2>2. FdsOK'
    BY <1>1 DEF IInv, FdsOK, Own, Used
  <2>3. QueueOK'
    <3>1. \A d \in Range(backlog) : d \in Clients
      BY DEF IInv, TypeOK, Range
    <3>2. \A d \in closed' : d \in closed \/ fd[d] # None
      BY <1>7
    <3> QED
      BY <1>1, <3>1, <3>2 DEF IInv, QueueOK, cli
  <2>4. EndsOK'
    BY <1>1, <1>7 DEF IInv, EndsOK, Ends, cli
  <2>5. BytesOK'
    <3>1. \A d \in Clients : InServer(d)' = 0
      BY <1>7 DEF InServer
    <3> QED
      BY <1>1, <1>3, <1>4, <1>7, <2>1, <3>1, Dropped
  <2>6. TypeOK'
    <3>1. closed' \subseteq Clients
      BY <1>7 DEF IInv, TypeOK
    <3> QED
      BY <1>1, <1>7, <3>1 DEF IInv, TypeOK, cli
  <2>7. LoopOK'
    BY <1>7 DEF LoopOK
  <2> QED
    BY <2>2, <2>3, <2>4, <2>5, <2>6, <2>7 DEF IInv
<1>8. CASE /\ rst[c] = "no" /\ Gone(c)
           /\ \E r \in {"no", "pending"} : rst' = [rst EXCEPT ![c] = r]
           /\ n' = 0 /\ Handled(i) /\ UNCHANGED <<down, closed>>
  <2>1. cpc[c] = "left"
    BY <1>3, <1>8 DEF Gone
  <2>2. /\ rst' \in [Clients -> {"no", "pending", "taken"}]
        /\ \A d \in Clients : d # c => rst'[d] = rst[d]
        /\ \A d \in Clients : rst[d] # "no" => rst'[d] # "no"
    BY <1>3, <1>8 DEF IInv, TypeOK
  <2>3. /\ FdsOK' /\ QueueOK' /\ LoopOK' /\ spc' \in {"select", "scan", "write"}
        /\ nready' \in -2 .. Cardinality(Slots) + 1 /\ i' \in Nat
    BY <1>1, <1>8, <2>2, Written
  <2>4. EndsOK'
    BY <1>1, <1>8, <2>1, <2>2, <2>3 DEF IInv, EndsOK, Ends, cli
  <2>5. BytesOK'
    <3>1. \A d \in Clients : InServer(d)' = 0
      BY <1>8 DEF InServer
    <3> QED
      BY <1>1, <1>3, <1>4, <1>8, <2>1, <3>1, Dropped
  <2>6. TypeOK'
    <3>1. n' \in 0 .. MAXLINE
      BY <1>5, <1>8
    <3> QED
      BY <1>1, <1>8, <2>2, <2>3, <3>1 DEF IInv, TypeOK, cli
  <2> QED
    BY <2>3, <2>4, <2>5, <2>6 DEF IInv
<1>9. CASE /\ rst[c] = "no" /\ ~Gone(c) /\ down' = [down EXCEPT ![c] = down[c] + m]
           /\ n' = n - m /\ UNCHANGED <<rst, closed>>
           /\ IF m = n THEN Handled(i) ELSE UNCHANGED <<nready, i, spc>>
  <2>1. /\ down' \in [Clients -> 0 .. Cap] /\ down'[c] = down[c] + m
        /\ \A d \in Clients \ {c} : down'[d] = down[d]
    <3>1. down[c] + m \in 0 .. Cap
      BY <1>5
    <3> QED
      BY <1>3, <1>9, <3>1 DEF IInv, TypeOK
  <2>2. rst' \in [Clients -> {"no", "pending", "taken"}]
    BY <1>9 DEF IInv, TypeOK
  <2>3. /\ FdsOK' /\ QueueOK' /\ LoopOK' /\ spc' \in {"select", "scan", "write"}
        /\ nready' \in -2 .. Cardinality(Slots) + 1 /\ i' \in Nat
    BY <1>1, <1>9, <2>2, Written
  <2>4. EndsOK'
    <3>1. ASSUME NEW d \in Clients PROVE Ends(d)'
      <4>1. CASE d = c
        BY <1>1, <1>3, <1>9, <2>3, <4>1 DEF IInv, EndsOK, Ends, cli
      <4>2. CASE d # c
        BY <1>1, <1>9, <2>1, <2>3, <4>2 DEF IInv, EndsOK, Ends, cli
      <4> QED
        BY <4>1, <4>2
    <3> QED
      BY <3>1 DEF EndsOK
  <2>5. \A d \in Clients : InServer(d)' = IF d = c THEN n - m ELSE 0
    <3>1. CASE m = n
      <4>1. spc' # "write" /\ n - m = 0
        BY <1>5, <1>9, <3>1 DEF Handled
      <4> QED
        BY <4>1 DEF InServer
    <3>2. CASE m # n
      BY <1>1, <1>3, <1>9, <3>2 DEF InServer
    <3> QED
      BY <3>1, <3>2
  <2>6. BytesOK'
    <3>1. ASSUME NEW d \in Clients PROVE Sum(d)' = Sum(d)
      <4>1. /\ InServer(d) = (IF d = c THEN n ELSE 0)
            /\ InServer(d)' = IF d = c THEN n - m ELSE 0
        BY <1>4, <2>5
      <4>2. /\ up[d] \in Int /\ down[d] \in Int /\ left[d] \in Int /\ out[d] \in Int
            /\ togo[d] \in Int /\ n \in Int /\ m \in Int
            /\ down'[d] = down[d] + (IF d = c THEN m ELSE 0)
        BY <1>5, <2>1, CountsOf DEF IInv
      <4>3. Sum(d) = left[d] + togo[d] + up[d] + InServer(d) + down[d] + out[d]
        BY DEF Sum
      <4>4. Sum(d)' = left[d] + togo[d] + up[d] + InServer(d)' + down'[d] + out[d]
        BY <1>1 DEF Sum, cli
      <4> QED
        BY <4>1, <4>2, <4>3, <4>4
    <3> QED
      BY <1>1, <3>1 DEF IInv, BytesOK, cli
  <2>7. TypeOK'
    <3>1. n' \in 0 .. MAXLINE
      BY <1>5, <1>9
    <3> QED
      BY <1>1, <1>9, <2>1, <2>2, <2>3, <3>1 DEF IInv, TypeOK, cli
  <2> QED
    BY <2>3, <2>4, <2>6, <2>7 DEF IInv
<1> QED
  BY <1>6, <1>7, <1>8, <1>9

-----------------------------------------------------------------------------
(* The service *)

LEMMA InitIInv == Init => IInv
<1> SUFFICES ASSUME Init PROVE IInv
  OBVIOUS
<1>1. /\ spc = "select" /\ client = [k \in Slots |-> None] /\ maxi = None
      /\ allset = {listenfd} /\ rset = {} /\ backlog = <<>> /\ closed = {} /\ eof = {}
      /\ fd = [c \in Clients |-> None]
  BY DEF Init
<1>2. Used = {}
  BY <1>1 DEF Used
<1>3. FdsOK /\ QueueOK
  BY <1>1, <1>2 DEF FdsOK, Own, QueueOK, Range
<1>4. TypeOK
  BY Sizes, SizesAssumption, FailsAssumption DEF Init, TypeOK
<1>5. EndsOK
  BY DEF Init, EndsOK, Ends
<1>6. BytesOK
  <2>1. ASSUME NEW c \in Clients PROVE Sum(c) = Input[c]
    <3>1. InServer(c) = 0
      BY <1>1 DEF InServer
    <3> QED
      BY <3>1, SizesAssumption DEF Init, Sum
  <2> QED
    BY <2>1, SizesAssumption DEF BytesOK
<1>7. LoopOK
  BY <1>1 DEF LoopOK
<1> QED
  BY <1>3, <1>4, <1>5, <1>6, <1>7 DEF IInv

LEMMA Invariance == Spec => []IInv
<1>1. IInv /\ [Next]_vars => IInv'
  <2> SUFFICES ASSUME IInv, [Next]_vars PROVE IInv'
    OBVIOUS
  <2>1. CASE Server
    <3>1. CASE \E k \in Slots : ReadData(k) \/ ReadError(k) \/ ReadEof(k)
      BY <3>1, ReadDataStep, ReadErrorStep, ReadEofStep
    <3> QED
      BY <2>1, <3>1, SelectStep, SelectFailsStep, AcceptStep, AcceptFailsStep, EchoStep DEF Server
  <2>2. CASE \E c \in Clients : Client(c)
    BY <2>2, ClientStep
  <2>3. CASE UNCHANGED vars
    <3>0. /\ UNCHANGED <<spc, client, maxi, maxfd, allset, rset, nready, i, n, fails>>
          /\ UNCHANGED <<backlog, fd, closed, up, down, rst, cpc, left, togo, eof, out>>
      BY <2>3 DEF vars, server, tcp, cli
    <3>a. TypeOK'
      BY <3>0 DEF IInv, TypeOK
    <3>b. FdsOK'
      BY <3>0 DEF IInv, FdsOK, Own, Used
    <3>1. TypeOK' /\ FdsOK' /\ QueueOK'
      BY <3>0, <3>a, <3>b DEF IInv, QueueOK
    <3>2. EndsOK'
      BY <2>3 DEF IInv, EndsOK, Ends, vars, server, tcp, cli
    <3>3. BytesOK'
      BY <2>3 DEF IInv, BytesOK, Sum, InServer, vars, server, tcp, cli
    <3>4. LoopOK'
      BY <2>3 DEF IInv, LoopOK, AllReady, Own, Used, Ahead, Ready, vars, server, tcp, cli
    <3> QED
      BY <3>1, <3>2, <3>3, <3>4 DEF IInv
  <2> QED
    BY <2>1, <2>2, <2>3 DEF Next
<1> QED
  BY <1>1, InitIInv, PTL DEF Spec

\* The types of the state, for any number of clients and buffers of any size.
THEOREM TypeCorrect == Spec => []TypeOK
<1>1. IInv => TypeOK
  BY DEF IInv
<1> QED
  BY <1>1, Invariance, PTL

\* client[], allset, maxi and maxfd describe the open connections, through every reuse of
\* a slot or a descriptor; only an accept that failed leaves a bit of its own in allset.
THEOREM TablesAlwaysAgree == Spec => []TablesAgree
<1>1. IInv => TablesAgree
  BY DEF IInv, FdsOK, TablesAgree
<1> QED
  BY <1>1, Invariance, PTL

\* The server never blocks in read: what select reported is readable when the loop
\* gets there, and nready stops the loop behind the last of it, not before.
THEOREM NeverBlocksInRead == Spec => []ReadNeverBlocks
<1>1. IInv => ReadNeverBlocks
  <2> SUFFICES ASSUME IInv, spc = "scan"
               PROVE  (\A k \in Ahead : Readable(client[k])) /\ nready = Cardinality(Ahead)
    BY DEF ReadNeverBlocks
  <2>1. ASSUME NEW k \in Ahead PROVE Readable(client[k])
    <3>1. k \in Used
      BY AheadOK DEF IInv
    <3>2. /\ Conn(client[k]) \in Clients /\ fd[Conn(client[k])] = client[k]
          /\ client[k] # listenfd
      BY <3>1, ConnOf, Sizes DEF IInv
    <3>3. Ready(Conn(client[k]))
      BY <3>2 DEF IInv, LoopOK, AllReady
    <3> QED
      BY <3>2, <3>3 DEF Readable, Ready
  <2> QED
    BY <2>1 DEF IInv, LoopOK
<1> QED
  BY <1>1, Invariance, PTL

\* A client that returns from str_cli has printed the echo of all its input, but for
\* what a server that died had not read.
THEOREM EchoIsComplete == Spec => []EchoComplete
<1>1. IInv => EchoComplete
  <2> SUFFICES ASSUME IInv, NEW c \in Clients, cpc[c] = "done"
               PROVE  out[c] = Input[c] \/ (spc = "failed" /\ out[c] + up[c] = Input[c])
    BY DEF EchoComplete
  <2>1. c \in eof /\ c \in closed /\ down[c] = 0
    BY DEF IInv, EndsOK, Ends
  <2>2. left[c] = 0 /\ togo[c] = 0 /\ (spc = "failed" \/ (up[c] = 0 /\ fd[c] = None))
    BY <2>1 DEF IInv, EndsOK, Ends
  <2>3. InServer(c) = 0
    <3>1. CASE spc = "write"
      <4>1. client[i] \in Fds
        BY <3>1, AheadOK, ConnOf DEF IInv, LoopOK
      <4> QED
        BY <2>2, <3>1, <4>1, Sizes DEF InServer
    <3>2. CASE spc # "write"
      BY <3>2 DEF InServer
    <3> QED
      BY <3>1, <3>2
  <2>4. Sum(c) = Input[c] /\ out[c] \in Int /\ up[c] \in Int
    BY CountsOf DEF IInv, BytesOK
  <2> QED
    BY <2>1, <2>2, <2>3, <2>4 DEF Sum
<1> QED
  BY <1>1, Invariance, PTL

-----------------------------------------------------------------------------
(* Who can go on *)

\* A connection that was made waits for accept, has a descriptor or was closed, and
\* the server writes only while bytes are left.
Tracked ==
    /\ spc # "failed" => \A c \in Clients :
           cpc[c] # "start" => c \in Range(backlog) \/ fd[c] # None \/ c \in closed
    /\ spc = "write" => n > 0

LEMMA TrackedServer ==
  ASSUME IInv, Tracked, Server
  PROVE  Tracked'
<1>1. CASE Select \/ SelectFails \/ AcceptFails
  <2>1. /\ UNCHANGED <<backlog, fd, closed, cpc>> /\ spc # "failed" /\ spc' # "write"
    BY <1>1 DEF Select, SelectFails, AcceptFails, tcp, cli
  <2> QED
    BY <2>1 DEF Tracked
<1>2. CASE Accept
  <2>1. PICK h \in Clients, f \in Fds : fd' = [fd EXCEPT ![h] = f] /\ fd[h] = None
    BY <1>2, AcceptFds
  <2>2. h = Head(backlog) /\ backlog # <<>> /\ backlog \in Seq(Clients)
    <3>1. PICK f1 : fd' = [fd EXCEPT ![Head(backlog)] = f1]
      BY <1>2 DEF Accept
    <3>2. backlog # <<>> /\ backlog \in Seq(Clients)
      BY <1>2 DEF Accept, IInv, TypeOK
    <3>3. fd'[h] = f /\ f # None
      BY <2>1, Sizes DEF IInv, TypeOK
    <3>4. h # Head(backlog) => fd'[h] = fd[h]
      BY <2>1, <3>1, <3>2 DEF IInv, TypeOK
    <3> QED
      BY <2>1, <3>2, <3>3, <3>4
  <2>3. \A c \in Range(backlog) : c = h \/ c \in Range(Tail(backlog))
    <3> SUFFICES ASSUME NEW k \in DOMAIN backlog, k # 1
                 PROVE  \E j \in DOMAIN Tail(backlog) : Tail(backlog)[j] = backlog[k]
      BY <2>2 DEF Range
    <3>1. k - 1 \in DOMAIN Tail(backlog) /\ Tail(backlog)[k - 1] = backlog[k]
      BY <2>2
    <3> QED
      BY <3>1
  <2>4. /\ UNCHANGED <<closed, cpc>> /\ spc = "accept" /\ spc' \in {"select", "scan"}
        /\ backlog' = Tail(backlog)
    BY <1>2 DEF Accept, cli
  <2>5. \A c \in Clients : fd[c] # None \/ c = h => fd'[c] # None
    BY <2>1, Sizes DEF IInv, TypeOK
  <2> QED
    BY <2>3, <2>4, <2>5 DEF Tracked
<1>3. CASE Echo
  <2>1. /\ UNCHANGED <<backlog, fd, cpc>> /\ closed \subseteq closed' /\ spc = "write"
    BY <1>3 DEF Echo, Handled, cli
  <2>2. spc' = "write" => n' > 0
    <3> SUFFICES ASSUME spc' = "write" PROVE n' > 0
      OBVIOUS
    <3> DEFINE c == Conn(client[i])
               m == Least(n, Cap - down[c])
    <3>1. n' = n - m /\ m # n
      BY <1>3 DEF Echo, Handled
    <3>2. i \in Ahead
      BY <2>1 DEF IInv, LoopOK
    <3>3. c \in Clients
      BY <2>1, <3>2, AtSlot
    <3>4. n \in Nat /\ Cap - down[c] \in Int
      BY <3>3, CountsOf DEF IInv
    <3>5. m <= n /\ m \in Int
      BY <3>4 DEF Least
    <3> QED
      BY <3>1, <3>4, <3>5
  <2> QED
    BY <2>1, <2>2 DEF Tracked
<1>4. ASSUME NEW k \in Slots, ReadData(k) PROVE Tracked'
  <2> DEFINE c == Conn(client[k])
  <2>1. /\ UNCHANGED <<backlog, fd, closed, cpc>> /\ spc = "scan"
        /\ k = Min(Ahead) /\ Ahead # {} /\ up[c] > 0 /\ n' = Least(up[c], MAXLINE)
    BY <1>4 DEF ReadData, cli
  <2>2. c \in Clients
    BY <2>1, AheadOK, AtSlot DEF IInv
  <2>3. up[c] \in Int /\ MAXLINE \in Nat \ {0}
    BY <2>2, CountsOf DEF IInv
  <2>4. n' > 0
    BY <2>1, <2>3 DEF Least
  <2> QED
    BY <2>1, <2>4 DEF Tracked
<1>5. ASSUME NEW k \in Slots, ReadError(k) PROVE Tracked'
  <2>1. /\ UNCHANGED <<backlog, fd, closed, cpc>> /\ spc = "scan" /\ spc' # "write"
    BY <1>5 DEF ReadError, Handled, cli
  <2> QED
    BY <2>1 DEF Tracked
<1>6. ASSUME NEW k \in Slots, ReadEof(k) PROVE Tracked'
  <2> DEFINE c == Conn(client[k])
  <2>1. /\ UNCHANGED <<backlog, cpc>> /\ spc = "scan" /\ spc' # "write"
        /\ closed' = closed \cup {c} /\ fd' = [fd EXCEPT ![c] = None]
    BY <1>6 DEF ReadEof, Handled, cli
  <2> HIDE DEF c
  <2>2. \A d \in Clients : d # c => fd'[d] = fd[d]
    BY <2>1 DEF IInv, TypeOK
  <2> QED
    BY <2>1, <2>2 DEF Tracked
<1> QED
  BY <1>1, <1>2, <1>3, <1>4, <1>5, <1>6 DEF Server

LEMMA TrackedClient ==
  ASSUME IInv, Tracked, NEW c \in Clients, Client(c)
  PROVE  Tracked'
<1>1. UNCHANGED <<spc, n, fd, closed>> /\ \A d \in Clients \ {c} : cpc'[d] = cpc[d]
  BY ClientQuiet DEF server
<1>2. CASE Connect(c)
  <2>1. backlog' = Append(backlog, c) /\ backlog \in Seq(Clients)
    BY <1>2 DEF Connect, IInv, TypeOK
  <2>2. Range(backlog') = Range(backlog) \cup {c}
    <3>1. /\ Len(backlog) \in Nat /\ DOMAIN backlog = 1 .. Len(backlog)
          /\ DOMAIN backlog' = 1 .. Len(backlog) + 1 /\ backlog'[Len(backlog) + 1] = c
          /\ \A k \in 1 .. Len(backlog) : backlog'[k] = backlog[k]
      BY <2>1
    <3>2. DOMAIN backlog' = DOMAIN backlog \cup {Len(backlog) + 1}
      BY <3>1
    <3> QED
      BY <3>1, <3>2 DEF Range
  <2> QED
    BY <1>1, <2>2 DEF Tracked
<1>3. CASE ~Connect(c)
  <2>1. backlog' = backlog /\ (cpc'[c] # "start" => cpc[c] # "start" \/ spc = "failed")
    BY <1>3 DEF Client, ReadSock, SockEof, ReadStdin, WriteSock, StdinEof, ServerDied, Refused,
                tcp
  <2> QED
    BY <1>1, <2>1 DEF Tracked
<1> QED
  BY <1>2, <1>3

LEMMA AlwaysTracked == Spec => [](IInv /\ Tracked)
<1>1. Init => Tracked
  BY DEF Init, Tracked
<1>2. IInv /\ Tracked /\ [Next]_vars => Tracked'
  <2> SUFFICES ASSUME IInv, Tracked, [Next]_vars PROVE Tracked'
    OBVIOUS
  <2>1. CASE UNCHANGED vars
    BY <2>1 DEF vars, server, tcp, cli, Tracked
  <2> QED
    BY <2>1, TrackedServer, TrackedClient DEF Next
<1> QED
  BY <1>1, <1>2, Invariance, PTL DEF Spec

\* What select is told of a connection.
LEMMA Watched ==
  ASSUME IInv, NEW c \in Clients, fd[c] # None
  PROVE  fd[c] \in allset /\ fd[c] <= maxfd /\ (Ready(c) => Readable(fd[c]))
<1>1. PICK k \in Used : client[k] = fd[c]
  BY DEF IInv, FdsOK
<1>2. fd[c] \in allset /\ fd[c] <= maxfd
  BY <1>1 DEF IInv, FdsOK, Own
<1>3. Conn(fd[c]) = c /\ fd[c] # listenfd
  BY <1>1, ConnOf, Sizes DEF IInv
<1> QED
  BY <1>2, <1>3 DEF Ready, Readable

LEMMA Listening ==
  ASSUME IInv
  PROVE  listenfd \in allset /\ listenfd <= maxfd
<1>1. maxfd \in Int /\ maxfd >= listenfd
  BY DEF IInv, TypeOK, Fds, listenfd
<1> QED
  BY <1>1 DEF IInv, FdsOK, Own, listenfd

\* While a client has not come to its end, the server or some client can go on, or the
\* server's write and that of one client wait for each other, or the server waits in
\* accept because of the bit that a failed accept left in allset.
THEOREM NoOtherHang == Spec => []OnlyWritesMeet
<1>1. IInv /\ Tracked => OnlyWritesMeet
  <2> SUFFICES ASSUME IInv, Tracked, NEW c \in Clients, ~Gone(c), ~ServerMoves,
                      \A d \in Clients : ~ClientMoves(d), ~(Stranded /\ fails > 0)
               PROVE  Deadlocked
    BY DEF OnlyWritesMeet
  <2>1. cpc[c] \in {"select", "write"} /\ spc # "failed"
    BY DEF Gone, ClientMoves, IInv, TypeOK
  <2>2. Ready(c) /\ c \notin closed
    <3>1. CASE cpc[c] = "select"
      BY <3>1 DEF ClientMoves, Ready
    <3>2. CASE cpc[c] = "write"
      <4>1. up[c] \in 0 .. Cap /\ Cap \in Nat \ {0} /\ ~(up[c] < Cap)
        BY <3>2, CountsOf DEF ClientMoves, IInv
      <4>2. up[c] > 0
        BY <4>1
      <4> QED
        BY <2>1, <4>2 DEF Ready, IInv, EndsOK, Ends
    <3> QED
      BY <2>1, <3>1, <3>2
  <2>3. spc # "select"
    <3> SUFFICES ASSUME spc = "select" PROVE FALSE
      OBVIOUS
    <3>1. CASE fd[c] # None
      BY <2>2, <3>1, Watched DEF ServerMoves
    <3>2. CASE c \in Range(backlog)
      <4>1. backlog # <<>>
        BY <3>2 DEF Range
      <4> QED
        BY <4>1, Listening DEF ServerMoves, Readable
    <3> QED
      BY <2>1, <2>2, <3>1, <3>2 DEF Tracked
  <2>4. spc # "accept"
    BY DEF IInv, LoopOK, ServerMoves, Stranded
  <2>5. spc # "scan"
    <3> SUFFICES ASSUME spc = "scan" PROVE FALSE
      OBVIOUS
    <3>1. Min(Ahead) \in Ahead /\ Min(Ahead) \in Used
      BY AheadOK DEF IInv, LoopOK
    <3>2. PICK d \in Clients : fd[d] = client[Min(Ahead)] /\ fd[d] # None
      BY <3>1, ConnOf DEF IInv
    <3>3. Readable(client[Min(Ahead)])
      BY <3>1, <3>2, Watched DEF IInv, LoopOK, AllReady
    <3> QED
      BY <3>1, <3>3 DEF ServerMoves
  <2>6. spc = "write"
    BY <2>1, <2>3, <2>4, <2>5 DEF IInv, TypeOK
  <2> DEFINE d == Conn(client[i])
  <2>7. d \in Clients /\ cpc[d] # "start"
    BY <2>6, AtSlot DEF IInv, LoopOK
  <2>8. ~Gone(d) /\ ~(down[d] < Cap)
    BY <2>6 DEF ServerMoves
  <2> HIDE DEF d
  <2>9. down[d] = Cap /\ down[d] > 0 /\ up[d] \in 0 .. Cap /\ Cap \in Nat
    BY <2>7, <2>8, CountsOf DEF IInv
  <2>10. cpc[d] = "write" /\ ~(up[d] < Cap)
    BY <2>7, <2>8, <2>9 DEF ClientMoves, Gone, IInv, TypeOK
  <2>11. up[d] = Cap
    BY <2>9, <2>10
  <2> QED
    BY <2>6, <2>9, <2>10, <2>11 DEF Deadlocked, Tracked, d
<1> QED
  BY <1>1, AlwaysTracked, PTL
=============================================================================
