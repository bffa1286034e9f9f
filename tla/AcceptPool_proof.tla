-------------------------- MODULE AcceptPool_proof --------------------------
(***************************************************************************)
(* What holds of the accepting pools for any number of workers and         *)
(* connections, every lock and every fault: the types, mutual exclusion in *)
(* accept, and that each of the four servers implements ConnService.       *)
(***************************************************************************)
EXTENDS AcceptPool, TLAPS

LEMMA InitType == Init => TypeOK
  BY ChildrenAssumption, KindsAssumption
  DEF Init, TypeOK, WorkersTypeOK, MainTypeOK, ConnsTypeOK, Workers, Nobody

\* A connection that arrives changes nothing but the backlog.
LEMMA ArriveType ==
  ASSUME TypeOK, NEW c \in Conns, Arrive(c)
  PROVE  TypeOK'
<1>1. ConnsTypeOK'
  BY DEF Arrive, TypeOK, ConnsTypeOK
<1> QED
  BY <1>1 DEF Arrive, TypeOK, WorkersTypeOK, MainTypeOK

LEMMA FirstType == First \in {"lock", "accept"}
  BY DEF First

LEMMA FaultType ==
  ASSUME TypeOK, NEW kind, Fault(kind)
  PROVE  faults' \subseteq AllFaults
  BY KindsAssumption DEF Fault, TypeOK, MainTypeOK

\* A worker made, or the parent turned worker, is the next entry of the table.
LEMMA MadeType ==
  ASSUME TypeOK, main = "make", n' = n + 1, wpc' = [wpc EXCEPT ![n + 1] = First],
         UNCHANGED <<owner, termed, count>>
  PROVE  WorkersTypeOK' /\ n' \in 1 .. nchildren /\ n + 1 \in Workers
<1>1. n' \in 1 .. nchildren /\ n + 1 \in Workers
  BY ChildrenAssumption DEF TypeOK, MainTypeOK, Workers
<1> QED
  BY <1>1, FirstType DEF TypeOK, WorkersTypeOK

LEMMA EndThreadsType ==
  ASSUME TypeOK, EndThreads, UNCHANGED <<owner, termed, count, backlog, arrived, served>>
  PROVE  WorkersTypeOK' /\ ConnsTypeOK'
<1>1. CASE server = "threads"
  <2>1. wpc' \in [Workers -> {"none", "lock", "asleep", "accept", "unlock", "count",
                              "serve", "dead"}]
    BY <1>1 DEF EndThreads, TypeOK, WorkersTypeOK
  <2> QED
    BY <1>1, <2>1 DEF EndThreads, TypeOK, WorkersTypeOK, ConnsTypeOK
<1>2. CASE server # "threads"
  BY <1>2 DEF EndThreads, TypeOK, WorkersTypeOK, ConnsTypeOK
<1> QED
  BY <1>1, <1>2

LEMMA MainType ==
  ASSUME TypeOK, Make \/ ForkFails \/ CreateFails \/ SigInt \/ SigIntEarly \/ Reap
  PROVE  TypeOK'
<1>1. CASE Make
  <2>1. WorkersTypeOK' /\ n' \in 1 .. nchildren
    BY <1>1, MadeType DEF Make, AllMade
  <2>2. main' = "make" => n' < nchildren
    BY <1>1, <2>1, ChildrenAssumption DEF Make, AllMade
  <2> QED
    BY <1>1, <2>1, <2>2, ChildrenAssumption
    DEF Make, AllMade, TypeOK, MainTypeOK, ConnsTypeOK, conns
<1>2. CASE ForkFails
  <2>1. WorkersTypeOK' /\ n' \in 1 .. nchildren
    BY <1>2, MadeType DEF ForkFails
  <2> QED
    BY <1>2, <2>1, FaultType, ChildrenAssumption
    DEF ForkFails, TypeOK, MainTypeOK, ConnsTypeOK, conns
<1>3. CASE CreateFails \/ SigIntEarly
  <2>1. WorkersTypeOK' /\ ConnsTypeOK'
    BY <1>3, EndThreadsType DEF CreateFails, SigIntEarly
  <2>2. MainTypeOK'
    BY <1>3, FaultType DEF CreateFails, SigIntEarly, TypeOK, MainTypeOK
  <2> QED
    BY <2>1, <2>2 DEF TypeOK
<1>4. CASE SigInt
  <2>1. 1 .. n \subseteq Workers
    BY ChildrenAssumption DEF TypeOK, MainTypeOK, Workers
  <2>2. WorkersTypeOK'
    BY <1>4, <2>1 DEF SigInt, Kill, TypeOK, WorkersTypeOK
  <2> QED
    BY <1>4, <2>2, FaultType DEF SigInt, TypeOK, MainTypeOK, ConnsTypeOK, conns
<1>5. CASE Reap
  BY <1>5 DEF Reap, TypeOK, WorkersTypeOK, MainTypeOK, ConnsTypeOK, conns
<1> QED
  BY <1>1, <1>2, <1>3, <1>4, <1>5

\* A release frees the lock and moves its sleepers back to trying.
LEMMA ReleaseType ==
  ASSUME TypeOK, NEW k \in Workers, NEW next \in {"count", "dead"}, Release(k, next),
         UNCHANGED <<termed, count>>
  PROVE  WorkersTypeOK'
<1>1. wpc' \in [Workers -> {"none", "lock", "asleep", "accept", "unlock", "count",
                            "serve", "dead"}]
  BY DEF Release, TypeOK, WorkersTypeOK
<1> QED
  BY <1>1 DEF Release, TypeOK, WorkersTypeOK

LEMMA DieType ==
  ASSUME TypeOK, NEW k \in Workers, Die(k),
         UNCHANGED <<termed, count, backlog, arrived, served>>
  PROVE  WorkersTypeOK' /\ ConnsTypeOK'
<1>1. ConnsTypeOK'
  BY DEF Die, TypeOK, ConnsTypeOK
<1>2. CASE server = "fork_fcntl" /\ owner = k
  BY <1>1, <1>2, ReleaseType DEF Die
<1>3. CASE ~(server = "fork_fcntl" /\ owner = k)
  BY <1>1, <1>3 DEF Die, TypeOK, WorkersTypeOK
<1> QED
  BY <1>2, <1>3

LEMMA WorkerType ==
  ASSUME TypeOK, NEW k \in Workers, Worker(k) \/ AcceptFails(k) \/ Term(k) \/ Crash(k)
  PROVE  TypeOK'
<1>0. UNCHANGED <<server, main, n, faults>> => MainTypeOK'
  BY DEF TypeOK, MainTypeOK
<1> USE DEF TypeOK
<1>1. CASE Lock(k)
  <2>1. WorkersTypeOK'
    BY <1>1 DEF Lock, WorkersTypeOK
  <2> QED
    BY <1>0, <1>1, <2>1 DEF Lock, ConnsTypeOK, conns
<1>2. CASE Accept(k)
  <2>1. Head(backlog) \in Conns /\ Tail(backlog) \in Seq(Conns)
    BY <1>2 DEF Accept, ConnsTypeOK
  <2>2. WorkersTypeOK' /\ ConnsTypeOK'
    BY <1>2, <2>1 DEF Accept, WorkersTypeOK, ConnsTypeOK
  <2> QED
    BY <1>0, <1>2, <2>2 DEF Accept
<1>3. CASE AcceptFails(k)
  <2>1. WorkersTypeOK'
    BY <1>3 DEF AcceptFails, WorkersTypeOK
  <2>2. MainTypeOK'
    BY <1>3, FaultType DEF AcceptFails, MainTypeOK
  <2>3. backlog' \in Seq(Conns)
    <3>1. backlog # <<>> => Tail(backlog) \in Seq(Conns)
      BY DEF ConnsTypeOK
    <3>2. backlog # <<>> /\ backlog' \in {backlog, Tail(backlog)}
      BY <1>3 DEF AcceptFails
    <3> QED
      BY <3>1, <3>2 DEF ConnsTypeOK
  <2> QED
    BY <1>3, <2>1, <2>2, <2>3 DEF AcceptFails, ConnsTypeOK
<1>4. CASE Unlock(k)
  <2>1. WorkersTypeOK'
    BY <1>4, ReleaseType DEF Unlock
  <2> QED
    BY <1>0, <1>4, <2>1 DEF Unlock, ConnsTypeOK, conns
<1>5. CASE Count(k)
  <2>1. WorkersTypeOK'
    BY <1>5 DEF Count, WorkersTypeOK
  <2> QED
    BY <1>0, <1>5, <2>1 DEF Count, ConnsTypeOK, conns
<1>6. CASE Serve(k)
  <2>1. WorkersTypeOK' /\ ConnsTypeOK'
    BY <1>6, FirstType DEF Serve, CloseConn, WorkersTypeOK, ConnsTypeOK
  <2> QED
    BY <1>0, <1>6, <2>1 DEF Serve, CloseConn
<1>7. CASE Term(k)
  BY <1>0, <1>7, DieType DEF Term
<1>8. CASE Crash(k)
  <2>1. MainTypeOK'
    BY <1>8, FaultType DEF Crash, MainTypeOK
  <2> QED
    BY <1>8, <2>1, DieType DEF Crash
<1> QED
  BY <1>1, <1>2, <1>3, <1>4, <1>5, <1>6, <1>7, <1>8 DEF Worker

LEMMA NextType == TypeOK /\ [Next]_vars => TypeOK'
<1>1. TypeOK /\ UNCHANGED vars => TypeOK'
  BY DEF vars, conns, TypeOK, WorkersTypeOK, MainTypeOK, ConnsTypeOK
<1> QED
  BY <1>1, ArriveType, MainType, WorkerType DEF Next

\* Every value of the state has its type; main never makes a worker beyond the
\* table.
THEOREM TypeCorrect == Spec => []TypeOK
  BY InitType, NextType, PTL DEF Spec

-----------------------------------------------------------------------------
(* Mutual exclusion *)

\* Whoever dies gives up the fcntl lock, and with it nothing that is another's.
LEMMA DieExclusion ==
  ASSUME TypeOK, OneAcceptor, NEW k \in Workers, Die(k), UNCHANGED server
  PROVE  OneAcceptor'
<1> SUFFICES ASSUME Locked', NEW j \in Workers, wpc'[j] \in {"accept", "unlock"}
             PROVE  owner' = j
  BY DEF OneAcceptor
<1>1. wpc[j] = wpc'[j] /\ j # k
  BY DEF Die, Release, TypeOK, WorkersTypeOK
<1>2. owner = j
  BY <1>1 DEF OneAcceptor, Locked
<1> QED
  BY <1>1, <1>2 DEF Die

\* Everyone in accept is the owner: the lock is taken only when free, given up
\* only by its owner, and nobody reaches accept without taking it.
LEMMA NextExclusion == TypeOK /\ OneAcceptor /\ [Next]_vars => OneAcceptor'
<1> SUFFICES ASSUME TypeOK, OneAcceptor, [Next]_vars, Locked',
                    NEW j \in Workers, wpc'[j] \in {"accept", "unlock"}
             PROVE  owner' = j
  BY DEF OneAcceptor
<1>0. ASSUME wpc[j] = wpc'[j], server' = server PROVE owner = j
  BY <1>0 DEF OneAcceptor, Locked
<1>1. CASE UNCHANGED <<server, wpc, owner>>
  BY <1>0, <1>1
<1>2. CASE Make \/ ForkFails
  <2>1. UNCHANGED <<server, owner>> /\ wpc' = [wpc EXCEPT ![n + 1] = First]
    BY <1>2 DEF Make, AllMade, ForkFails
  <2>2. First = "lock"
    BY <2>1 DEF First, Locked
  <2>3. wpc[j] = wpc'[j]
    BY <2>1, <2>2 DEF TypeOK, WorkersTypeOK
  <2> QED
    BY <1>0, <2>1, <2>3
<1>3. CASE CreateFails \/ SigIntEarly
  <2>1. UNCHANGED <<server, owner>> /\ EndThreads
    BY <1>3 DEF CreateFails, SigIntEarly
  <2>2. wpc[j] = wpc'[j]
    BY <2>1 DEF EndThreads
  <2> QED
    BY <1>0, <2>1, <2>2
<1>4. ASSUME NEW k \in Workers, Lock(k) PROVE owner' = j
  <2>1. CASE owner = Nobody
    <3>1. j # k => wpc[j] = wpc'[j]
      BY <1>4, <2>1 DEF Lock, TypeOK, WorkersTypeOK
    <3>2. owner # j
      BY <2>1 DEF Workers, Nobody
    <3> QED
      BY <1>0, <1>4, <2>1, <3>1, <3>2 DEF Lock
  <2>2. CASE owner # Nobody
    <3>1. wpc[j] = wpc'[j] /\ UNCHANGED <<server, owner>>
      BY <1>4, <2>2 DEF Lock, TypeOK, WorkersTypeOK
    <3> QED
      BY <1>0, <3>1
  <2> QED
    BY <2>1, <2>2
<1>5. ASSUME NEW k \in Workers, Accept(k) \/ AcceptFails(k) PROVE owner' = j
  <2>1. wpc[j] \in {"accept", "unlock"} /\ UNCHANGED <<server, owner>>
    BY <1>5 DEF Accept, AcceptFails, TypeOK, WorkersTypeOK
  <2> QED
    BY <2>1 DEF OneAcceptor, Locked
<1>6. ASSUME NEW k \in Workers, Unlock(k) PROVE owner' = j
  <2>1. wpc[j] = wpc'[j] /\ j # k /\ server' = server
    BY <1>6 DEF Unlock, Release, TypeOK, WorkersTypeOK
  <2>2. owner = j
    BY <1>0, <2>1
  <2>3. owner = k
    BY <1>6, <2>1 DEF Unlock, OneAcceptor, Locked
  <2> QED
    BY <2>1, <2>2, <2>3
<1>7. ASSUME NEW k \in Workers, Count(k) \/ Serve(k) PROVE owner' = j
  <2>1. UNCHANGED <<server, owner>>
    BY <1>7 DEF Count, Serve, CloseConn
  <2>2. wpc[j] = wpc'[j]
    BY <1>7, <2>1 DEF Count, Serve, CloseConn, First, Locked, TypeOK, WorkersTypeOK
  <2> QED
    BY <1>0, <2>1, <2>2
<1>8. ASSUME NEW k \in Workers, Term(k) \/ Crash(k) PROVE owner' = j
  <2>1. OneAcceptor'
    BY <1>8, DieExclusion DEF Term, Crash
  <2> QED
    BY <2>1 DEF OneAcceptor
<1>9. CASE (\E c \in Conns : Arrive(c)) \/ SigInt \/ Reap \/ UNCHANGED vars
  BY <1>1, <1>9 DEF Arrive, SigInt, Reap, vars
<1> QED
  BY <1>2, <1>3, <1>4, <1>5, <1>6, <1>7, <1>8, <1>9 DEF Next, Worker

\* With any of the locks no two workers are in accept at once, however many
\* there are and whichever of them die where.
THEOREM MutualExclusion == Spec => []OneAcceptor
<1>1. Init => OneAcceptor
  BY DEF Init, OneAcceptor
<1> QED
  BY <1>1, InitType, NextType, NextExclusion, PTL DEF Spec

-----------------------------------------------------------------------------
(* The refinement of ConnService *)

Past == {c \in arrived : ~Waiting(c) /\ \A k \in Workers : connfd[k] # c}

\* A connection is in one place: once in the queue, or with one worker, who is
\* beyond accept.
OnePlace ==
    /\ Range(backlog) \subseteq arrived
    /\ \A j, k \in DOMAIN backlog : backlog[j] = backlog[k] => j = k
    /\ \A k \in Workers :
         /\ connfd[k] \in arrived \cup {None}
         /\ ~Waiting(connfd[k])
         /\ wpc[k] \in {"none", "lock", "asleep", "accept"} => connfd[k] = None
    /\ \A j, k \in Workers : connfd[j] = connfd[k] /\ connfd[j] # None => j = k

\* What a queue holds behind its head, and with one more.
LEMMA QueueHead ==
  ASSUME NEW q \in Seq(Conns), q # <<>>,
         \A j, k \in DOMAIN q : q[j] = q[k] => j = k
  PROVE  /\ Head(q) \in Range(q) /\ Range(Tail(q)) = Range(q) \ {Head(q)}
         /\ \A j, k \in DOMAIN Tail(q) : Tail(q)[j] = Tail(q)[k] => j = k
<1>1. Len(q) \in Nat \ {0} /\ DOMAIN q = 1 .. Len(q)
  OBVIOUS
<1>2. /\ DOMAIN Tail(q) = 1 .. Len(q) - 1
      /\ \A k \in 1 .. Len(q) - 1 : Tail(q)[k] = q[k + 1]
  OBVIOUS
<1>3. Head(q) = q[1] /\ 1 \in DOMAIN q
  BY <1>1
<1>4. \A k \in 1 .. Len(q) - 1 : k + 1 \in DOMAIN q /\ k + 1 # 1
  BY <1>1
<1>5. \A k \in DOMAIN q : k = 1 \/ (k - 1 \in 1 .. Len(q) - 1 /\ (k - 1) + 1 = k)
  BY <1>1
<1>6. Range(Tail(q)) \subseteq Range(q) \ {Head(q)}
  BY <1>2, <1>3, <1>4 DEF Range
<1>7. Range(q) \ {Head(q)} \subseteq Range(Tail(q))
  BY <1>2, <1>3, <1>5 DEF Range
<1>8. \A j, k \in 1 .. Len(q) - 1 : j + 1 = k + 1 => j = k
  BY <1>1
<1>9. \A j, k \in DOMAIN Tail(q) : Tail(q)[j] = Tail(q)[k] => j = k
  BY <1>2, <1>4, <1>8
<1> QED
  BY <1>3, <1>6, <1>7, <1>9 DEF Range

LEMMA QueueAppend ==
  ASSUME NEW q \in Seq(Conns), NEW c \in Conns \ Range(q),
         \A j, k \in DOMAIN q : q[j] = q[k] => j = k
  PROVE  /\ Range(Append(q, c)) = Range(q) \cup {c}
         /\ \A j, k \in DOMAIN Append(q, c) : Append(q, c)[j] = Append(q, c)[k] => j = k
<1> DEFINE s == Append(q, c)
<1>1. Len(q) \in Nat /\ DOMAIN q = 1 .. Len(q)
  OBVIOUS
<1>2. /\ DOMAIN s = 1 .. Len(q) + 1 /\ s[Len(q) + 1] = c
      /\ \A k \in 1 .. Len(q) : s[k] = q[k]
  OBVIOUS
<1> HIDE DEF s
<1>3. 1 .. Len(q) + 1 = (1 .. Len(q)) \cup {Len(q) + 1}
  BY <1>1
<1>4. Range(s) = Range(q) \cup {c}
  BY <1>1, <1>2, <1>3 DEF Range
<1>5. \A k \in 1 .. Len(q) : q[k] # c
  BY <1>1 DEF Range
<1>6. \A j, k \in DOMAIN s : s[j] = s[k] => j = k
  BY <1>1, <1>2, <1>3, <1>5
<1> QED
  BY <1>4, <1>6 DEF s

\* Steps that leave the connections alone are not seen from outside.
LEMMA SameConns ==
  ASSUME OnePlace, UNCHANGED conns,
         \A k \in Workers : wpc'[k] \in {"none", "lock", "asleep", "accept"} =>
             \/ wpc[k] \in {"none", "lock", "asleep", "accept"}
             \/ connfd[k] = None
  PROVE  OnePlace' /\ UNCHANGED Service!vars
<1>1. OnePlace'
  BY DEF OnePlace, conns, Waiting
<1>2. UNCHANGED Service!vars
  BY DEF Service!vars, conns, Waiting
<1> QED
  BY <1>1, <1>2

LEMMA ArriveRefines ==
  ASSUME TypeOK, OnePlace, NEW c \in Conns, Arrive(c)
  PROVE  OnePlace' /\ Service!Arrive(c)
<1>1. /\ c \notin arrived /\ arrived' = arrived \cup {c} /\ backlog' = Append(backlog, c)
      /\ UNCHANGED <<wpc, connfd>>
  BY DEF Arrive
<1>2. c \notin Range(backlog) /\ \A k \in Workers : connfd[k] # c
  BY <1>1, ConnsAssumption DEF OnePlace
<1>3. /\ Range(backlog') = Range(backlog) \cup {c}
      /\ \A j, k \in DOMAIN backlog' : backlog'[j] = backlog'[k] => j = k
  BY <1>1, <1>2, QueueAppend DEF TypeOK, ConnsTypeOK, OnePlace
<1>4. OnePlace'
  <2>1. Range(backlog') \subseteq arrived'
    BY <1>1, <1>3 DEF OnePlace
  <2>2. \A k \in Workers :
           /\ connfd'[k] \in arrived' \cup {None} /\ ~Waiting(connfd[k])'
           /\ wpc'[k] \in {"none", "lock", "asleep", "accept"} => connfd'[k] = None
    BY <1>1, <1>2, <1>3 DEF OnePlace, Waiting
  <2> QED
    BY <1>1, <1>3, <2>1, <2>2 DEF OnePlace
<1>5. c \notin Service!Waiting \cup Service!Held \cup Past
  BY <1>1, <1>2 DEF Service!Waiting, Service!Held, Past, Range
<1>6. Past' = Past
  BY <1>1, <1>2, <1>3 DEF Past, Waiting
<1> QED
  BY <1>1, <1>4, <1>5, <1>6 DEF Service!Arrive, Past

LEMMA AcceptRefines ==
  ASSUME TypeOK, OnePlace, NEW k \in Workers, Accept(k)
  PROVE  OnePlace' /\ Service!Start(k)
<1>1. /\ wpc[k] = "accept" /\ backlog # <<>> /\ backlog' = Tail(backlog)
      /\ connfd' = [connfd EXCEPT ![k] = Head(backlog)]
      /\ wpc' \in {[wpc EXCEPT ![k] = p] : p \in {"unlock", "count"}}
      /\ UNCHANGED arrived
  BY DEF Accept
<1>2. /\ Head(backlog) \in Range(backlog)
      /\ Range(backlog') = Range(backlog) \ {Head(backlog)}
      /\ \A i, j \in DOMAIN backlog' : backlog'[i] = backlog'[j] => i = j
  BY <1>1, QueueHead DEF TypeOK, ConnsTypeOK, OnePlace
<1>3. /\ connfd[k] = None /\ connfd'[k] = Head(backlog)
      /\ \A j \in Workers : j # k => connfd'[j] = connfd[j] /\ connfd[j] # Head(backlog)
  BY <1>1, <1>2 DEF OnePlace, Waiting, TypeOK, ConnsTypeOK
<1>4. OnePlace'
  <2>1. Range(backlog') \subseteq arrived'
    BY <1>1, <1>2 DEF OnePlace
  <2>2. \A j \in Workers : connfd'[j] \in arrived' \cup {None} /\ ~Waiting(connfd[j])'
    BY <1>1, <1>2, <1>3 DEF OnePlace, Waiting
  <2>3. \A j \in Workers :
           wpc'[j] \in {"none", "lock", "asleep", "accept"} => connfd'[j] = None
    BY <1>1, <1>3 DEF OnePlace, TypeOK, WorkersTypeOK
  <2>4. \A i, j \in Workers : connfd'[i] = connfd'[j] /\ connfd'[i] # None => i = j
    BY <1>3 DEF OnePlace
  <2> QED
    BY <1>2, <2>1, <2>2, <2>3, <2>4 DEF OnePlace
<1>5. Past' = Past
  <2>1. None \notin arrived
    BY ConnsAssumption DEF TypeOK, ConnsTypeOK
  <2>2. ASSUME NEW c \in arrived, c # Head(backlog) PROVE c \in Past' <=> c \in Past
    <3>1. \A j \in Workers : connfd'[j] = c <=> connfd[j] = c
      BY <1>3, <2>1, <2>2
    <3>2. c \in Range(backlog') <=> c \in Range(backlog)
      BY <1>2, <2>2
    <3> QED
      BY <1>1, <3>1, <3>2 DEF Past, Waiting
  <2>3. Head(backlog) \notin Past /\ Head(backlog) \notin Past'
    BY <1>2, <1>3 DEF Past, Waiting
  <2>4. Past \subseteq arrived /\ Past' \subseteq arrived
    BY <1>1 DEF Past
  <2> QED
    BY <2>2, <2>3, <2>4
<1> QED
  BY <1>1, <1>3, <1>4, <1>5 DEF Service!Start, Past

\* accept fails, and the connection may be lost with it.
LEMMA AcceptFailsRefines ==
  ASSUME TypeOK, OnePlace, NEW k \in Workers, AcceptFails(k)
  PROVE  OnePlace' /\ (Service!Lose \/ UNCHANGED Service!vars)
<1>1. /\ backlog # <<>> /\ wpc[k] = "accept"
      /\ wpc' \in {[wpc EXCEPT ![k] = p] : p \in {"unlock", "count"}}
      /\ UNCHANGED <<arrived, connfd>>
  BY DEF AcceptFails
<1>2. \A j \in Workers : wpc'[j] \in {"none", "lock", "asleep", "accept"} =>
         wpc[j] \in {"none", "lock", "asleep", "accept"}
  BY <1>1 DEF TypeOK, WorkersTypeOK
<1>3. CASE backlog' = backlog
  <2>1. UNCHANGED conns
    BY <1>1, <1>3 DEF AcceptFails, conns
  <2> QED
    BY <1>2, <2>1, SameConns
<1>4. CASE backlog' = Tail(backlog)
  <2>1. /\ Head(backlog) \in Range(backlog)
        /\ Range(backlog') = Range(backlog) \ {Head(backlog)}
        /\ \A i, j \in DOMAIN backlog' : backlog'[i] = backlog'[j] => i = j
    BY <1>1, <1>4, QueueHead DEF TypeOK, ConnsTypeOK, OnePlace
  <2>2. OnePlace'
    BY <1>1, <1>2, <2>1 DEF OnePlace, Waiting
  <2>3. Past' = Past \cup {Head(backlog)}
    BY <1>1, <2>1 DEF Past, Waiting, OnePlace
  <2> QED
    BY <1>1, <1>4, <2>2, <2>3 DEF Service!Lose, Past
<1> QED
  BY <1>3, <1>4 DEF AcceptFails

\* Connections end with their workers, or when they were served.
LEMMA EndRefines ==
  ASSUME TypeOK, OnePlace, NEW W \in SUBSET Workers,
         connfd' = [k \in Workers |-> IF k \in W THEN None ELSE connfd[k]],
         UNCHANGED <<backlog, arrived>>,
         \A k \in Workers \ W : wpc'[k] \in {"none", "lock", "asleep", "accept"} =>
             wpc[k] \in {"none", "lock", "asleep", "accept"}
  PROVE  OnePlace' /\ [Service!Next]_(Service!vars)
<1> DEFINE H == {k \in W : connfd[k] # None}
<1>1. None \notin Range(backlog)
  BY ConnsAssumption DEF OnePlace, TypeOK, ConnsTypeOK
<1>2. OnePlace'
  BY <1>1 DEF OnePlace, Waiting
<1>3. H \in SUBSET {k \in Workers : connfd[k] # None}
  OBVIOUS
<1>4. Past' = Past \cup {connfd[k] : k \in H}
  <2>1. \A c \in Past' : c \in Past \/ \E k \in H : connfd[k] = c
    BY ConnsAssumption DEF Past, Waiting, TypeOK, ConnsTypeOK
  <2>2. Past \subseteq Past'
    BY ConnsAssumption DEF Past, Waiting, TypeOK, ConnsTypeOK
  <2>3. ASSUME NEW k \in H PROVE connfd[k] \in Past'
    <3>1. connfd[k] \in arrived' /\ connfd[k] \notin Range(backlog')
      BY DEF OnePlace, Waiting
    <3>2. \A j \in Workers : connfd'[j] # connfd[k]
      BY DEF OnePlace
    <3> QED
      BY <3>1, <3>2 DEF Past, Waiting
  <2> QED
    BY <2>1, <2>2, <2>3
<1>5. connfd' = [k \in Workers |-> IF k \in H THEN None ELSE connfd[k]]
  OBVIOUS
<1> HIDE DEF H
<1>6. UNCHANGED backlog
  OBVIOUS
<1>7. \E V \in SUBSET {k \in Workers : connfd[k] # None} : Service!Finish(V)
  BY <1>3, <1>4, <1>5, <1>6 DEF Service!Finish, Past
<1> QED
  BY <1>2, <1>7 DEF Service!Next

\* A worker that is not made yet is nowhere.
NotMade == \A k \in Workers : k > n => wpc[k] = "none"

LEMMA NextNotMade == TypeOK /\ NotMade /\ [Next]_vars => NotMade'
<1> SUFFICES ASSUME TypeOK, NotMade, [Next]_vars, NEW k \in Workers, k > n'
             PROVE  wpc'[k] = "none"
  BY DEF NotMade
<1>1. n \in Nat /\ k \in Nat
  BY ChildrenAssumption DEF TypeOK, MainTypeOK, Workers
<1>2. ASSUME n' = n, wpc'[k] = wpc[k] PROVE wpc'[k] = "none"
  BY <1>2 DEF NotMade
<1>3. CASE Make \/ ForkFails
  <2>1. n' = n + 1 /\ wpc' = [wpc EXCEPT ![n + 1] = First]
    BY <1>3 DEF Make, ForkFails, AllMade
  <2>2. k > n /\ k # n + 1
    BY <1>1, <2>1
  <2> QED
    BY <2>1, <2>2 DEF NotMade, TypeOK, WorkersTypeOK
<1>4. CASE CreateFails \/ SigIntEarly
  <2>1. n' = n /\ EndThreads
    BY <1>4 DEF CreateFails, SigIntEarly
  <2>2. ~(k <= n)
    BY <1>1, <2>1
  <2> QED
    BY <1>2, <2>1, <2>2 DEF EndThreads
<1>5. CASE (\E c \in Conns : Arrive(c)) \/ SigInt \/ Reap \/ UNCHANGED vars
  <2>1. n' = n /\ wpc' = wpc
    BY <1>5 DEF Arrive, SigInt, Reap, vars
  <2> QED
    BY <1>2, <2>1
<1>6. ASSUME NEW w \in Workers, Worker(w) \/ AcceptFails(w) \/ Term(w) \/ Crash(w)
      PROVE  wpc'[k] = "none"
  <2>1. n' = n /\ wpc[k] = "none"
    BY <1>6 DEF Worker, Lock, Accept, Unlock, Count, Serve, CloseConn, AcceptFails, Term,
                Crash, NotMade
  <2>2. wpc[w] # "none"
    BY <1>6 DEF Worker, Lock, Accept, Unlock, Count, Serve, AcceptFails, Term, Crash, Alive
  <2>3. \/ \E p : wpc' = [wpc EXCEPT ![w] = p]
        \/ \E p : Release(w, p)
    BY <1>6 DEF Worker, Lock, Accept, Unlock, Count, Serve, CloseConn, AcceptFails, Term,
                Crash, Die
  <2>4. k \notin Asleep
    BY <2>1 DEF Asleep
  <2>5. CASE \E p : wpc' = [wpc EXCEPT ![w] = p]
    BY <2>1, <2>2, <2>5 DEF TypeOK, WorkersTypeOK
  <2>6. ASSUME NEW p, Release(w, p) PROVE wpc'[k] = "none"
    <3>1. \A V \in WakeChoices : V \subseteq Asleep
      BY DEF WakeChoices
    <3> QED
      BY <2>1, <2>2, <2>4, <2>6, <3>1 DEF Release
  <2> QED
    BY <2>3, <2>5, <2>6
<1> QED
  BY <1>3, <1>4, <1>5, <1>6 DEF Next

\* main changes no connection, unless it ends the threads.
LEMMA MainRefines ==
  ASSUME TypeOK, OnePlace, NotMade,
         Make \/ ForkFails \/ CreateFails \/ SigInt \/ SigIntEarly \/ Reap
  PROVE  OnePlace' /\ [Service!Next]_(Service!vars)
<1>1. CASE Make \/ ForkFails
  <2>1. UNCHANGED conns /\ wpc' = [wpc EXCEPT ![n + 1] = First] /\ main = "make"
    BY <1>1 DEF Make, ForkFails, AllMade
  <2>2. n + 1 \in Workers /\ n + 1 > n
    BY <2>1, ChildrenAssumption DEF TypeOK, MainTypeOK, Workers
  <2>3. wpc[n + 1] = "none"
    BY <2>2 DEF NotMade
  <2> QED
    BY <2>1, <2>2, <2>3, SameConns DEF TypeOK, WorkersTypeOK
<1>2. CASE SigInt \/ Reap
  BY <1>2, SameConns DEF SigInt, Reap
<1>3. CASE CreateFails \/ SigIntEarly
  <2>1. EndThreads /\ UNCHANGED <<backlog, arrived, served>>
    BY <1>3 DEF CreateFails, SigIntEarly
  <2>2. CASE server = "threads"
    <3>1. connfd' = [k \in Workers |-> IF k \in Workers THEN None ELSE connfd[k]]
      BY <2>1, <2>2 DEF EndThreads
    <3> QED
      BY <2>1, <3>1, EndRefines
  <2>3. CASE server # "threads"
    BY <2>1, <2>3, SameConns DEF EndThreads, conns
  <2> QED
    BY <2>2, <2>3
<1> QED
  BY <1>1, <1>2, <1>3

LEMMA WorkerRefines ==
  ASSUME TypeOK, OnePlace, NEW k \in Workers,
         Worker(k) \/ AcceptFails(k) \/ Term(k) \/ Crash(k)
  PROVE  OnePlace' /\ [Service!Next]_(Service!vars)
<1>0. \A V \in WakeChoices : V \subseteq Asleep
  BY DEF WakeChoices
<1>1. CASE Lock(k)
  <2>1. \A j \in Workers : wpc'[j] \in {"none", "lock", "asleep", "accept"} =>
            wpc[j] \in {"none", "lock", "asleep", "accept"}
    BY <1>1 DEF Lock, TypeOK, WorkersTypeOK
  <2> QED
    BY <1>1, <2>1, SameConns DEF Lock
<1>2. CASE Unlock(k)
  <2>1. \A j \in Workers : wpc'[j] \in {"none", "lock", "asleep", "accept"} =>
            wpc[j] \in {"none", "lock", "asleep", "accept"}
    BY <1>0, <1>2 DEF Unlock, Release, Asleep
  <2> QED
    BY <1>2, <2>1, SameConns DEF Unlock
<1>3. CASE Count(k)
  <2>1. \A j \in Workers : wpc'[j] \in {"none", "lock", "asleep", "accept"} =>
            wpc[j] \in {"none", "lock", "asleep", "accept"}
    BY <1>3 DEF Count, TypeOK, WorkersTypeOK
  <2> QED
    BY <1>3, <2>1, SameConns DEF Count
<1>4. CASE Accept(k)
  BY <1>4, AcceptRefines DEF Service!Next
<1>5. CASE AcceptFails(k)
  BY <1>5, AcceptFailsRefines DEF Service!Next
<1>6. CASE Serve(k)
  <2>1. connfd' = [j \in Workers |-> IF j \in {k} THEN None ELSE connfd[j]]
    BY <1>6 DEF Serve, CloseConn, TypeOK, ConnsTypeOK
  <2>2. \A j \in Workers \ {k} : wpc'[j] = wpc[j]
    BY <1>6 DEF Serve, TypeOK, WorkersTypeOK
  <2> QED
    BY <1>6, <2>1, <2>2, EndRefines DEF Serve
<1>7. CASE Term(k) \/ Crash(k)
  <2>1. Die(k) /\ UNCHANGED <<backlog, arrived>>
    BY <1>7 DEF Term, Crash
  <2>2. connfd' = [j \in Workers |-> IF j \in {k} THEN None ELSE connfd[j]]
    BY <2>1 DEF Die, TypeOK, ConnsTypeOK
  <2>3. \A j \in Workers \ {k} : wpc'[j] \in {"none", "lock", "asleep", "accept"} =>
            wpc[j] \in {"none", "lock", "asleep", "accept"}
    BY <1>0, <2>1 DEF Die, Release, Asleep, TypeOK, WorkersTypeOK
  <2> QED
    BY <2>1, <2>2, <2>3, EndRefines
<1> QED
  BY <1>1, <1>2, <1>3, <1>4, <1>5, <1>6, <1>7 DEF Worker

LEMMA NextRefines ==
  TypeOK /\ OnePlace /\ NotMade /\ [Next]_vars => OnePlace' /\ [Service!Next]_(Service!vars)
<1> SUFFICES ASSUME TypeOK, OnePlace, NotMade, [Next]_vars
             PROVE  OnePlace' /\ [Service!Next]_(Service!vars)
  OBVIOUS
<1>1. CASE \E c \in Conns : Arrive(c)
  BY <1>1, ArriveRefines DEF Service!Next
<1>2. CASE UNCHANGED vars
  BY <1>2, SameConns DEF vars
<1> QED
  BY <1>1, <1>2, MainRefines, WorkerRefines DEF Next

\* Whatever the lock, and without one, whoever dies: clients are taken in the order
\* they arrived, each by one worker that has no other connection.
THEOREM PoolImplementsService == Spec => ImplementsService
<1>1. Init => OnePlace /\ NotMade /\ Service!Init
  <2> SUFFICES ASSUME Init PROVE OnePlace /\ NotMade /\ Service!Init
    OBVIOUS
  <2>1. Range(backlog) = {}
    BY DEF Init, Range
  <2>2. OnePlace /\ NotMade
    BY <2>1 DEF Init, OnePlace, NotMade, Waiting
  <2> QED
    BY <2>2 DEF Init, Service!Init
<1> QED
  BY <1>1, InitType, NextType, NextNotMade, NextRefines, PTL
  DEF Spec, ImplementsService, Service!Spec
=============================================================================
