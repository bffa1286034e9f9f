-------------------------- MODULE WebClients_proof --------------------------
(* The counters, the mutex and the descriptors of the web clients, for any  *)
(* number of files and connections.                                         *)
EXTENDS WebClients, FiniteSetTheorems, WellFoundedInduction, TLAPS

\* Which loop belongs to which client.
LoopOfProg ==
    /\ pc \in {"lock", "check", "wait", "collect"} => prog = "webcli02"
    /\ pc = "thr_join" => prog = "webcli01"
    /\ pc \in {"select", "scan"} => prog = "parallel_web"

\* What the flag of a file says of its thread.
FlagsOK ==
    \A f \in Files :
        /\ f_flags[f] = "0" <=> tpc[f] = "none"
        /\ tpc[f] \in {"lock", "unlock"} => prog = "webcli02"
        /\ tpc[f] \in {"main", "main_more"} => prog = "parallel_web"
        /\ tpc[f] \in {"connect", "write", "read", "ended", "fell_off"} =>
               prog # "parallel_web"
        /\ f_flags[f] = "DONE" /\ prog = "webcli02" => tpc[f] \in {"unlock", "ended"}
        /\ f_flags[f] = "READING" /\ prog = "parallel_web" =>
               tpc[f] \in {"main", "main_more"}
        /\ f_flags[f] = "JOINED" /\ prog = "webcli02" => tpc[f] = "joined"
        /\ pc = "scan" /\ f \in rs /\ f >= i => f_flags[f] = "READING"

\* The holder of ndone_mutex.
MutexOK ==
    /\ pc \in {"check", "collect"} => mutex = Main
    /\ \A f \in Files : tpc[f] = "unlock" => mutex = f

\* A descriptor belongs to the thread that knows it.
SocketsOK ==
    /\ \A d \in Fds : sock[d] # Free =>
           fd[sock[d]] = d /\ tpc[sock[d]] \notin {"none", "connect"}
    /\ \A f \in Files : tpc[f] \in {"write", "read", "main", "main_more"} => fd[f] \in Fds

\* Each counter counts the files it is about.
Counts ==
    /\ nconn = Cardinality(Unjoined)
    /\ nlefttoconn = Cardinality(Unstarted)
    /\ nlefttoread = nlefttoconn + nconn
    /\ ndone = IF prog = "webcli02" THEN Cardinality(Announced) ELSE 0

\* When a loop ends it has collected something.
LoopsOK ==
    /\ pc # "nothing_found"
    /\ pc = "collect" => nconn < maxnconn \/ \E f \in Announced : f >= i
    /\ pc = "exit" => nlefttoconn = 0 /\ nconn < IF prog = "parallel_web" THEN 1 ELSE maxnconn

IInv ==
    /\ TypeOK /\ LoopOfProg /\ FlagsOK /\ MutexOK /\ SocketsOK /\ OwnConnection
    /\ Counts /\ LoopsOK

-----------------------------------------------------------------------------
(* Sets of files, and the least number of a set *)

LEMMA Counting ==
  /\ Main \notin Files \cup {Free} /\ nfiles \in Nat /\ maxnconn \in Nat \ {0} /\ Free \notin Files
  /\ \A S \in SUBSET Files :
        /\ IsFiniteSet(S) /\ Cardinality(S) \in 0 .. nfiles
        /\ (Cardinality(S) = 0) <=> (S = {})
  /\ \A S \in SUBSET Files : \A f \in Files \ S : Cardinality(S \cup {f}) = Cardinality(S) + 1
  /\ \A S \in SUBSET Files : \A f \in S : Cardinality(S \ {f}) = Cardinality(S) - 1
<1>1. Main \notin Files \cup {Free} /\ nfiles \in Nat /\ maxnconn \in Nat \ {0} /\ Free \notin Files
  BY SizesAssumption DEF Main, Files, Free
<1>2. IsFiniteSet(Files) /\ Cardinality(Files) = nfiles
  BY <1>1, SizesAssumption, FS_Interval DEF Files
<1>3. \A S \in SUBSET Files : IsFiniteSet(S) /\ Cardinality(S) <= nfiles
  BY <1>2, FS_Subset
<1>4. \A S \in SUBSET Files : Cardinality(S) \in Nat /\ (Cardinality(S) = 0 <=> S = {})
  BY <1>3, FS_CardinalityType, FS_EmptySet
<1>5. \A S \in SUBSET Files : Cardinality(S) \in 0 .. nfiles
  BY <1>1, <1>3, <1>4
<1>6. \A S \in SUBSET Files : \A f \in Files \ S : Cardinality(S \cup {f}) = Cardinality(S) + 1
  BY <1>3, FS_AddElement
<1>7. \A S \in SUBSET Files : \A f \in S : Cardinality(S \ {f}) = Cardinality(S) - 1
  BY <1>3, FS_RemoveElement
<1> QED
  BY <1>1, <1>3, <1>4, <1>5, <1>6, <1>7

LEMMA Minimum ==
  ASSUME NEW S \in SUBSET Nat, S # {}
  PROVE  \E m \in S : \A x \in S : m <= x
<1>1. PICK m \in S : \A x \in S : ~ (<<x, m>> \in OpToRel(<, Nat))
  BY NatLessThanWellFounded, WFMin
<1>2. \A x \in S : ~ (x < m)
  BY <1>1 DEF OpToRel
<1> QED
  BY <1>2

\* The file StartThread or StartConnect is called for is one that was not started.
LEMMA FirstUnstarted ==
  ASSUME Unstarted # {}
  PROVE  (CHOOSE g \in Unstarted : \A h \in Unstarted : g <= h) \in Unstarted
<1>1. Unstarted \in SUBSET Nat
  BY SizesAssumption DEF Unstarted, Files
<1>2. \E g \in Unstarted : \A h \in Unstarted : g <= h
  BY <1>1, Minimum
<1> QED
  BY <1>2

\* A thread that opens a socket owns none yet, so the others cannot own all.
LEMMA NextFdIsFree ==
  ASSUME TypeOK, SocketsOK, NEW f \in Files, tpc[f] \in {"none", "connect"}
  PROVE  NextFd \in Fds /\ sock[NextFd] = Free
<1> DEFINE Frees == {d \in Fds : sock[d] = Free}
<1>1. Frees # {}
  <2> SUFFICES ASSUME Frees = {} PROVE FALSE
    OBVIOUS
  <2>1. sock \in [Fds -> Files \ {f}]
    BY DEF TypeOK, SocketsOK
  <2>2. IsFiniteSet(Files) /\ Cardinality(Files) = nfiles
    BY SizesAssumption, FS_Interval DEF Files
  <2>3. Cardinality(Files \ {f}) = nfiles - 1 /\ IsFiniteSet(Files \ {f})
    BY <2>2, FS_RemoveElement
  <2>4. Cardinality(Files \ {f}) < Cardinality(Fds) /\ IsFiniteSet(Fds)
    BY <2>2, <2>3, SizesAssumption DEF Fds, Files
  <2>5. PICK x, y \in Fds : x # y /\ sock[x] = sock[y]
    BY <2>1, <2>3, <2>4, FS_PigeonHole
  <2> QED
    BY <2>1, <2>5, Counting DEF SocketsOK
<1>2. Frees \in SUBSET Nat
  BY SizesAssumption DEF Fds
<1>3. PICK m \in Frees : \A x \in Frees : m <= x
  BY <1>1, <1>2, Minimum
<1>4. \A e \in 1 .. m - 1 : e \in Fds /\ ~(m <= e)
  BY <1>2, <1>3, SizesAssumption DEF Fds
<1>5. \A e \in 1 .. m - 1 : sock[e] # Free
  BY <1>3, <1>4
<1>6. \E d \in Fds : sock[d] = Free /\ \A e \in 1 .. d - 1 : sock[e] # Free
  BY <1>3, <1>5
<1> QED
  BY <1>6 DEF NextFd

-----------------------------------------------------------------------------
(* The counters: a step starts a file, collects one, announces one, or leaves *)
(* the three sets as they are                                                 *)

LEMMA StartCounts ==
  ASSUME IInv, Start, pc' # "refused"
  PROVE  \E f \in Unstarted :
            /\ Unstarted' = Unstarted \ {f} /\ Unjoined' = Unjoined \cup {f}
            /\ f \notin Unjoined /\ Announced' = Announced
            /\ nconn' = nconn + 1 /\ nlefttoconn' = nlefttoconn - 1
            /\ UNCHANGED <<nlefttoread, ndone, prog>>
<1> DEFINE f == CHOOSE g \in Unstarted : \A h \in Unstarted : g <= h
<1>1. Unstarted # {}
  BY Counting DEF IInv, Counts, Start, MayStart, TypeOK, Unstarted
<1>2. f \in Unstarted
  BY <1>1, FirstUnstarted
<1> HIDE DEF f
<1>3. StartThread(f) \/ StartConnect(f)
  BY <1>1 DEF Start, f
<1>4. /\ f_flags' = [f_flags EXCEPT ![f] = "CONNECTING"] \/
         f_flags' = [f_flags EXCEPT ![f] = "READING"]
      /\ tpc' = [tpc EXCEPT ![f] = "connect"] \/ tpc' = [tpc EXCEPT ![f] = "main"]
      /\ nconn' = nconn + 1 /\ nlefttoconn' = nlefttoconn - 1
  BY <1>3 DEF StartThread, StartConnect
<1>5. f \in Files /\ f_flags[f] = "0" /\ tpc[f] = "none"
  BY <1>2 DEF IInv, FlagsOK, Unstarted
<1>6. Unstarted' = Unstarted \ {f}
  BY <1>4, <1>5 DEF IInv, TypeOK, Unstarted
<1>7. Unjoined' = Unjoined \cup {f} /\ f \notin Unjoined
  BY <1>4, <1>5 DEF IInv, TypeOK, Unjoined
<1>8. Announced' = Announced
  BY <1>4, <1>5 DEF IInv, TypeOK, Announced
<1> QED
  BY <1>2, <1>4, <1>6, <1>7, <1>8 DEF Start

\* main collects the file f.
Collects(f) == (Join /\ i = f) \/ ThrJoin(f) \/ (ReadEof /\ i = f)

LEMMA CollectCounts ==
  ASSUME IInv, NEW f \in Files,
         Collects(f)
  PROVE  /\ Unstarted' = Unstarted /\ Unjoined' = Unjoined \ {f} /\ f \in Unjoined
         /\ prog = "webcli02" => f \in Announced /\ Announced' = Announced \ {f}
         /\ nconn' = nconn - 1 /\ nlefttoread' = nlefttoread - 1
         /\ ndone' = IF prog = "webcli02" THEN ndone - 1 ELSE ndone
         /\ UNCHANGED <<nlefttoconn, prog>>
<1>1. CASE Join /\ i = f
  <2>1. f_flags' = [f_flags EXCEPT ![f] = "JOINED"] /\ tpc' = [tpc EXCEPT ![f] = "joined"]
    BY <1>1 DEF Join
  <2>2. f_flags[f] = "DONE" /\ tpc[f] = "ended" /\ prog = "webcli02"
    BY <1>1 DEF Join, IInv, LoopOfProg
  <2>3. Unstarted' = Unstarted
    BY <2>1, <2>2 DEF IInv, TypeOK, Unstarted
  <2>4. Unjoined' = Unjoined \ {f} /\ f \in Unjoined
    BY <2>1, <2>2 DEF IInv, TypeOK, Unjoined
  <2>5. f \in Announced /\ Announced' = Announced \ {f}
    BY <2>1, <2>2 DEF IInv, TypeOK, Announced
  <2> QED
    BY <1>1, <2>2, <2>3, <2>4, <2>5 DEF Join
<1>2. CASE ThrJoin(f)
  <2>1. tpc' = [tpc EXCEPT ![f] = "joined"] /\ f_flags' = f_flags
    BY <1>2 DEF ThrJoin
  <2>2. tpc[f] \in {"ended", "fell_off"} /\ prog = "webcli01"
    BY <1>2 DEF ThrJoin, IInv, LoopOfProg
  <2>3. Unstarted' = Unstarted
    BY <2>1 DEF Unstarted
  <2>4. Unjoined' = Unjoined \ {f} /\ f \in Unjoined
    BY <2>1, <2>2 DEF IInv, TypeOK, Unjoined
  <2> QED
    BY <1>2, <2>2, <2>3, <2>4 DEF ThrJoin
<1>3. CASE ReadEof /\ i = f
  <2>1. f_flags' = [f_flags EXCEPT ![f] = "DONE"] /\ tpc' = [tpc EXCEPT ![f] = "joined"]
    BY <1>3 DEF ReadEof
  <2>2. prog = "parallel_web" /\ f_flags[f] = "READING"
    BY <1>3, SizesAssumption DEF ReadEof, IInv, LoopOfProg, FlagsOK, Files
  <2>3. tpc[f] \in {"main", "main_more"}
    BY <2>2 DEF IInv, FlagsOK
  <2>4. Unstarted' = Unstarted
    BY <2>1, <2>2 DEF IInv, TypeOK, Unstarted
  <2>5. Unjoined' = Unjoined \ {f} /\ f \in Unjoined
    BY <2>1, <2>3 DEF IInv, TypeOK, Unjoined
  <2> QED
    BY <1>3, <2>2, <2>4, <2>5 DEF ReadEof
<1> QED
  BY <1>1, <1>2, <1>3 DEF Collects

LEMMA AnnounceCounts ==
  ASSUME IInv, NEW f \in Files, Announce(f)
  PROVE  /\ Unstarted' = Unstarted /\ Unjoined' = Unjoined
         /\ prog = "webcli02" /\ f \notin Announced /\ Announced' = Announced \cup {f}
         /\ ndone' = ndone + 1 /\ UNCHANGED <<counts, prog>>
<1>1. f_flags' = [f_flags EXCEPT ![f] = "DONE"] /\ tpc' = [tpc EXCEPT ![f] = "unlock"]
  BY DEF Announce
<1>2. tpc[f] = "lock" /\ prog = "webcli02"
  BY DEF Announce, IInv, FlagsOK
<1>3. f_flags[f] \notin {"DONE", "0"}
  BY <1>2 DEF IInv, FlagsOK
<1>4. Unstarted' = Unstarted
  BY <1>1, <1>3 DEF IInv, TypeOK, Unstarted
<1>5. Unjoined' = Unjoined
  BY <1>1, <1>2 DEF IInv, TypeOK, Unjoined
<1>6. f \notin Announced /\ Announced' = Announced \cup {f}
  BY <1>1, <1>3 DEF IInv, TypeOK, Announced
<1> QED
  BY <1>2, <1>4, <1>5, <1>6 DEF Announce

\* Every other step.
NoCount ==
    \/ HomePage \/ (Start /\ pc' = "refused") \/ Filled \/ MainLock \/ Check \/ NotDone
    \/ MainUnlock \/ Select \/ ReadMore \/ NotReady \/ Scanned \/ SpuriousWakeup
    \/ \E f \in Files : Connect(f) \/ Write(f) \/ Read(f) \/ ReadNothing(f) \/ Unlock(f)

LEMMA OthersCount ==
  ASSUME IInv, NoCount
  PROVE  /\ Unstarted' = Unstarted /\ Unjoined' = Unjoined
         /\ prog = "webcli02" => Announced' = Announced
         /\ UNCHANGED <<counts, ndone, prog>>
<1>1. CASE HomePage \/ Filled \/ MainLock \/ Check \/ NotDone \/ MainUnlock \/ Select
           \/ NotReady \/ Scanned \/ SpuriousWakeup
  BY <1>1 DEF HomePage, Filled, MainLock, Check, NotDone, MainUnlock, Select, NotReady,
              Scanned, SpuriousWakeup, thread, Unstarted, Unjoined, Announced
<1>2. CASE Start /\ pc' = "refused"
  <2>1. Unstarted # {} /\ pc = "fill"
    BY <1>2 DEF Start
  <2>2. f_flags' = f_flags /\ tpc' = tpc /\ UNCHANGED <<counts, ndone, prog>>
    BY <1>2, <2>1 DEF Start, StartThread, StartConnect, counts
  <2> QED
    BY <2>2 DEF Unstarted, Unjoined, Announced
<1>3. CASE ReadMore
  <2>1. tpc[i] = "main" /\ tpc' = [tpc EXCEPT ![i] = "main_more"] /\ f_flags' = f_flags
    BY <1>3 DEF ReadMore
  <2>2. Unjoined' = Unjoined
    BY <2>1 DEF IInv, TypeOK, Unjoined
  <2> QED
    BY <1>3, <2>1, <2>2 DEF ReadMore, Unstarted, Announced
<1>4. ASSUME NEW f \in Files, Connect(f) \/ Write(f) \/ Read(f) \/ ReadNothing(f) \/ Unlock(f)
      PROVE  /\ Unstarted' = Unstarted /\ Unjoined' = Unjoined
             /\ prog = "webcli02" => Announced' = Announced
             /\ UNCHANGED <<counts, ndone, prog>>
  <2>1. UNCHANGED <<counts, ndone, prog>>
    BY <1>4 DEF Connect, Write, Read, ReadNothing, Unlock
  <2>2. \/ tpc' = tpc
        \/ /\ tpc[f] \notin {"none", "joined"}
           /\ \E t \in {"write", "read", "lock", "ended", "fell_off"} :
                  tpc' = [tpc EXCEPT ![f] = t]
    BY <1>4 DEF Connect, Write, Read, ReadNothing, Unlock
  <2>3. Unjoined' = Unjoined
    BY <2>2 DEF IInv, TypeOK, Unjoined
  <2>4. \/ f_flags' = f_flags
        \/ /\ tpc[f] \in {"write", "read"}
           /\ \/ f_flags' = [f_flags EXCEPT ![f] = "READING"]
              \/ f_flags' = [f_flags EXCEPT ![f] = "DONE"] /\ prog # "webcli02"
    BY <1>4 DEF Connect, Write, Read, ReadNothing, Unlock, MarksDone
  <2>5. tpc[f] \in {"write", "read"} =>
            f_flags[f] # "0" /\ (prog = "webcli02" => f_flags[f] # "DONE")
    BY DEF IInv, FlagsOK
  <2>6. Unstarted' = Unstarted
    BY <2>4, <2>5 DEF IInv, TypeOK, Unstarted
  <2>7. prog = "webcli02" => Announced' = Announced
    BY <2>4, <2>5 DEF IInv, TypeOK, Announced
  <2> QED
    BY <2>1, <2>3, <2>6, <2>7
<1> QED
  BY <1>1, <1>2, <1>3, <1>4 DEF NoCount

\* What kind of step it is.
LEMMA Kinds ==
  ASSUME IInv, Next
  PROVE  \/ Start /\ pc' # "refused"
         \/ \E f \in Files : Collects(f)
         \/ \E f \in Files : Announce(f)
         \/ NoCount
<1>1. Join => i \in Files
  BY DEF Join
<1>2. ReadEof => i \in Files
  BY DEF ReadEof, IInv, TypeOK
<1>3. ASSUME MainStep
      PROVE  \/ Start /\ pc' # "refused"
             \/ \E f \in Files : Collects(f)
             \/ NoCount
  <2>1. \/ \E f \in Files : ThrJoin(f)
        \/ Join \/ ReadEof \/ Start \/ NoCount
    BY <1>3 DEF MainStep, NoCount
  <2>2. Start => pc' # "refused" \/ NoCount
    BY DEF NoCount
  <2>3. Join \/ ReadEof =>
            \E f \in Files : Collects(f)
    BY <1>1, <1>2 DEF Collects
  <2>4. (\E f \in Files : ThrJoin(f)) => \E f \in Files : Collects(f)
    BY DEF Collects
  <2> QED
    BY <2>1, <2>2, <2>3, <2>4
<1>4. ASSUME NEW f \in Files, Thread(f) PROVE Announce(f) \/ NoCount
  BY <1>4 DEF Thread, NoCount
<1> QED
  BY <1>3, <1>4 DEF Next, NoCount

\* The counters after any step, and their ranges.
LEMMA CountsStep ==
  ASSUME IInv, Next
  PROVE  /\ Counts' /\ nconn' \in 0 .. maxnconn /\ nlefttoconn' \in 0 .. nfiles
         /\ ndone' \in 0 .. nfiles /\ nlefttoread' \in Nat
         /\ prog' = prog
<1> USE Counting
<1> DEFINE Result == /\ Counts' /\ nconn' \in 0 .. maxnconn /\ prog' = prog
<1>0. /\ Unstarted \in SUBSET Files /\ Unjoined \in SUBSET Files /\ Announced \in SUBSET Files
      /\ nconn \in 0 .. maxnconn
  BY DEF Unstarted, Unjoined, Announced, IInv, TypeOK
<1>1. ASSUME Start, pc' # "refused" PROVE Result
  <2>1. nconn < maxnconn
    BY <1>1 DEF Start, MayStart
  <2>2. PICK f \in Unstarted :
            /\ Unstarted' = Unstarted \ {f} /\ Unjoined' = Unjoined \cup {f}
            /\ f \notin Unjoined /\ Announced' = Announced
            /\ nconn' = nconn + 1 /\ nlefttoconn' = nlefttoconn - 1
            /\ UNCHANGED <<nlefttoread, ndone, prog>>
    BY <1>1, StartCounts
  <2>3. Cardinality(Unjoined') = Cardinality(Unjoined) + 1
    BY <1>0, <2>2
  <2>4. Cardinality(Unstarted') = Cardinality(Unstarted) - 1
    BY <1>0, <2>2
  <2>5. nconn' \in 0 .. maxnconn
    BY <1>0, <2>1, <2>2
  <2>6. nlefttoconn \in Nat /\ nconn \in Nat /\ nlefttoread = nlefttoconn + nconn
    BY <1>0 DEF IInv, Counts
  <2>7. nlefttoread' = nlefttoconn' + nconn'
    BY <2>2, <2>6
  <2> QED
    BY <2>2, <2>3, <2>4, <2>5, <2>7 DEF IInv, Counts
<1>2. ASSUME NEW f \in Files, Collects(f)
      PROVE  Result
  <2>1. /\ Unstarted' = Unstarted /\ Unjoined' = Unjoined \ {f} /\ f \in Unjoined
        /\ prog = "webcli02" => f \in Announced /\ Announced' = Announced \ {f}
        /\ nconn' = nconn - 1 /\ nlefttoread' = nlefttoread - 1
        /\ ndone' = IF prog = "webcli02" THEN ndone - 1 ELSE ndone
        /\ UNCHANGED <<nlefttoconn, prog>>
    BY <1>2, CollectCounts
  <2>2. Cardinality(Unjoined') = Cardinality(Unjoined) - 1
    BY <1>0, <2>1
  <2>3. prog = "webcli02" => Cardinality(Announced') = Cardinality(Announced) - 1
    BY <1>0, <2>1
  <2>4. Cardinality(Unjoined') \in Nat
    BY <1>0, <2>1
  <2> QED
    BY <1>0, <2>1, <2>2, <2>3, <2>4 DEF IInv, Counts
<1>3. ASSUME NEW f \in Files, Announce(f) PROVE Result
  <2>1. /\ Unstarted' = Unstarted /\ Unjoined' = Unjoined
        /\ prog = "webcli02" /\ f \notin Announced /\ Announced' = Announced \cup {f}
        /\ ndone' = ndone + 1 /\ UNCHANGED <<counts, prog>>
    BY <1>3, AnnounceCounts
  <2>2. Cardinality(Announced') = Cardinality(Announced) + 1
    BY <1>0, <2>1
  <2> QED
    BY <1>0, <2>1, <2>2 DEF IInv, Counts, counts
<1>4. ASSUME NoCount PROVE Result
  BY <1>0, <1>4, OthersCount DEF IInv, Counts, counts
<1>5. Result
  BY <1>1, <1>2, <1>3, <1>4, Kinds
<1>6. Unstarted' \in SUBSET Files /\ Unjoined' \in SUBSET Files /\ Announced' \in SUBSET Files
  BY DEF Unstarted, Unjoined, Announced
<1>7. nlefttoconn' \in 0 .. nfiles /\ ndone' \in 0 .. nfiles
  BY <1>5, <1>6 DEF Counts
<1>8. nlefttoread' \in Nat
  BY <1>5, <1>7 DEF Counts
<1> QED
  BY <1>5, <1>7, <1>8

-----------------------------------------------------------------------------
(* The other parts of the invariant *)

LEMMA TypesStep ==
  ASSUME IInv, Next
  PROVE  TypeOK'
<1> USE Counting DEF IInv
<1> DEFINE Places == /\ pc' \in {"home", "fill", "lock", "check", "wait", "collect",
                                 "thr_join", "select", "scan"} \cup Ended
                     /\ i' \in 1 .. nfiles + 1 /\ rs' \subseteq Files
                     /\ spurious' \in Nat
<1> DEFINE Tables == /\ tpc' \in [Files -> {"none", "connect", "write", "read", "lock",
                            "unlock", "ended", "fell_off", "joined", "main", "main_more"}]
                     /\ f_flags' \in [Files -> {"0", "CONNECTING", "READING", "DONE",
                                                "JOINED"}]
                     /\ mutex' \in {Free, Main} \cup Files
<1> DEFINE Sockets == /\ fd' \in [Files -> Fds \cup {Free}]
                      /\ sock' \in [Fds -> Files \cup {Free}]
                      /\ refused' \in BOOLEAN
<1>1. \A k : k \in Files => k \in 1 .. nfiles + 1 /\ k + 1 \in 1 .. nfiles + 1
  BY DEF Files
<1>2. 1 \in 1 .. nfiles + 1
  OBVIOUS
<1>3. ASSUME HomePage \/ Filled \/ MainLock \/ Check \/ NotDone \/ MainUnlock \/ Select
             \/ NotReady \/ Scanned \/ SpuriousWakeup
      PROVE  Places /\ Tables /\ Sockets
  <2>1. UNCHANGED thread /\ mutex' \in {mutex, Free, Main}
    BY <1>3 DEF HomePage, Filled, MainLock, Check, NotDone, MainUnlock, Select, NotReady,
                Scanned, SpuriousWakeup
  <2>2. Tables /\ Sockets
    BY <2>1 DEF TypeOK, thread, sockets
  <2>3. pc' \in {"home", "fill", "lock", "check", "wait", "collect", "thr_join", "select",
                 "scan"} \cup Ended
    BY <1>3 DEF HomePage, Filled, MainLock, Check, NotDone, MainUnlock, Select, NotReady,
                Scanned, SpuriousWakeup, TypeOK, Ended, Again
  <2>4. i' = i \/ i' = 1 \/ (i \in Files /\ i' = i + 1)
    BY <1>3 DEF HomePage, Filled, MainLock, Check, NotDone, MainUnlock, Select, NotReady,
                Scanned, SpuriousWakeup, Collected
  <2>5. i' \in 1 .. nfiles + 1
    BY <1>1, <1>2, <2>4 DEF TypeOK
  <2>6. rs' = rs \/ rs' \subseteq Files
    BY <1>3 DEF HomePage, Filled, MainLock, Check, NotDone, MainUnlock, Select, NotReady,
                Scanned, SpuriousWakeup, Reading
  <2>7. spurious' \in Nat
    BY <1>3 DEF HomePage, Filled, MainLock, Check, NotDone, MainUnlock, Select, NotReady,
                Scanned, SpuriousWakeup, TypeOK
  <2> QED
    BY <2>2, <2>3, <2>5, <2>6, <2>7 DEF TypeOK
<1>4. ASSUME Start PROVE Places /\ Tables /\ Sockets
  <2> DEFINE f == CHOOSE g \in Unstarted : \A h \in Unstarted : g <= h
  <2>1. Unstarted # {} => f \in Files /\ f_flags[f] = "0"
    BY FirstUnstarted DEF Unstarted
  <2> HIDE DEF f
  <2>2. \/ UNCHANGED thread
        \/ f \in Files /\ f_flags[f] = "0" /\ (StartThread(f) \/ StartConnect(f))
    BY <1>4, <2>1 DEF Start, f
  <2>3. CASE UNCHANGED thread
    <3>1. Tables /\ Sockets
      BY <1>4, <2>3 DEF TypeOK, thread, sockets, Start
    <3>2. pc' \in {"nothing_found", "refused", pc}
      BY <1>4 DEF Start, StartThread, StartConnect
    <3> QED
      BY <1>4, <3>1, <3>2 DEF Start, TypeOK, Ended
  <2>4. CASE f \in Files /\ f_flags[f] = "0" /\ (StartThread(f) \/ StartConnect(f))
    <3>1. NextFd \in Fds
      BY <2>4, NextFdIsFree DEF FlagsOK
    <3>2. Tables
      BY <1>4, <2>4 DEF Start, StartThread, StartConnect, TypeOK
    <3>3. Sockets
      BY <2>4, <3>1 DEF StartThread, StartConnect, Opened, sockets, TypeOK
    <3>4. pc' \in {"refused", pc}
      BY <2>4 DEF StartThread, StartConnect
    <3> QED
      BY <1>4, <3>2, <3>3, <3>4 DEF Start, TypeOK, Ended
  <2> QED
    BY <2>2, <2>3, <2>4
<1>5. ASSUME NEW f \in Files, Collects(f) PROVE Places /\ Tables /\ Sockets
  <2>1. pc' = pc \/ pc' \in {"fill", "exit", "undefined"}
    BY <1>5 DEF Collects, Join, ThrJoin, ReadEof, Again
  <2>2. (i' = i \/ (i \in Files /\ i' = i + 1)) /\ rs' = rs /\ spurious' = spurious
    BY <1>5 DEF Collects, Join, ThrJoin, ReadEof, Collected, TypeOK
  <2>3. Places
    BY <1>1, <2>1, <2>2 DEF TypeOK, Ended
  <2>4. Tables
    BY <1>5 DEF Collects, Join, ThrJoin, ReadEof, TypeOK
  <2>5. UNCHANGED sockets \/ Close(f)
    BY <1>5 DEF Collects, Join, ThrJoin, ReadEof
  <2>6. Sockets
    BY <2>5 DEF sockets, Close, TypeOK
  <2> QED
    BY <2>3, <2>4, <2>6
<1>6. ASSUME ReadMore PROVE Places /\ Tables /\ Sockets
  <2>1. i \in Files
    BY <1>6 DEF ReadMore, TypeOK
  <2> QED
    BY <1>1, <1>6, <2>1 DEF ReadMore, sockets, TypeOK
<1>7. ASSUME NEW f \in Files, Thread(f) PROVE Places /\ Tables /\ Sockets
  <2>1. pc' \in {pc, "writen_error", "lock"} /\ UNCHANGED <<i, rs, spurious>>
    BY <1>7 DEF Thread, Connect, Write, Read, ReadNothing, Announce, Unlock
  <2>2. Places
    BY <2>1 DEF TypeOK, Ended
  <2>3. Tables
    BY <1>7 DEF Thread, Connect, Write, Read, ReadNothing, Announce, Unlock, TypeOK
  <2>4. \/ UNCHANGED sockets
        \/ Close(f)
        \/ /\ tpc[f] = "connect" /\ fd' = [fd EXCEPT ![f] = NextFd]
           /\ \/ sock' = [sock EXCEPT ![NextFd] = f] /\ UNCHANGED refused
              \/ UNCHANGED sock /\ refused' = TRUE
    BY <1>7 DEF Thread, Connect, Write, Read, ReadNothing, Announce, Unlock, Opened
  <2>5. tpc[f] = "connect" => NextFd \in Fds
    BY NextFdIsFree
  <2>6. ASSUME UNCHANGED sockets \/ Close(f) PROVE Sockets
    <3>1. UNCHANGED <<fd, refused>>
      BY <2>6 DEF sockets, Close
    <3>2. sock' \in [Fds -> Files \cup {Free}]
      BY <2>6 DEF sockets, Close, TypeOK
    <3> QED
      BY <3>1, <3>2 DEF TypeOK
  <2>7. ASSUME tpc[f] = "connect", fd' = [fd EXCEPT ![f] = NextFd],
               \/ sock' = [sock EXCEPT ![NextFd] = f] /\ UNCHANGED refused
               \/ UNCHANGED sock /\ refused' = TRUE
        PROVE  Sockets
    <3>1. fd' \in [Files -> Fds \cup {Free}]
      BY <2>5, <2>7 DEF TypeOK
    <3>2. sock' \in [Fds -> Files \cup {Free}]
      BY <2>7 DEF TypeOK
    <3>3. refused' \in BOOLEAN
      BY <2>7 DEF TypeOK
    <3> QED
      BY <3>1, <3>2, <3>3
  <2> QED
    BY <2>2, <2>3, <2>4, <2>6, <2>7
<1> HIDE DEF Places, Tables, Sockets
<1>8. Places /\ Tables /\ Sockets
  <2>1. Join \/ ReadEof => i \in Files /\ Collects(i)
    BY DEF Join, ReadEof, Collects, TypeOK
  <2>2. \A f \in Files : ThrJoin(f) => Collects(f)
    BY DEF Collects
  <2>3. Join \/ ReadEof => Places /\ Tables /\ Sockets
    BY <1>5, <2>1
  <2>4. (\E f \in Files : ThrJoin(f)) => Places /\ Tables /\ Sockets
    BY <1>5, <2>2
  <2>5. MainStep => Places /\ Tables /\ Sockets
    BY <1>3, <1>4, <1>6, <2>3, <2>4 DEF MainStep
  <2>6. (\E f \in Files : Thread(f)) => Places /\ Tables /\ Sockets
    BY <1>7
  <2> QED
    BY <1>3, <2>5, <2>6 DEF Next
<1>9. nlefttoread' \in 0 .. nfiles
  <2>1. nlefttoread' \in Nat /\ nlefttoread' <= nlefttoread
    <3>1. nlefttoread \in Nat
      BY DEF TypeOK
    <3>2. nlefttoread' = nlefttoread \/ nlefttoread' = nlefttoread - 1
      BY Kinds, StartCounts, CollectCounts, AnnounceCounts, OthersCount DEF counts
    <3> QED
      BY <3>1, <3>2, CountsStep
  <2> QED
    BY <2>1 DEF TypeOK
<1> QED
  BY <1>8, <1>9, CountsStep DEF TypeOK, Places, Tables, Sockets

LEMMA FlagsStep ==
  ASSUME IInv, Next
  PROVE  LoopOfProg' /\ FlagsOK' /\ MutexOK'
<1> USE Counting DEF IInv
<1>1. LoopOfProg'
  <2>1. MainStep \/ SpuriousWakeup => LoopOfProg'
    BY DEF MainStep, SpuriousWakeup, HomePage, Start, Filled, MainLock, Check, Join,
           NotDone, MainUnlock, ThrJoin, Select, ReadMore, ReadEof, NotReady, Scanned,
           StartThread, StartConnect, Again, LoopOfProg, TypeOK
  <2>2. ASSUME NEW f \in Files, Thread(f) PROVE LoopOfProg'
    BY <2>2 DEF Thread, Connect, Write, Read, ReadNothing, Announce, Unlock, LoopOfProg
  <2> QED
    BY <2>1, <2>2 DEF Next
<1>2. ASSUME HomePage \/ Filled \/ Check \/ MainLock \/ NotDone \/ MainUnlock \/ Select
             \/ NotReady \/ Scanned \/ SpuriousWakeup
      PROVE  FlagsOK' /\ MutexOK'
  <2>1. UNCHANGED <<tpc, f_flags, prog>>
    BY <1>2 DEF HomePage, Filled, MainLock, Check, NotDone, MainUnlock, Select, NotReady,
                Scanned, SpuriousWakeup, thread
  <2>2. pc' = "scan" => \/ pc = "select" /\ rs' \subseteq Reading
                        \/ pc = "scan" /\ rs' = rs /\ i \in Files /\ i' = i + 1
    BY <1>2 DEF HomePage, Filled, MainLock, Check, NotDone, MainUnlock, Select, NotReady,
                Scanned, SpuriousWakeup, Again
  <2>3. \A f \in Files : f >= i + 1 /\ i \in Files => f >= i
    BY DEF Files
  <2>4. FlagsOK'
    BY <2>1, <2>2, <2>3 DEF FlagsOK, Reading
  <2>5. MutexOK'
    BY <1>2, <2>1 DEF HomePage, Filled, MainLock, Check, NotDone, MainUnlock, Select,
                NotReady, Scanned, SpuriousWakeup, Again, MutexOK
  <2> QED
    BY <2>4, <2>5
<1>3. ASSUME Start PROVE FlagsOK' /\ MutexOK'
  <2> DEFINE f == CHOOSE g \in Unstarted : \A h \in Unstarted : g <= h
  <2>1. Unstarted # {} => f \in Files
    BY FirstUnstarted DEF Unstarted
  <2> HIDE DEF f
  <2>2. \/ UNCHANGED <<tpc, f_flags>>
        \/ /\ f \in Files
           /\ \/ prog = "parallel_web" /\ StartConnect(f)
              \/ prog # "parallel_web" /\ StartThread(f)
    BY <1>3, <2>1 DEF Start, f, thread
  <2>3. pc' \in {"fill", "nothing_found", "refused"} /\ prog' = prog /\ mutex' = mutex
    BY <1>3 DEF Start, StartThread, StartConnect
  <2>4. CASE UNCHANGED <<tpc, f_flags>>
    BY <2>3, <2>4 DEF FlagsOK, MutexOK
  <2>5. CASE f \in Files /\ prog = "parallel_web" /\ StartConnect(f)
    BY <2>3, <2>5 DEF StartConnect, FlagsOK, MutexOK, TypeOK
  <2>6. CASE f \in Files /\ prog # "parallel_web" /\ StartThread(f)
    BY <2>3, <2>6 DEF StartThread, FlagsOK, MutexOK, TypeOK
  <2> QED
    BY <2>2, <2>4, <2>5, <2>6
<1>4. ASSUME NEW f \in Files, Collects(f) PROVE FlagsOK' /\ MutexOK'
  <2>1. CASE Join /\ i = f
    BY <2>1 DEF Join, FlagsOK, MutexOK, LoopOfProg, TypeOK
  <2>2. CASE ThrJoin(f)
    <3>1. prog = "webcli01" /\ pc' \in {"fill", "exit", "undefined"}
      BY <2>2 DEF ThrJoin, LoopOfProg, Again
    <3> QED
      BY <2>2, <3>1 DEF ThrJoin, FlagsOK, MutexOK, TypeOK
  <2>3. CASE ReadEof /\ i = f
    <3>1. prog = "parallel_web" /\ pc = "scan" /\ pc' = "scan"
      BY <2>3 DEF ReadEof, LoopOfProg
    <3>2. \A g \in Files : g >= i' => g >= i /\ g # i
      BY <2>3 DEF ReadEof, Files
    <3> QED
      BY <2>3, <3>1, <3>2 DEF ReadEof, FlagsOK, MutexOK, TypeOK
  <2> QED
    BY <1>4, <2>1, <2>2, <2>3 DEF Collects
<1>5. ASSUME ReadMore PROVE FlagsOK' /\ MutexOK'
  <2>1. i \in Files /\ prog = "parallel_web"
    BY <1>5 DEF ReadMore, TypeOK, LoopOfProg
  <2>2. \A g \in Files : g >= i' => g >= i
    BY <1>5, <2>1 DEF ReadMore, Files
  <2> QED
    BY <1>5, <2>1, <2>2 DEF ReadMore, FlagsOK, MutexOK, TypeOK
<1>6. ASSUME NEW f \in Files, Thread(f) PROVE FlagsOK' /\ MutexOK'
  <2>1. prog # "parallel_web" /\ pc # "scan"
    BY <1>6 DEF Thread, Connect, Write, Read, ReadNothing, Announce, Unlock, FlagsOK,
                LoopOfProg
  <2>2. CASE Connect(f)
    BY <2>1, <2>2 DEF Connect, FlagsOK, MutexOK, TypeOK
  <2>3. CASE Write(f)
    BY <2>1, <2>3 DEF Write, FlagsOK, MutexOK, TypeOK
  <2>4. CASE Read(f)
    BY <2>1, <2>4 DEF Read, MarksDone, FlagsOK, MutexOK, TypeOK
  <2>5. CASE ReadNothing(f)
    BY <2>1, <2>5 DEF ReadNothing, FlagsOK, MutexOK, TypeOK
  <2>6. CASE Announce(f)
    <3>1. FlagsOK'
      BY <2>1, <2>6 DEF Announce, FlagsOK, TypeOK
    <3>2. mutex = Free /\ mutex' = f /\ tpc' = [tpc EXCEPT ![f] = "unlock"]
      BY <2>6 DEF Announce
    <3>3. pc' \notin {"check", "collect"}
      BY <2>6, <3>2 DEF Announce, MutexOK
    <3>4. \A g \in Files : tpc[g] # "unlock"
      BY <3>2 DEF MutexOK
    <3>5. MutexOK'
      BY <3>2, <3>3, <3>4 DEF MutexOK, TypeOK
    <3> QED
      BY <3>1, <3>5
  <2>7. CASE Unlock(f)
    BY <2>1, <2>7 DEF Unlock, FlagsOK, MutexOK, TypeOK
  <2> QED
    BY <1>6, <2>2, <2>3, <2>4, <2>5, <2>6, <2>7 DEF Thread
<1> HIDE DEF IInv
<1>7. Join \/ ReadEof => i \in Files /\ Collects(i)
  BY DEF Join, ReadEof, Collects, TypeOK, IInv
<1>8. \A f \in Files : ThrJoin(f) => Collects(f)
  BY DEF Collects
<1>9. MainStep => FlagsOK' /\ MutexOK'
  BY <1>2, <1>3, <1>4, <1>5, <1>7, <1>8 DEF MainStep
<1>10. FlagsOK' /\ MutexOK'
  BY <1>2, <1>6, <1>9 DEF Next
<1> QED
  BY <1>1, <1>10

\* Only the thread that knows a descriptor opens or closes it.
LEMMA SocketsStep ==
  ASSUME IInv, Next
  PROVE  SocketsOK' /\ OwnConnection'
<1> USE Counting DEF IInv
<1> DEFINE Talks == {"write", "read", "main", "main_more"}
<1>0. \A f \in Files : tpc[f] \in Talks => fd[f] \in Fds
  BY DEF SocketsOK
<1>1. ASSUME UNCHANGED sockets,
             \A f \in Files : tpc[f] \notin {"none", "connect"} =>
                                  tpc'[f] \notin {"none", "connect"},
             \A f \in Files : tpc'[f] \in Talks => tpc[f] \in Talks
      PROVE  SocketsOK' /\ OwnConnection'
  BY <1>1 DEF sockets, SocketsOK, OwnConnection, TypeOK
<1>2. ASSUME NEW f \in Files, tpc[f] \in {"none", "connect"}, Opened(f),
             NEW t \in Talks, tpc' = [tpc EXCEPT ![f] = t]
      PROVE  SocketsOK' /\ OwnConnection'
  <2>1. NextFd \in Fds /\ sock[NextFd] = Free
    BY <1>2, NextFdIsFree
  <2>2. \A d \in Fds : sock[d] # f
    BY <1>2 DEF SocketsOK
  <2>3. /\ fd' = [fd EXCEPT ![f] = NextFd] /\ sock' = [sock EXCEPT ![NextFd] = f]
        /\ UNCHANGED refused
    BY <1>2 DEF Opened
  <2> HIDE DEF NextFd
  <2>4. SocketsOK'
    BY <1>2, <2>1, <2>2, <2>3 DEF SocketsOK, TypeOK
  <2>5. OwnConnection'
    BY <1>2, <2>1, <2>2, <2>3 DEF OwnConnection, TypeOK
  <2> QED
    BY <2>4, <2>5
<1>3. ASSUME NEW f \in Files, tpc[f] \in Talks, Close(f),
             NEW t \in {"joined", "ended", "lock"}, tpc' = [tpc EXCEPT ![f] = t]
      PROVE  SocketsOK' /\ OwnConnection'
  <2>1. fd[f] \in Fds /\ sock' = [sock EXCEPT ![fd[f]] = Free] /\ UNCHANGED <<fd, refused>>
    BY <1>0, <1>3 DEF Close
  <2>2. SocketsOK'
    BY <1>3, <2>1 DEF SocketsOK, TypeOK
  <2>3. ~refused => \A g \in Files : g # f /\ tpc[g] \in Talks => fd[g] # fd[f]
    BY <1>3 DEF OwnConnection
  <2>4. OwnConnection'
    BY <1>3, <2>1, <2>3 DEF OwnConnection, TypeOK
  <2> QED
    BY <2>2, <2>4
<1>4. ASSUME MainStep \/ SpuriousWakeup PROVE SocketsOK' /\ OwnConnection'
  <2>1. CASE Start
    <3> DEFINE f == CHOOSE g \in Unstarted : \A h \in Unstarted : g <= h
    <3>1. Unstarted # {} => f \in Files /\ tpc[f] = "none"
      BY FirstUnstarted DEF Unstarted, FlagsOK
    <3> HIDE DEF f
    <3>2. \/ UNCHANGED <<tpc, sockets>>
          \/ f \in Files /\ tpc[f] = "none" /\ (StartThread(f) \/ StartConnect(f))
      BY <2>1, <3>1 DEF Start, f, thread
    <3>3. CASE f \in Files /\ tpc[f] = "none" /\ StartThread(f)
      <4>1. UNCHANGED sockets /\ tpc' = [tpc EXCEPT ![f] = "connect"]
        BY <3>3 DEF StartThread
      <4> QED
        BY <1>1, <3>3, <4>1 DEF TypeOK
    <3>4. CASE f \in Files /\ tpc[f] = "none" /\ StartConnect(f)
      BY <1>1, <1>2, <3>4 DEF StartConnect
    <3> QED
      BY <1>1, <3>2, <3>3, <3>4
  <2>2. CASE ReadEof
    <3>1. i \in Files /\ prog = "parallel_web"
      BY <2>2 DEF ReadEof, TypeOK, LoopOfProg
    <3>2. f_flags[i] = "READING"
      BY <2>2, <3>1 DEF ReadEof, FlagsOK, Files
    <3>3. tpc[i] \in Talks
      BY <3>1, <3>2 DEF FlagsOK
    <3> QED
      BY <1>3, <2>2, <3>1, <3>3 DEF ReadEof
  <2>3. CASE Join
    <3>1. tpc' = [tpc EXCEPT ![i] = "joined"] /\ UNCHANGED sockets
      BY <2>3 DEF Join
    <3> QED
      BY <1>1, <3>1 DEF TypeOK
  <2>4. ASSUME NEW f \in Files, ThrJoin(f) PROVE SocketsOK' /\ OwnConnection'
    <3>1. tpc' = [tpc EXCEPT ![f] = "joined"] /\ UNCHANGED sockets
      BY <2>4 DEF ThrJoin
    <3> QED
      BY <1>1, <3>1 DEF TypeOK
  <2>5. CASE ReadMore
    <3>1. /\ tpc[i] = "main" /\ tpc' = [tpc EXCEPT ![i] = "main_more"]
          /\ UNCHANGED sockets
      BY <2>5 DEF ReadMore
    <3> QED
      BY <1>1, <3>1 DEF TypeOK
  <2>6. CASE HomePage \/ Filled \/ MainLock \/ Check \/ NotDone \/ MainUnlock \/ Select
             \/ NotReady \/ Scanned \/ SpuriousWakeup
    <3>1. tpc' = tpc /\ UNCHANGED sockets
      BY <2>6 DEF HomePage, Filled, MainLock, Check, NotDone, MainUnlock, Select, NotReady,
                  Scanned, SpuriousWakeup, thread
    <3> QED
      BY <1>1, <3>1
  <2> QED
    BY <1>4, <2>1, <2>2, <2>3, <2>4, <2>5, <2>6 DEF MainStep
<1>5. ASSUME NEW f \in Files, Thread(f) PROVE SocketsOK' /\ OwnConnection'
  <2>1. CASE Connect(f)
    <3>1. tpc[f] = "connect" /\ tpc' = [tpc EXCEPT ![f] = "write"]
      BY <2>1 DEF Connect
    <3>2. CASE Opened(f)
      BY <1>2, <3>1, <3>2
    <3>3. CASE fd' = [fd EXCEPT ![f] = NextFd] /\ refused' = TRUE /\ UNCHANGED sock
      <4>1. NextFd \in Fds /\ \A d \in Fds : sock[d] # f
        BY <3>1, NextFdIsFree DEF SocketsOK
      <4>2. SocketsOK'
        BY <3>1, <3>3, <4>1 DEF SocketsOK, TypeOK
      <4> QED
        BY <3>3, <4>2 DEF OwnConnection
    <3> QED
      BY <2>1, <3>2, <3>3 DEF Connect
  <2>2. CASE Read(f)
    BY <1>3, <2>2 DEF Read
  <2>3. CASE Write(f) \/ ReadNothing(f) \/ Announce(f) \/ Unlock(f)
    <3>1. UNCHANGED sockets
      BY <2>3 DEF Write, ReadNothing, Announce, Unlock
    <3>2. \/ tpc' = tpc
          \/ tpc[f] = "write" /\ tpc' = [tpc EXCEPT ![f] = "read"]
          \/ \E t \in {"fell_off", "unlock", "ended"} : tpc' = [tpc EXCEPT ![f] = t]
      BY <2>3 DEF Write, ReadNothing, Announce, Unlock
    <3> QED
      BY <1>1, <3>1, <3>2 DEF TypeOK
  <2> QED
    BY <1>5, <2>1, <2>2, <2>3 DEF Thread
<1> QED
  BY <1>4, <1>5 DEF Next

LEMMA LoopsStep ==
  ASSUME IInv, Next
  PROVE  LoopsOK'
<1> USE Counting
<1>1. /\ nconn \in 0 .. maxnconn /\ nlefttoconn \in Nat /\ nlefttoread = nlefttoconn + nconn
      /\ i \in 1 .. nfiles + 1 /\ prog' = prog
      /\ Announced \in SUBSET Files /\ Unstarted \in SUBSET Files
  BY CountsStep DEF IInv, TypeOK, Counts, Announced, Unstarted
<1>2. ASSUME Join \/ \E f \in Files : ThrJoin(f)
      PROVE  nconn' < maxnconn /\ UNCHANGED nlefttoconn
  <2>1. PICK f \in Files : Collects(f)
    BY <1>2 DEF Collects, Join
  <2> QED
    BY <1>1, <2>1, CollectCounts
<1>3. pc' # "nothing_found"
  <2>1. Start => Unstarted # {}
    BY <1>1 DEF Start, MayStart, IInv, Counts
  <2>2. Start => pc' # "nothing_found"
    BY <2>1 DEF Start, StartThread, StartConnect
  <2>3. ~Start => pc' # "nothing_found"
    BY DEF Next, MainStep, SpuriousWakeup, HomePage, Filled, MainLock, Check, Join, NotDone,
           MainUnlock, ThrJoin, Select, ReadMore, ReadEof, NotReady, Scanned, Again, Thread,
           Connect, Write, Read, ReadNothing, Announce, Unlock, IInv, LoopsOK
  <2> QED
    BY <2>2, <2>3
<1>4. ASSUME pc' = "collect" PROVE nconn' < maxnconn \/ \E f \in Announced' : f >= i'
  <2>1. \/ Check \/ Join \/ NotDone
        \/ pc = "collect" /\ \E f \in Files : Thread(f)
    BY <1>4 DEF Next, MainStep, SpuriousWakeup, HomePage, Start, StartThread, StartConnect,
           Filled, MainLock, MainUnlock, ThrJoin, Select, ReadMore, ReadEof, NotReady,
           Scanned, Again, Thread, Connect, Write, Read, ReadNothing, Announce, Unlock
  <2>2. CASE Check
    <3>1. pc = "check" /\ ~MustWait /\ i' = 1 /\ f_flags' = f_flags
      BY <1>4, <2>2 DEF Check, thread
    <3>2. Announced # {} /\ Announced' = Announced
      BY <1>1, <3>1 DEF MustWait, IInv, Counts, Announced
    <3> QED
      BY <3>1, <3>2 DEF Announced, Files
  <2>3. CASE Join
    BY <1>2, <2>3
  <2>4. CASE NotDone
    <3>1. pc = "collect" /\ i \notin Announced /\ i' = i + 1
      BY <2>4 DEF NotDone, Collected, Announced
    <3>2. nconn' = nconn /\ Announced' = Announced
      BY <2>4 DEF NotDone, counts, thread, Announced
    <3>3. \A f \in Announced : f >= i => f >= i + 1
      BY <1>1, <3>1 DEF Files
    <3> QED
      BY <3>1, <3>2, <3>3 DEF IInv, LoopsOK
  <2>5. ASSUME pc = "collect", NEW f \in Files, Thread(f)
        PROVE  nconn' < maxnconn \/ \E g \in Announced' : g >= i'
    <3>1. i' = i /\ nconn' = nconn
      BY <2>5 DEF Thread, Connect, Write, Read, ReadNothing, Announce, Unlock, counts
    <3>2. prog = "webcli02"
      BY <2>5 DEF IInv, LoopOfProg
    <3>3. Announced' = Announced \/ Announced' = Announced \cup {f}
      <4>1. Announce(f) \/ NoCount
        BY <2>5 DEF Thread, NoCount
      <4> QED
        BY <3>2, <4>1, AnnounceCounts, OthersCount
    <3> QED
      BY <2>5, <3>1, <3>3 DEF IInv, LoopsOK
  <2> QED
    BY <2>1, <2>2, <2>3, <2>4, <2>5
<1>5. ASSUME pc' = "exit"
      PROVE  nlefttoconn' = 0 /\ nconn' < IF prog' = "parallel_web" THEN 1 ELSE maxnconn
  <2>1. MainUnlock \/ Scanned \/ \E f \in Files : ThrJoin(f)
    BY <1>5 DEF Next, MainStep, SpuriousWakeup, HomePage, Start, StartThread, StartConnect,
           Filled, MainLock, Check, Join, NotDone, Select, ReadMore, ReadEof, NotReady,
           Thread, Connect, Write, Read, ReadNothing, Announce, Unlock, Up, Ended
  <2>2. CASE MainUnlock
    <3>1. /\ pc = "collect" /\ i \notin Files /\ ~(nlefttoconn > 0)
          /\ UNCHANGED <<nconn, nlefttoconn>>
      BY <1>5, <2>2 DEF MainUnlock, Again, counts
    <3>2. prog # "parallel_web"
      BY <3>1 DEF IInv, LoopOfProg
    <3>3. \A f \in Announced : ~(f >= i)
      BY <1>1, <3>1 DEF Files
    <3>4. nconn < maxnconn
      BY <3>1, <3>3 DEF IInv, LoopsOK
    <3> QED
      BY <1>1, <3>1, <3>2, <3>4
  <2>3. CASE Scanned
    <3>1. ~(nlefttoread > 0) /\ UNCHANGED <<nconn, nlefttoconn>>
      BY <1>5, <2>3 DEF Scanned, MoreToRead, counts
    <3> QED
      BY <1>1, <3>1
  <2>4. ASSUME NEW f \in Files, ThrJoin(f)
        PROVE  nlefttoconn' = 0 /\ nconn' < IF prog' = "parallel_web" THEN 1 ELSE maxnconn
    <3>1. prog # "parallel_web" /\ ~(nlefttoconn > 0)
      BY <1>5, <2>4 DEF ThrJoin, Again, IInv, LoopOfProg
    <3> QED
      BY <1>1, <1>2, <2>4, <3>1
  <2> QED
    BY <2>1, <2>2, <2>3, <2>4
<1> QED
  BY <1>3, <1>4, <1>5 DEF LoopsOK

-----------------------------------------------------------------------------
(* The theorems *)

LEMMA InitIInv == Init => IInv
<1> SUFFICES ASSUME Init PROVE IInv
  OBVIOUS
<1> USE Counting DEF Init
<1>1. Unjoined = {} /\ Unstarted = Files /\ Announced = {}
  BY DEF Unjoined, Unstarted, Announced
<1>2. Cardinality(Files) = nfiles
  BY SizesAssumption, FS_Interval DEF Files
<1>3. Counts
  BY <1>1, <1>2 DEF Counts
<1>4. TypeOK
  <2>1. nconn \in 0 .. maxnconn /\ nlefttoconn \in 0 .. nfiles /\ nlefttoread \in 0 .. nfiles
        /\ ndone \in 0 .. nfiles /\ i \in 1 .. nfiles + 1 /\ spurious \in Nat
    OBVIOUS
  <2>2. prog \in {"webcli01", "webcli02", "parallel_web"}
    BY AnswersAssumption
  <2> QED
    BY <2>1, <2>2 DEF TypeOK
<1>5. LoopOfProg /\ FlagsOK /\ MutexOK /\ SocketsOK /\ OwnConnection /\ LoopsOK
  BY DEF LoopOfProg, FlagsOK, MutexOK, SocketsOK, OwnConnection, LoopsOK
<1> QED
  BY <1>3, <1>4, <1>5 DEF IInv

LEMMA StepIInv == IInv /\ [Next]_vars => IInv'
<1> SUFFICES ASSUME IInv, [Next]_vars PROVE IInv'
  OBVIOUS
<1>1. CASE Next
  BY <1>1, CountsStep, TypesStep, FlagsStep, SocketsStep, LoopsStep DEF IInv
<1>2. CASE UNCHANGED vars
  BY <1>2 DEF vars, thread, counts, sockets, IInv, TypeOK, LoopOfProg, FlagsOK, MutexOK,
         SocketsOK, OwnConnection, Counts, LoopsOK, Unjoined, Unstarted, Announced, Ended
<1> QED
  BY <1>1, <1>2

LEMMA Invariance == Spec => []IInv
  BY InitIInv, StepIInv, PTL DEF Spec

\* main never waits in Pthread_join for a thread that needs the mutex main holds
\* (webcli02.c).
THEOREM JoinDoesNotBlock == Spec => []JoinNeverBlocks
<1>1. IInv => JoinNeverBlocks
  <2> SUFFICES ASSUME IInv, pc = "collect", i \in Files, f_flags[i] = "DONE"
               PROVE  tpc[i] = "ended"
    BY DEF JoinNeverBlocks
  <2>1. tpc[i] \in {"unlock", "ended"}
    BY DEF IInv, LoopOfProg, FlagsOK
  <2>2. mutex = Main /\ Main # i
    BY Counting DEF IInv, MutexOK
  <2> QED
    BY <2>1, <2>2 DEF IInv, MutexOK
<1> QED
  BY <1>1, Invariance, PTL

\* The counters of all three clients count what their names say, and err_quit(
\* "nlefttoconn = %d but nothing found") is not reached.
THEOREM CountersAgree == Spec => []CountsAgree
<1>1. IInv => CountsAgree
  <2> SUFFICES ASSUME IInv PROVE CountsAgree
    OBVIOUS
  <2>1. nconn \in Nat /\ nlefttoread = nlefttoconn + nconn
    BY DEF IInv, Counts, TypeOK
  <2>2. pc = "exit" => nlefttoread = nconn
    BY <2>1 DEF IInv, LoopsOK
  <2> QED
    BY <2>2 DEF IInv, Counts, LoopsOK, CountsAgree
<1> QED
  BY <1>1, Invariance, PTL

\* As long as tcp_connect was not refused every thread talks on its own connection.
THEOREM OwnConnections == Spec => []OwnConnection
  BY Invariance, PTL DEF IInv

-----------------------------------------------------------------------------
(* Who is waited for *)

\* ndone_mutex is held by one that will release it.
Held ==
    /\ mutex = Main => pc \in {"check", "collect"} \cup Ended
    /\ \A f \in Files : mutex = f => tpc[f] = "unlock"

\* main sleeps only while nothing is announced, and a thread that ended did announce
\* itself.
Asleep ==
    /\ pc = "wait" => ndone = 0
    /\ \A f \in Files : prog = "webcli02" /\ tpc[f] \in {"unlock", "ended"} =>
           f_flags[f] = "DONE"
    /\ \A f \in Files : tpc[f] \in {"main", "main_more"} => f_flags[f] = "READING"

\* main starts to wait only with a fetch under way.
UnderWay ==
    /\ pc \in {"lock", "check", "wait", "thr_join", "select"} => nconn > 0
    /\ pc \in {"home", "fill"} => nlefttoconn + nconn > 0

LEMMA HeldStep ==
  ASSUME IInv, Held, Next
  PROVE  Held'
<1> USE Counting DEF IInv
<1>1. CASE MainStep
  <2>1. CASE \E f \in Files : ThrJoin(f)
    <3>1. PICK f \in Files : ThrJoin(f)
      BY <2>1
    <3>2. /\ tpc' = [tpc EXCEPT ![f] = "joined"] /\ mutex' = mutex
          /\ tpc[f] \in {"ended", "fell_off"} /\ pc = "thr_join"
      BY <3>1 DEF ThrJoin
    <3> QED
      BY <3>2 DEF Held, TypeOK, Ended
  <2>2. CASE Start
    <3>1. UNCHANGED <<mutex>> /\ pc = "fill"
      BY <2>2 DEF Start
    <3>2. \A f \in Files : tpc[f] = "unlock" => tpc'[f] = "unlock"
      <4> DEFINE g == CHOOSE h \in Unstarted : \A x \in Unstarted : h <= x
      <4>1. CASE Unstarted = {}
        BY <2>2, <4>1 DEF Start, thread
      <4>2. CASE Unstarted # {}
        <5>1. g \in Files /\ tpc[g] = "none"
          BY <4>2, FirstUnstarted DEF Unstarted, FlagsOK
        <5>2. StartThread(g) \/ StartConnect(g)
          BY <2>2, <4>2 DEF Start
        <5> HIDE DEF g
        <5> QED
          BY <5>1, <5>2 DEF StartThread, StartConnect, TypeOK
      <4> QED
        BY <4>1, <4>2
    <3> QED
      BY <3>1, <3>2 DEF Held, Ended
  <2>3. CASE MainLock \/ MainUnlock \/ Check
    BY <2>3 DEF MainLock, MainUnlock, Check, Held, thread, MutexOK, TypeOK
  <2>4. CASE Join
    <3>1. /\ i \in Files /\ tpc[i] = "ended" /\ tpc' = [tpc EXCEPT ![i] = "joined"]
          /\ UNCHANGED <<pc, mutex>>
      BY <2>4 DEF Join
    <3> QED
      BY <3>1 DEF Held, TypeOK
  <2>5. CASE ReadMore \/ ReadEof
    <3>1. pc = "scan" /\ i \in rs /\ UNCHANGED <<pc, mutex>>
      BY <2>5 DEF ReadMore, ReadEof
    <3>2. i \in Files /\ tpc[i] # "unlock"
      BY <3>1 DEF LoopOfProg, FlagsOK, TypeOK
    <3>3. tpc' = [tpc EXCEPT ![i] = "main_more"] \/ tpc' = [tpc EXCEPT ![i] = "joined"]
      BY <2>5 DEF ReadMore, ReadEof
    <3> QED
      BY <3>1, <3>2, <3>3 DEF Held, TypeOK
  <2>6. CASE HomePage \/ Filled \/ NotDone \/ Select \/ NotReady \/ Scanned
    BY <2>6 DEF HomePage, Filled, NotDone, Select, NotReady, Scanned, Held, thread, Ended
  <2> QED
    BY <1>1, <2>1, <2>2, <2>3, <2>4, <2>5, <2>6 DEF MainStep
<1>2. CASE SpuriousWakeup
  BY <1>2 DEF SpuriousWakeup, Held, thread, Ended
<1>3. ASSUME NEW f \in Files, Thread(f) PROVE Held'
  <2>1. CASE Announce(f)
    BY <1>3, <2>1 DEF Announce, Held, TypeOK
  <2>2. CASE Unlock(f)
    BY <1>3, <2>2 DEF Unlock, Held, TypeOK, MutexOK
  <2>3. CASE Connect(f) \/ Write(f) \/ Read(f) \/ ReadNothing(f)
    <3>1. mutex' = mutex /\ (pc' = pc \/ pc' \in Ended)
      BY <2>3 DEF Connect, Write, Read, ReadNothing, Ended
    <3>2. tpc[f] # "unlock" /\ (tpc' = tpc \/ \E t : tpc' = [tpc EXCEPT ![f] = t])
      BY <2>3 DEF Connect, Write, Read, ReadNothing
    <3> QED
      BY <1>3, <3>1, <3>2 DEF Held, TypeOK
  <2> QED
    BY <1>3, <2>1, <2>2, <2>3 DEF Thread
<1> QED
  BY <1>1, <1>2, <1>3 DEF Next

LEMMA AsleepStep ==
  ASSUME IInv, Asleep, Next
  PROVE  Asleep'
<1> USE Counting DEF IInv
<1>0. prog' = prog
  BY CountsStep
<1>1. CASE MainStep
  <2>1. CASE \E f \in Files : ThrJoin(f)
    <3>1. PICK f \in Files : ThrJoin(f)
      BY <2>1
    <3>2. /\ tpc' = [tpc EXCEPT ![f] = "joined"] /\ f_flags' = f_flags /\ pc' # "wait"
      BY <3>1 DEF ThrJoin, Again
    <3> QED
      BY <1>0, <3>2 DEF Asleep, TypeOK
  <2>2. CASE Start
    <3>1. pc' # "wait"
      BY <2>2 DEF Start, StartThread, StartConnect
    <3>2. \A f \in Files : \/ tpc'[f] = tpc[f] /\ f_flags'[f] = f_flags[f]
                           \/ tpc'[f] = "connect"
                           \/ tpc'[f] = "main" /\ f_flags'[f] = "READING"
      <4> DEFINE g == CHOOSE h \in Unstarted : \A x \in Unstarted : h <= x
      <4>1. CASE Unstarted = {}
        BY <2>2, <4>1 DEF Start, thread
      <4>2. CASE Unstarted # {}
        <5>1. g \in Files
          BY <4>2, FirstUnstarted DEF Unstarted
        <5>2. StartThread(g) \/ StartConnect(g)
          BY <2>2, <4>2 DEF Start
        <5> HIDE DEF g
        <5> QED
          BY <5>1, <5>2 DEF StartThread, StartConnect, TypeOK
      <4> QED
        BY <4>1, <4>2
    <3> QED
      BY <1>0, <3>1, <3>2 DEF Asleep
  <2>3. CASE Check
    BY <1>0, <2>3 DEF Check, MustWait, Asleep, thread
  <2>4. CASE Join
    <3>1. /\ i \in Files /\ tpc' = [tpc EXCEPT ![i] = "joined"] /\ pc = "collect" /\ pc' = pc
          /\ f_flags' = [f_flags EXCEPT ![i] = "JOINED"]
      BY <2>4 DEF Join
    <3> QED
      BY <1>0, <3>1 DEF Asleep, TypeOK
  <2>5. CASE ReadMore \/ ReadEof
    <3>1. pc = "scan" /\ i \in rs /\ i \in Files /\ pc' = pc
      BY <2>5 DEF ReadMore, ReadEof, TypeOK
    <3>2. \/ tpc[i] = "main" /\ tpc' = [tpc EXCEPT ![i] = "main_more"] /\ f_flags' = f_flags
          \/ /\ tpc' = [tpc EXCEPT ![i] = "joined"]
             /\ f_flags' = [f_flags EXCEPT ![i] = "DONE"]
      BY <2>5 DEF ReadMore, ReadEof
    <3> QED
      BY <1>0, <3>1, <3>2 DEF Asleep, TypeOK
  <2>6. CASE HomePage \/ Filled \/ MainLock \/ NotDone \/ MainUnlock \/ Select \/ NotReady \/ Scanned
    BY <1>0, <2>6 DEF HomePage, Filled, MainLock, NotDone, MainUnlock, Select, NotReady, Scanned,
                      Again, Asleep, thread
  <2> QED
    BY <1>1, <2>1, <2>2, <2>3, <2>4, <2>5, <2>6 DEF MainStep
<1>2. CASE SpuriousWakeup
  BY <1>0, <1>2 DEF SpuriousWakeup, Asleep, thread
<1>3. ASSUME NEW f \in Files, Thread(f) PROVE Asleep'
  <2>1. CASE Announce(f)
    BY <1>0, <1>3, <2>1 DEF Announce, Asleep, TypeOK
  <2>2. CASE Unlock(f)
    BY <1>0, <1>3, <2>2 DEF Unlock, Asleep, TypeOK
  <2>3. CASE Connect(f) \/ Write(f) \/ Read(f) \/ ReadNothing(f)
    BY <1>0, <1>3, <2>3 DEF Connect, Write, Read, ReadNothing, MarksDone, Asleep, TypeOK
  <2> QED
    BY <1>3, <2>1, <2>2, <2>3 DEF Thread
<1> QED
  BY <1>1, <1>2, <1>3 DEF Next

LEMMA UnderWayStep ==
  ASSUME IInv, UnderWay, Next
  PROVE  UnderWay'
<1> USE DEF IInv
<1>0. nconn \in Nat /\ nlefttoconn \in Nat /\ nconn' \in Nat /\ nlefttoconn' \in Nat
  BY CountsStep DEF TypeOK
<1>1. CASE MainStep
  <2>1. CASE \E f \in Files : ThrJoin(f)
    BY <1>0, <2>1 DEF ThrJoin, Again, UnderWay, Ended
  <2>2. CASE Start
    <3>1. \/ pc' = "fill" /\ nconn' = nconn + 1
          \/ pc' \in {"nothing_found", "refused"}
      BY <2>2 DEF Start, StartThread, StartConnect
    <3>2. CASE pc' = "fill"
      <4>1. nconn' = nconn + 1
        BY <3>1, <3>2
      <4>2. nconn' > 0
        BY <1>0, <4>1
      <4>3. \A m, n \in Nat : n > 0 => m + n > 0
        OBVIOUS
      <4> QED
        BY <1>0, <3>2, <4>2, <4>3 DEF UnderWay
    <3> QED
      BY <3>1, <3>2 DEF UnderWay
  <2>3. CASE Filled
    <3>1. nconn > 0 /\ UNCHANGED <<nconn, nlefttoconn>> /\ pc' # "fill" /\ pc' # "home"
      BY <1>0, <2>3, SizesAssumption DEF Filled, MayStart, UnderWay, counts
    <3> QED
      BY <3>1 DEF UnderWay
  <2>4. CASE HomePage \/ MainLock \/ Check
    BY <1>0, <2>4 DEF HomePage, MainLock, Check, UnderWay, counts
  <2>5. CASE Join \/ ReadEof
    BY <2>5 DEF Join, ReadEof, UnderWay
  <2>6. CASE NotDone \/ MainUnlock \/ Select \/ ReadMore \/ NotReady
    <3>1. /\ UNCHANGED <<nconn, nlefttoconn>>
          /\ pc' \in {"collect", "scan", "exit"} \/ (pc' = "fill" /\ nlefttoconn > 0)
      BY <2>6 DEF NotDone, MainUnlock, Select, ReadMore, NotReady, Again, counts
    <3>2. nlefttoconn > 0 => nlefttoconn + nconn > 0
      BY <1>0
    <3> QED
      BY <3>1, <3>2 DEF UnderWay
  <2>7. CASE Scanned
    <3>1. nlefttoread = nlefttoconn + nconn
      BY DEF Counts
    <3> QED
      BY <1>0, <2>7, <3>1 DEF Scanned, MoreToRead, UnderWay, counts
  <2> QED
    BY <1>1, <2>1, <2>2, <2>3, <2>4, <2>5, <2>6, <2>7 DEF MainStep
<1>2. CASE SpuriousWakeup
  BY <1>2 DEF SpuriousWakeup, UnderWay, counts
<1>3. ASSUME NEW f \in Files, Thread(f) PROVE UnderWay'
  <2>1. UNCHANGED counts /\ (pc' = pc \/ pc' = "writen_error" \/ (pc = "wait" /\ pc' = "lock"))
    BY <1>3 DEF Thread, Connect, Write, Read, ReadNothing, Announce, Unlock
  <2> QED
    BY <2>1 DEF UnderWay, counts
<1> QED
  BY <1>1, <1>2, <1>3 DEF Next

WaitInv == IInv /\ Held /\ Asleep /\ UnderWay

LEMMA WaitInit == Init => WaitInv
<1> SUFFICES ASSUME Init PROVE WaitInv
  OBVIOUS
<1>1. IInv
  BY InitIInv
<1>2. Held /\ Asleep /\ UnderWay
  BY Counting, SizesAssumption DEF Init, Held, Asleep, UnderWay, Files
<1> QED
  BY <1>1, <1>2 DEF WaitInv

LEMMA WaitStep == WaitInv /\ [Next]_vars => WaitInv'
<1> SUFFICES ASSUME WaitInv, [Next]_vars PROVE WaitInv'
  OBVIOUS
<1>1. IInv'
  BY StepIInv DEF WaitInv
<1>2. CASE Next
  BY <1>1, <1>2, HeldStep, AsleepStep, UnderWayStep DEF WaitInv
<1>3. CASE UNCHANGED vars
  BY <1>1, <1>3 DEF vars, thread, counts, WaitInv, Held, Asleep, UnderWay
<1> QED
  BY <1>2, <1>3

\* While main waits, for the mutex, ndone_cond, a thread to join or a readable socket,
\* some thread can go on, unless every one left has fallen off its end: no wake-up is
\* lost and there is no circle.
THEOREM SomebodyMoves == Spec => []NobodyStuck
<1>1. WaitInv /\ JoinNeverBlocks => NobodyStuck
  <2> SUFFICES ASSUME WaitInv, MainBlocked, \A f \in Files : ~CanMove(f)
               PROVE  Unjoined # {} /\ \A f \in Unjoined : tpc[f] = "fell_off"
    BY DEF NobodyStuck
  <2> USE DEF WaitInv, IInv
  <2>1. pc \in {"lock", "wait", "thr_join", "select"}
    BY DEF MainBlocked
  <2>2. Unjoined # {} /\ Unjoined \subseteq Files
    BY <2>1, Counting DEF UnderWay, Counts, Unjoined
  <2>3. mutex = Free
    <3>1. mutex # Main
      BY <2>1 DEF Held, Ended
    <3>2. \A f \in Files : mutex # f
      BY DEF Held, CanMove
    <3> QED
      BY <3>1, <3>2 DEF TypeOK
  <2>4. \A f \in Unjoined : tpc[f] \in {"ended", "fell_off", "main", "main_more"}
    BY <2>3 DEF CanMove, Unjoined, TypeOK
  <2>5. CASE pc = "lock"
    BY <2>3, <2>5 DEF MainBlocked
  <2>6. CASE pc = "wait"
    <3>1. prog = "webcli02" /\ Announced = {}
      BY <2>6, Counting DEF LoopOfProg, Asleep, Counts, Announced
    <3>2. \A f \in Unjoined : tpc[f] \notin {"ended", "main", "main_more"}
      BY <2>2, <3>1 DEF Asleep, FlagsOK, Announced
    <3> QED
      BY <2>2, <2>4, <3>2
  <2>7. CASE pc = "thr_join"
    <3>1. prog = "webcli01" /\ \A f \in Files : tpc[f] \notin {"ended", "fell_off"}
      BY <2>7 DEF LoopOfProg, MainBlocked
    <3> QED
      BY <2>2, <2>4, <3>1 DEF FlagsOK
  <2>8. CASE pc = "select"
    <3>1. prog = "parallel_web" /\ Reading = {}
      BY <2>8 DEF LoopOfProg, MainBlocked
    <3>2. \A f \in Unjoined : tpc[f] \in {"main", "main_more"}
      BY <2>2, <2>4, <3>1 DEF FlagsOK
    <3> QED
      BY <2>2, <3>1, <3>2 DEF Asleep, Reading
  <2> QED
    BY <2>1, <2>5, <2>6, <2>7, <2>8
<1> QED
  BY <1>1, WaitInit, WaitStep, JoinDoesNotBlock, PTL DEF Spec
=============================================================================
