----------------------------- MODULE Udp_proof -----------------------------
(***************************************************************************)
(* What holds of the UDP programs.  The five clients, for any number of    *)
(* calls, any limits on the timeout and any network: a request starts with *)
(* a timeout within its limits, and the client is out of step by no more   *)
(* than was late.  The signal-driven server, for a ring of any size and    *)
(* any datagrams: its indices stay in their arrays, the handler and the    *)
(* loop exclude each other around nqueue, and no signal is lost.           *)
(***************************************************************************)
EXTENDS DgClients, SigioQueue, SequenceTheorems, TLAPS

InFlight == Len(reqs) + Len(reps)
Excuses  == timeouts + strays

\* While a call waits one datagram more is under way: its own.  (dgclibcast6 sends
\* none.)
FlightBounded ==
    InFlight <= Excuses + (IF pc = "recv" /\ prog # "dgclibcast6" THEN 1 ELSE 0)

PrintedCount == Len(printed) = IF pc = "idle" THEN call ELSE call - 1

\* Before the first timeout and the first stray, every datagram is of this call.
InStep ==
    Excuses = 0 =>
        /\ \A k \in DOMAIN printed : printed[k] = k
        /\ pc \in {"send", "recv"} =>
             /\ \A k \in DOMAIN reqs : reqs[k].line = call
             /\ \A k \in DOMAIN reps : reps[k].line = call
        /\ pc = "got" => buf = call

\* The alarm of a broadcast client belongs to the call it waits in.
AlarmsOK ==
    /\ alarm => pc = "recv" /\ prog \in Broadcast
    /\ pipe => pc = "recv" /\ ~alarm /\ prog = "dgclibcast6" /\ timeouts > 0
    /\ prog # "rtt" => pc \in {"idle", "recv"} /\ nrexmt = 0 /\ rttinit = FALSE

IInv ==
    /\ AllTypeOK /\ FlightBounded /\ PrintedCount /\ InStep /\ AlarmsOK /\ RtoClamped

-----------------------------------------------------------------------------
(* Datagrams taken out of the network and put into it. *)

LEMMA Removed ==
  ASSUME NEW S, NEW s \in Seq(S), NEW k \in DOMAIN s
  PROVE  /\ RemoveAt(s, k) \in Seq(S)
         /\ Len(RemoveAt(s, k)) = Len(s) - 1
         /\ \A j \in DOMAIN RemoveAt(s, k) :
              \E m \in DOMAIN s : RemoveAt(s, k)[j] = s[m]
<1> DEFINE a == SubSeq(s, 1, k - 1)
           b == SubSeq(s, k + 1, Len(s))
<1>1. Len(s) \in Nat /\ k \in 1 .. Len(s) /\ DOMAIN s = 1 .. Len(s)
  BY LenProperties
<1>2. /\ a \in Seq(S) /\ Len(a) = k - 1
      /\ \A j \in 1 .. k - 1 : a[j] = s[j]
  BY <1>1
<1>3. /\ b \in Seq(S) /\ Len(b) = Len(s) - k
      /\ \A j \in 1 .. Len(s) - k : b[j] = s[k + j]
  BY <1>1
<1>4. RemoveAt(s, k) = a \o b
  BY DEF RemoveAt
<1> HIDE DEF a, b
<1>5. /\ a \o b \in Seq(S) /\ Len(a \o b) = Len(a) + Len(b)
      /\ \A j \in 1 .. Len(a) + Len(b) :
           (a \o b)[j] = IF j <= Len(a) THEN a[j] ELSE b[j - Len(a)]
  BY <1>2, <1>3, ConcatProperties
<1>6. ASSUME NEW j \in 1 .. Len(s) - 1
      PROVE  \E m \in DOMAIN s : (a \o b)[j] = s[m]
  <2>1. CASE j <= k - 1
    BY <1>1, <1>2, <1>3, <1>5, <2>1
  <2>2. CASE j > k - 1
    <3>1. (a \o b)[j] = b[j - (k - 1)] /\ j - (k - 1) \in 1 .. Len(s) - k
      BY <1>1, <1>2, <1>3, <1>5, <2>2
    <3>2. b[j - (k - 1)] = s[k + (j - (k - 1))] /\ k + (j - (k - 1)) \in 1 .. Len(s)
      BY <1>1, <1>3, <3>1
    <3> QED
      BY <1>1, <3>1, <3>2
  <2>3. j <= k - 1 \/ j > k - 1
    BY <1>1
  <2> QED
    BY <2>1, <2>2, <2>3
<1>7. Len(a \o b) = Len(s) - 1
  BY <1>1, <1>2, <1>3, <1>5
<1>8. DOMAIN (a \o b) = 1 .. Len(s) - 1
  BY <1>5, <1>7, LenProperties
<1> QED
  BY <1>4, <1>5, <1>6, <1>7, <1>8

LEMMA Added ==
  ASSUME NEW S, NEW s \in Seq(S), NEW e \in S
  PROVE  /\ Append(s, e) \in Seq(S)
         /\ Len(Append(s, e)) = Len(s) + 1
         /\ DOMAIN Append(s, e) = 1 .. Len(s) + 1
         /\ Append(s, e)[Len(s) + 1] = e
         /\ \A k \in DOMAIN s : Append(s, e)[k] = s[k]
<1>1. Len(s) \in Nat /\ DOMAIN s = 1 .. Len(s)
  BY LenProperties
<1> QED
  BY <1>1, AppendProperties

\* The properties of a sequence that the proofs need of reqs, reps and printed.
LEMMA Sequences ==
  ASSUME TypeOK
  PROVE  /\ Len(reqs) \in Nat /\ Len(reps) \in Nat /\ Len(printed) \in Nat
         /\ DOMAIN reqs = 1 .. Len(reqs) /\ DOMAIN reps = 1 .. Len(reps)
         /\ DOMAIN printed = 1 .. Len(printed)
         /\ \A k \in DOMAIN reps : reps[k] \in Datagrams
  BY LenProperties, ElementOfSeq DEF TypeOK

LEMMA InitIInv == AllInit => IInv
<1> SUFFICES ASSUME AllInit PROVE IInv
  OBVIOUS
<1>1. TypeOK
  <2>1. /\ call \in 0 .. Calls /\ buf \in 0 .. Calls
        /\ nrexmt \in 0 .. MAXNREXMT + 1 /\ rto \in Nat
        /\ sendseq \in Nat /\ recvseq \in Nat /\ timeouts \in Nat
    BY BoundsAssumption DEF AllInit, Init
  <2>2. /\ printed \in Seq(0 .. Calls) /\ reqs \in Seq(Datagrams) /\ reps \in Seq(Datagrams)
        /\ rttinit \in BOOLEAN /\ pc = "idle"
    BY EmptySeq DEF AllInit, Init
  <2> QED
    BY <2>1, <2>2 DEF TypeOK
<1>2. AllTypeOK
  <2>1. strays \in 0 .. MaxStrays
    BY StraysAssumption DEF AllInit
  <2> QED
    BY <1>1, <2>1 DEF AllInit, AllTypeOK
<1>3. FlightBounded /\ PrintedCount /\ InStep
  BY DEF AllInit, Init, FlightBounded, InFlight, Excuses, PrintedCount, InStep
<1>4. AlarmsOK /\ RtoClamped
  BY DEF AllInit, Init, AlarmsOK, RtoClamped
<1> QED
  BY <1>2, <1>3, <1>4 DEF IInv

-----------------------------------------------------------------------------
(* dg_send_recv *)

LEMMA BeginIInv ==
  ASSUME IInv, prog = "rtt", Begin, UNCHANGED more
  PROVE  IInv'
<1> USE DEF IInv
<1>1. TypeOK'
  <2>1. call' \in 0 .. Calls /\ sendseq' \in Nat /\ nrexmt' \in 0 .. MAXNREXMT + 1
    BY BoundsAssumption DEF Begin, AllTypeOK, TypeOK
  <2>2. rttinit' \in BOOLEAN /\ rto' \in Nat
    BY RtoAssumption DEF Begin, RttInit, AllTypeOK, TypeOK
  <2> QED
    BY <2>1, <2>2 DEF Begin, AllTypeOK, TypeOK, net
<1>2. AllTypeOK'
  BY <1>1 DEF AllTypeOK, more
<1>3. FlightBounded' /\ PrintedCount'
  BY DEF Begin, AllTypeOK, TypeOK, FlightBounded, InFlight, Excuses, PrintedCount, net, more
<1>4. InStep'
  <2>1. Excuses = 0 /\ Excuses' = 0 => DOMAIN reqs = {} /\ DOMAIN reps = {}
    BY Sequences DEF Begin, FlightBounded, InFlight, Excuses, AllTypeOK, TypeOK
  <2> QED
    BY <2>1 DEF Begin, InStep, Excuses, net, more
<1>5. RtoClamped'
  <2>1. rto' \in RXTMIN .. RXTMAX /\ nrexmt' <= MAXNREXMT /\ pc' = "send"
    BY RtoAssumption, BoundsAssumption DEF Begin, RttInit, RtoClamped
  <2> QED
    BY <2>1 DEF RtoClamped
<1>6. AlarmsOK'
  BY DEF Begin, AlarmsOK, Broadcast, more
<1> QED
  BY <1>2, <1>3, <1>4, <1>5, <1>6

LEMMA SendMsgIInv ==
  ASSUME IInv, prog = "rtt", SendMsg, UNCHANGED more
  PROVE  IInv'
<1> USE DEF IInv
<1>1. [seq |-> OutSeq, line |-> call] \in Datagrams
  BY DEF OutSeq, Datagrams, AllTypeOK, TypeOK
<1>2. reqs \in Seq(Datagrams)
  BY DEF AllTypeOK, TypeOK
<1>3. TypeOK'
  BY <1>1, <1>2, Added DEF SendMsg, Sent, AllTypeOK, TypeOK, rttinfo, msg
<1>4. AllTypeOK'
  BY <1>3 DEF AllTypeOK, more
<1>5. FlightBounded' /\ PrintedCount'
  <2>1. Len(reqs') = Len(reqs) + 1
    BY <1>1, <1>2, Added DEF SendMsg, Sent
  <2> QED
    BY <2>1, Sequences
    DEF SendMsg, AllTypeOK, TypeOK, FlightBounded, InFlight, Excuses, PrintedCount, msg, more
<1>6. InStep'
  <2>1. /\ DOMAIN reqs' = 1 .. Len(reqs) + 1 /\ DOMAIN reqs = 1 .. Len(reqs)
        /\ reqs'[Len(reqs) + 1].line = call
        /\ \A k \in DOMAIN reqs : reqs'[k] = reqs[k]
    BY <1>1, <1>2, Added, LenProperties DEF SendMsg, Sent
  <2>2. Len(reqs) \in Nat
    BY <1>2, LenProperties
  <2>3. \A k \in DOMAIN reqs' : k \in DOMAIN reqs \/ k = Len(reqs) + 1
    BY <2>1, <2>2
  <2> QED
    BY <2>1, <2>3 DEF SendMsg, InStep, Excuses, msg, more
<1>7. RtoClamped'
  BY DEF SendMsg, RtoClamped, rttinfo
<1>8. AlarmsOK'
  BY DEF SendMsg, AlarmsOK, Broadcast, more
<1> QED
  BY <1>4, <1>5, <1>6, <1>7, <1>8

LEMMA RecvMsgIInv ==
  ASSUME IInv, prog = "rtt", RecvMsg, UNCHANGED more
  PROVE  IInv'
<1> USE DEF IInv
<1>1. PICK k \in DOMAIN reps :
        sendseq' = reps[k].seq /\ buf' = reps[k].line /\ reps' = RemoveAt(reps, k)
  BY DEF RecvMsg
<1>2. reps[k] \in Datagrams /\ reps \in Seq(Datagrams) /\ pc' \in {"recv", "got"}
  BY <1>1, Sequences DEF RecvMsg, AllTypeOK, TypeOK
<1>3. /\ reps' \in Seq(Datagrams) /\ Len(reps') = Len(reps) - 1
      /\ \A j \in DOMAIN reps' : \E m \in DOMAIN reps : reps'[j] = reps[m]
  BY <1>1, <1>2, Removed
<1>4. TypeOK'
  BY <1>1, <1>2, <1>3 DEF RecvMsg, AllTypeOK, TypeOK, Datagrams, rttinfo
<1>5. AllTypeOK'
  BY <1>4 DEF AllTypeOK, more
<1>6. FlightBounded' /\ PrintedCount'
  BY <1>2, <1>3, Sequences
  DEF RecvMsg, AllTypeOK, TypeOK, FlightBounded, InFlight, Excuses, PrintedCount, more
<1>7. InStep'
  BY <1>1, <1>2, <1>3 DEF RecvMsg, InStep, Excuses, more
<1>8. RtoClamped'
  BY <1>2 DEF RecvMsg, RtoClamped, rttinfo
<1>9. AlarmsOK'
  BY DEF AlarmsOK, Broadcast, more
<1> QED
  BY <1>5, <1>6, <1>7, <1>8, <1>9

\* A call that ends prints one line more: the one of its number, if it was not late.
LEMMA Prints ==
  ASSUME IInv, pc # "idle", NEW line \in 0 .. Calls, printed' = Append(printed, line),
         pc' = "idle", call' = call
  PROVE  /\ PrintedCount' /\ printed' \in Seq(0 .. Calls)
         /\ (\A k \in DOMAIN printed : printed[k] = k) /\ line = call =>
              \A k \in DOMAIN printed' : printed'[k] = k
<1>1. printed \in Seq(0 .. Calls) /\ Len(printed) = call - 1 /\ call \in Nat
  BY BoundsAssumption DEF IInv, AllTypeOK, TypeOK, PrintedCount
<1>2. /\ printed' \in Seq(0 .. Calls) /\ Len(printed') = call
      /\ DOMAIN printed' = 1 .. call /\ printed'[call] = line
      /\ \A k \in DOMAIN printed : printed'[k] = printed[k]
  BY <1>1, Added
<1>3. \A k \in DOMAIN printed' : k \in DOMAIN printed \/ k = call
  BY <1>1, <1>2, LenProperties
<1> QED
  BY <1>2, <1>3 DEF PrintedCount

LEMMA StopIInv ==
  ASSUME IInv, prog = "rtt", Stop, UNCHANGED more
  PROVE  IInv'
<1> USE DEF IInv
<1>1. /\ PrintedCount' /\ printed' \in Seq(0 .. Calls)
      /\ (\A k \in DOMAIN printed : printed[k] = k) /\ buf = call =>
           \A k \in DOMAIN printed' : printed'[k] = k
  BY Prints DEF Stop, Fputs, AllTypeOK, TypeOK
<1>2. rto' \in RXTMIN .. RXTMAX /\ rto' \in Nat
  BY RtoAssumption DEF Stop, Clamped
<1>3. TypeOK'
  BY <1>1, <1>2 DEF Stop, AllTypeOK, TypeOK, msg, net
<1>4. AllTypeOK'
  BY <1>3 DEF AllTypeOK, more
<1>5. FlightBounded'
  BY DEF Stop, FlightBounded, InFlight, Excuses, net, more
<1>6. InStep'
  BY <1>1 DEF Stop, InStep, Excuses, msg, net, more
<1>7. RtoClamped'
  BY <1>2 DEF Stop, RtoClamped
<1>8. AlarmsOK'
  BY DEF Stop, AlarmsOK, Broadcast, more
<1> QED
  BY <1>1, <1>4, <1>5, <1>6, <1>7, <1>8

LEMMA TimeoutIInv ==
  ASSUME IInv, prog = "rtt", Timeout, UNCHANGED more
  PROVE  IInv'
<1> USE DEF IInv
<1>1. pc \in {"recv", "got"} /\ pc' \in {"send", "idle"} /\ timeouts' = timeouts + 1
  BY DEF Timeout, AlarmSet
<1>2. ~alarm /\ ~pipe
  BY DEF AlarmsOK, Broadcast
<1>3. nrexmt' = nrexmt + 1 /\ rto' = 2 * rto /\ nrexmt \in Nat /\ rto \in Nat
      /\ nrexmt <= MAXNREXMT
  BY <1>1 DEF Timeout, AllTypeOK, TypeOK, RtoClamped
<1>4. /\ PrintedCount' /\ printed' \in Seq(0 .. Calls) /\ rttinit' \in BOOLEAN
      /\ pc' = "idle" => ~rttinit'
      /\ pc' # "idle" => nrexmt' <= MAXNREXMT
  <2>1. CASE GiveUp
    <3>1. /\ pc' = "idle" /\ rttinit' = FALSE /\ call' = call
          /\ printed' = Append(printed, buf)
      BY <2>1 DEF Timeout, Fputs
    <3>2. buf \in 0 .. Calls /\ pc # "idle"
      BY <1>1 DEF AllTypeOK, TypeOK
    <3> QED
      BY <3>1, <3>2, Prints
  <2>2. CASE ~GiveUp
    <3>1. nrexmt' <= MAXNREXMT
      BY <1>3, <2>2, BoundsAssumption DEF GiveUp
    <3>2. pc' = "send" /\ UNCHANGED <<rttinit, printed, call>>
      BY <2>2 DEF Timeout
    <3> QED
      BY <1>1, <3>1, <3>2 DEF PrintedCount, AllTypeOK, TypeOK
  <2> QED
    BY <2>1, <2>2
<1>5. nrexmt' \in 0 .. MAXNREXMT + 1 /\ rto' \in Nat /\ timeouts' \in Nat
  BY <1>1, <1>3, BoundsAssumption DEF AllTypeOK, TypeOK
<1>6. TypeOK'
  BY <1>1, <1>4, <1>5 DEF Timeout, AllTypeOK, TypeOK, msg, net
<1>7. AllTypeOK'
  BY <1>6 DEF AllTypeOK, more
<1>8. FlightBounded'
  <2>1. InFlight' = InFlight /\ strays' = strays /\ pc' # "recv" /\ strays \in Nat
    BY <1>1, StraysAssumption DEF Timeout, InFlight, net, more, AllTypeOK
  <2>2. InFlight \in Nat /\ timeouts \in Nat
    BY Sequences DEF InFlight, AllTypeOK, TypeOK
  <2> QED
    BY <1>1, <2>1, <2>2 DEF FlightBounded, Excuses
<1>9. InStep'
  <2>1. timeouts \in Nat /\ strays' \in Nat
    BY StraysAssumption DEF more, AllTypeOK, TypeOK
  <2>2. Excuses' # 0
    <3>1. Excuses' = (timeouts + 1) + strays'
      BY <1>1 DEF Excuses
    <3>2. \A a, b \in Nat : (a + 1) + b # 0
      OBVIOUS
    <3> QED
      BY <2>1, <3>1, <3>2
  <2> QED
    BY <2>2 DEF InStep
<1>10. RtoClamped'
  <2>1. nrexmt' # 0
    BY <1>3
  <2> QED
    BY <1>4, <2>1 DEF RtoClamped
<1>11. AlarmsOK'
  BY <1>2 DEF AlarmsOK, more
<1> QED
  BY <1>4, <1>7, <1>8, <1>9, <1>10, <1>11

-----------------------------------------------------------------------------
(* The other four clients; dg_send_recv stands still. *)

LEMMA SendToIInv ==
  ASSUME IInv, SendTo
  PROVE  IInv'
<1> USE DEF IInv
<1> DEFINE d == [seq |-> recvseq, line |-> call']
<1>1. call' = call + 1 /\ call' \in 0 .. Calls /\ call \in Nat
  BY BoundsAssumption DEF SendTo, AllTypeOK, TypeOK
<1>2. d \in Datagrams /\ reqs \in Seq(Datagrams)
  BY <1>1 DEF Datagrams, AllTypeOK, TypeOK
<1>3. /\ reqs' \in Seq(Datagrams)
      /\ reqs' = reqs \/ (reqs' = Append(reqs, d) /\ Len(reqs') = Len(reqs) + 1
                          /\ prog # "dgclibcast6")
  BY <1>2, Added DEF SendTo
<1>4. TypeOK'
  BY <1>1, <1>3 DEF SendTo, AllTypeOK, TypeOK, rttinfo, msg
<1>5. AllTypeOK'
  BY <1>4 DEF SendTo, AllTypeOK
<1>6. FlightBounded'
  <2>1. /\ pc = "idle" /\ pc' = "recv" /\ UNCHANGED <<reps, timeouts, prog, strays>>
        /\ Len(reqs) \in Nat /\ Len(reps) \in Nat /\ timeouts \in Nat /\ strays \in Nat
    BY Sequences, StraysAssumption DEF SendTo, AllTypeOK, TypeOK
  <2> QED
    BY <1>3, <2>1 DEF FlightBounded, InFlight, Excuses
<1>7. PrintedCount'
  BY <1>1 DEF SendTo, PrintedCount
<1>8. InStep'
  <2>1. Excuses = 0 => DOMAIN reqs = {} /\ DOMAIN reps = {}
    BY Sequences DEF SendTo, FlightBounded, InFlight, Excuses, AllTypeOK, TypeOK
  <2>2. Excuses = 0 => \A k \in DOMAIN reqs' : reqs'[k].line = call'
    <3> HIDE DEF d
    <3>1. d.line = call'
      BY DEF d
    <3>2. CASE reqs' = Append(reqs, d)
      <4>1. DOMAIN reqs' = 1 .. Len(reqs) + 1 /\ DOMAIN reqs = 1 .. Len(reqs)
            /\ reqs'[Len(reqs) + 1] = d /\ Len(reqs) \in Nat
        BY <1>2, <3>2, Added, LenProperties
      <4> QED
        BY <2>1, <3>1, <4>1
    <3> QED
      BY <1>3, <2>1, <3>2
  <2> QED
    BY <2>1, <2>2 DEF SendTo, InStep, Excuses, msg
<1>9. RtoClamped'
  <2>1. pc' = "recv" /\ nrexmt' = 0 /\ 0 <= MAXNREXMT
    BY BoundsAssumption DEF SendTo, AlarmsOK, rttinfo
  <2> QED
    BY <2>1 DEF RtoClamped
<1>10. AlarmsOK'
  BY DEF SendTo, AlarmsOK, rttinfo
<1> QED
  BY <1>5, <1>6, <1>7, <1>8, <1>9, <1>10

LEMMA RecvFromIInv ==
  ASSUME IInv, RecvFrom
  PROVE  IInv'
<1> USE DEF IInv
<1>1. PICK k \in DOMAIN reps : buf' = reps[k].line /\ reps' = RemoveAt(reps, k)
  BY DEF RecvFrom
<1>2. /\ pc = "recv" /\ UNCHANGED <<call, rttinit, rto, nrexmt>>
      /\ UNCHANGED <<sendseq, recvseq, reqs, timeouts, prog, strays, alarm, pipe>>
  BY DEF RecvFrom, rttinfo, more
<1>3. reps[k] \in Datagrams /\ reps \in Seq(Datagrams) /\ buf' \in 0 .. Calls
  BY <1>1, Sequences DEF AllTypeOK, TypeOK, Datagrams
<1>4. /\ reps' \in Seq(Datagrams) /\ Len(reps') = Len(reps) - 1
      /\ \A j \in DOMAIN reps' : \E m \in DOMAIN reps : reps'[j] = reps[m]
  BY <1>1, <1>3, Removed
<1>5. /\ PrintedCount' /\ printed' \in Seq(0 .. Calls)
      /\ (\A j \in DOMAIN printed : printed[j] = j) /\ buf' = call =>
           \A j \in DOMAIN printed' : printed'[j] = j
      /\ pc' \in {"idle", "recv"} /\ (prog \in Broadcast => pc' = "recv")
  <2>1. CASE prog \in Broadcast
    BY <1>2, <2>1 DEF RecvFrom, PrintedCount, AllTypeOK, TypeOK
  <2>2. CASE prog \notin Broadcast
    BY <1>2, <1>3, <2>2, Prints DEF RecvFrom
  <2> QED
    BY <2>1, <2>2
<1>6. TypeOK'
  BY <1>2, <1>3, <1>4, <1>5 DEF AllTypeOK, TypeOK
<1>7. AllTypeOK'
  BY <1>2, <1>6 DEF AllTypeOK
<1>8. FlightBounded'
  <2>1. Len(reqs) \in Nat /\ Len(reps) \in Nat /\ timeouts \in Nat /\ strays \in Nat
    BY Sequences, StraysAssumption DEF AllTypeOK, TypeOK
  <2>2. UNCHANGED <<reqs, timeouts, strays, prog>>
    BY <1>2
  <2>3. prog = "dgclibcast6" => pc' = pc
    BY <1>2, <1>5 DEF Broadcast
  <2> QED
    BY <1>2, <1>4, <2>1, <2>2, <2>3 DEF FlightBounded, InFlight, Excuses
<1>9. InStep'
  BY <1>1, <1>2, <1>4, <1>5 DEF InStep, Excuses
<1>10. RtoClamped'
  BY <1>2, <1>5 DEF RecvFrom, AlarmsOK, RtoClamped
<1>11. AlarmsOK'
  BY <1>2, <1>5 DEF AlarmsOK, Broadcast
<1> QED
  BY <1>5, <1>7, <1>8, <1>9, <1>10, <1>11

\* A timeout, an alarm or a stray is one excuse more.
LEMMA MoreExcuses ==
  ASSUME IInv, timeouts' \in Nat, strays' \in Nat,
         timeouts' + strays' = (timeouts + strays) + 1
  PROVE  /\ InStep'
         /\ UNCHANGED net => FlightBounded'
<1>1. timeouts \in Nat /\ strays \in Nat /\ InFlight \in Nat
  BY Sequences, StraysAssumption DEF IInv, AllTypeOK, TypeOK, InFlight
<1>2. Excuses' # 0
  <2>1. \A a, b \in Nat : (a + b) + 1 # 0
    OBVIOUS
  <2> QED
    BY <1>1, <2>1 DEF Excuses
<1>3. InFlight <= Excuses + 1
  BY <1>1 DEF IInv, FlightBounded, Excuses
<1>4. ASSUME UNCHANGED net PROVE FlightBounded'
  <2>1. InFlight' = InFlight
    BY <1>4 DEF net, InFlight
  <2>2. Excuses' = Excuses + 1
    BY DEF Excuses
  <2>3. InFlight' <= Excuses'
    BY <1>3, <2>1, <2>2
  <2>4. Excuses' \in Nat
    <3>1. \A a, b \in Nat : a + b \in Nat
      OBVIOUS
    <3>2. timeouts' + strays' \in Nat
      BY <3>1
    <3> QED
      BY <3>2 DEF Excuses
  <2>5. InFlight' \in Nat
    BY <1>1, <2>1
  <2>6. \A i, e \in Nat : i <= e => i <= e + 0 /\ i <= e + 1
    OBVIOUS
  <2>7. InFlight' <= Excuses' + 0 /\ InFlight' <= Excuses' + 1
    BY <2>3, <2>4, <2>5, <2>6
  <2> QED
    BY ONLY <2>7 DEF FlightBounded
<1>5. InStep'
  BY <1>2 DEF InStep
<1> QED
  BY <1>4, <1>5

LEMMA TimedOutIInv ==
  ASSUME IInv, TimedOut \/ Break \/ RecvfromAlarm
  PROVE  IInv'
<1> USE DEF IInv
<1>1. /\ UNCHANGED <<call, rttinit, rto, nrexmt, sendseq, recvseq, buf, reqs, reps>>
      /\ UNCHANGED <<prog, strays>>
  BY DEF TimedOut, Break, RecvfromAlarm, rttinfo, msg, net, more
<1>2. /\ PrintedCount' /\ printed' \in Seq(0 .. Calls)
      /\ pc' \in {"idle", "recv"}
  <2>1. CASE RecvfromAlarm
    BY <2>1 DEF RecvfromAlarm, PrintedCount, AlarmsOK, AllTypeOK, TypeOK
  <2>2. CASE TimedOut \/ Break
    <3>1. 0 \in 0 .. Calls
      BY BoundsAssumption
    <3>2. pc = "recv" /\ pc' = "idle" /\ printed' = Append(printed, 0)
      BY <2>2 DEF TimedOut, Break
    <3> QED
      BY <1>1, <3>1, <3>2, Prints
  <2> QED
    BY <2>1, <2>2
<1>3. timeouts' \in Nat /\ strays' \in Nat /\ timeouts \in Nat /\ strays \in Nat
  BY <1>1, StraysAssumption DEF TimedOut, Break, RecvfromAlarm, AllTypeOK, TypeOK
<1>4. TypeOK'
  BY <1>1, <1>2, <1>3 DEF AllTypeOK, TypeOK
<1>5. {alarm', pipe'} \subseteq BOOLEAN
  BY DEF TimedOut, Break, RecvfromAlarm, AllTypeOK, more
<1>6. AllTypeOK'
  BY <1>1, <1>4, <1>5 DEF AllTypeOK
<1>7. FlightBounded' /\ InStep'
  <2>1. CASE TimedOut \/ RecvfromAlarm
    <3>1. timeouts' = timeouts + 1
      BY <2>1 DEF TimedOut, RecvfromAlarm
    <3>2. timeouts' + strays' = (timeouts + strays) + 1
      BY <1>1, <1>3, <3>1
    <3> QED
      BY <1>1, <1>3, <3>2, MoreExcuses DEF net
  <2>2. CASE Break
    <3>1. prog = "dgclibcast6" /\ timeouts > 0 /\ UNCHANGED timeouts /\ pc' = "idle"
      BY <2>2 DEF Break, AlarmsOK
    <3>2. Excuses' # 0
      <4>1. \A a, b \in Nat : a > 0 => a + b # 0
        OBVIOUS
      <4> QED
        BY <1>3, <3>1, <4>1 DEF Excuses
    <3>3. FlightBounded'
      BY <1>1, <1>3, <3>1, Sequences
      DEF FlightBounded, InFlight, Excuses, AllTypeOK
    <3> QED
      BY <3>2, <3>3 DEF InStep
  <2> QED
    BY <2>1, <2>2
<1>8. RtoClamped' /\ AlarmsOK'
  <2>1. prog # "rtt"
    BY DEF TimedOut, Break, RecvfromAlarm, AlarmsOK, Broadcast
  <2>2. nrexmt' = 0 /\ rttinit' = FALSE /\ 0 <= MAXNREXMT
    BY <1>1, <2>1, BoundsAssumption DEF AlarmsOK
  <2>3. RtoClamped'
    BY <1>2, <2>2 DEF RtoClamped
  <2>4. CASE RecvfromAlarm
    <3>1. timeouts' > 0
      BY <1>3, <2>4 DEF RecvfromAlarm
    <3> QED
      BY <1>1, <1>2, <2>2, <2>3, <2>4, <3>1 DEF RecvfromAlarm, AlarmsOK
  <2>5. CASE TimedOut
    BY <1>1, <1>2, <2>2, <2>3, <2>5 DEF TimedOut, AlarmsOK, Broadcast, more
  <2>6. CASE Break
    BY <1>1, <1>2, <2>2, <2>3, <2>6 DEF Break, AlarmsOK
  <2> QED
    BY <2>4, <2>5, <2>6
<1> QED
  BY <1>2, <1>6, <1>7, <1>8

-----------------------------------------------------------------------------
(* The network *)

LEMMA StrayIInv ==
  ASSUME IInv, Stray
  PROVE  IInv'
<1> USE DEF IInv
<1> DEFINE d(seq) == [seq |-> seq, line |-> 0]
<1>1. \A seq \in {recvseq, recvseq + 1} : d(seq) \in Datagrams
  BY BoundsAssumption DEF Datagrams, AllTypeOK, TypeOK
<1>0. reps \in Seq(Datagrams)
  BY DEF AllTypeOK, TypeOK
<1>2. reps' \in Seq(Datagrams) /\ Len(reps') = Len(reps) + 1
  <2>1. PICK seq \in {recvseq, recvseq + 1} : reps' = Append(reps, d(seq))
    BY DEF Stray
  <2> QED
    BY <1>0, <1>1, <2>1, Added
<1>3. /\ UNCHANGED <<pc, call, rttinit, rto, nrexmt, sendseq, recvseq, buf, printed>>
      /\ UNCHANGED <<reqs, timeouts, prog, alarm, pipe>>
      /\ strays' = strays + 1 /\ strays' \in 0 .. MaxStrays
  BY StraysAssumption DEF Stray, rttinfo, msg, AllTypeOK
<1>4. TypeOK'
  BY <1>2, <1>3 DEF AllTypeOK, TypeOK
<1>5. AllTypeOK'
  BY <1>3, <1>4 DEF AllTypeOK
<1>6. timeouts' \in Nat /\ strays' \in Nat /\ timeouts' + strays' = (timeouts + strays) + 1
  BY <1>3, StraysAssumption DEF AllTypeOK, TypeOK
<1>7. InStep'
  BY <1>6, MoreExcuses
<1>8. FlightBounded'
  <2>1. Len(reqs) \in Nat /\ Len(reps) \in Nat /\ timeouts \in Nat /\ strays \in Nat
    BY Sequences, StraysAssumption DEF AllTypeOK, TypeOK
  <2>2. UNCHANGED <<pc, reqs, timeouts, prog>> /\ strays' = strays + 1
    BY <1>3
  <2> QED
    BY <1>2, <2>1, <2>2 DEF FlightBounded, InFlight, Excuses
<1>9. PrintedCount' /\ RtoClamped' /\ AlarmsOK'
  BY <1>3 DEF PrintedCount, RtoClamped, AlarmsOK
<1> QED
  BY <1>5, <1>7, <1>8, <1>9

LEMMA DuplicateIInv ==
  ASSUME IInv, Duplicate
  PROVE  IInv'
<1> USE DEF IInv
<1>1. /\ UNCHANGED <<pc, call, rttinit, rto, nrexmt, sendseq, recvseq, buf, printed>>
      /\ UNCHANGED <<timeouts, prog, alarm, pipe>>
      /\ strays' = strays + 1 /\ strays' \in 0 .. MaxStrays
  BY StraysAssumption DEF Duplicate, rttinfo, msg, AllTypeOK
<1>2. /\ reqs \in Seq(Datagrams) /\ reps \in Seq(Datagrams)
      /\ Len(reqs) \in Nat /\ Len(reps) \in Nat
  BY Sequences DEF AllTypeOK, TypeOK
<1>3. /\ reqs' \in Seq(Datagrams) /\ reps' \in Seq(Datagrams)
      /\ \/ Len(reqs') = Len(reqs) + 1 /\ Len(reps') = Len(reps)
         \/ Len(reps') = Len(reps) + 1 /\ Len(reqs') = Len(reqs)
  <2>1. CASE \E k \in DOMAIN reqs : reqs' = Append(reqs, reqs[k]) /\ UNCHANGED reps
    <3>1. PICK k \in DOMAIN reqs : reqs' = Append(reqs, reqs[k]) /\ reps' = reps
      BY <2>1
    <3>2. reqs[k] \in Datagrams
      BY <1>2, ElementOfSeq, LenProperties
    <3> QED
      BY <1>2, <3>1, <3>2, Added
  <2>2. CASE \E k \in DOMAIN reps : reps' = Append(reps, reps[k]) /\ UNCHANGED reqs
    <3>1. PICK k \in DOMAIN reps : reps' = Append(reps, reps[k]) /\ reqs' = reqs
      BY <2>2
    <3>2. reps[k] \in Datagrams
      BY <1>2, ElementOfSeq, LenProperties
    <3> QED
      BY <1>2, <3>1, <3>2, Added
  <2> QED
    BY <2>1, <2>2 DEF Duplicate
<1>4. TypeOK'
  BY <1>1, <1>3 DEF AllTypeOK, TypeOK
<1>5. AllTypeOK'
  BY <1>1, <1>4 DEF AllTypeOK
<1>6. timeouts' \in Nat /\ strays' \in Nat /\ timeouts' + strays' = (timeouts + strays) + 1
  BY <1>1, StraysAssumption DEF AllTypeOK, TypeOK
<1>7. InStep'
  BY <1>6, MoreExcuses
<1>8. FlightBounded'
  <2>1. timeouts \in Nat /\ strays \in Nat /\ UNCHANGED <<pc, timeouts, prog>>
    BY <1>1, StraysAssumption DEF AllTypeOK, TypeOK
  <2>2. InFlight' = InFlight + 1 /\ InFlight \in Nat
    <3> DEFINE m == Len(reqs)
               n == Len(reps)
    <3>1. m \in Nat /\ n \in Nat
      BY <1>2
    <3>2. Len(reqs') + Len(reps') = (m + 1) + n \/ Len(reqs') + Len(reps') = m + (n + 1)
      BY <1>3
    <3> HIDE DEF m, n
    <3>3. m + n \in Nat /\ (m + 1) + n = (m + n) + 1 /\ m + (n + 1) = (m + n) + 1
      BY ONLY <3>1
    <3> QED
      BY <3>2, <3>3 DEF InFlight, m, n
  <2>3. Excuses' = Excuses + 1 /\ Excuses \in Nat
    BY <1>1, <2>1 DEF Excuses
  <2>4. \A m, n \in Nat : /\ m <= n + 1 => m + 1 <= (n + 1) + 1
                         /\ m <= n + 0 => m + 1 <= (n + 1) + 0
    OBVIOUS
  <2> QED
    BY <2>1, <2>2, <2>3, <2>4 DEF FlightBounded
<1>9. PrintedCount' /\ RtoClamped' /\ AlarmsOK'
  BY <1>1 DEF PrintedCount, RtoClamped, AlarmsOK
<1> QED
  BY <1>5, <1>7, <1>8, <1>9

\* An echo is as many datagrams as before, a loss one less, and each is one of those.
LEMMA NetworkIInv ==
  ASSUME IInv, Network, UNCHANGED more
  PROVE  IInv'
<1> USE DEF IInv
<1>1. /\ UNCHANGED <<pc, call, rttinit, rto, nrexmt, sendseq, recvseq, buf, printed>>
      /\ UNCHANGED <<timeouts, prog, strays, alarm, pipe>>
  BY DEF Network, Echo, Lose, rttinfo, msg, more
<1>2. reqs \in Seq(Datagrams) /\ reps \in Seq(Datagrams)
  BY DEF AllTypeOK, TypeOK
<1>3. /\ reqs' \in Seq(Datagrams) /\ reps' \in Seq(Datagrams)
      /\ Len(reqs') + Len(reps') <= Len(reqs) + Len(reps)
      /\ (\A k \in DOMAIN reqs : reqs[k].line = call)
         /\ (\A k \in DOMAIN reps : reps[k].line = call)
           => /\ \A k \in DOMAIN reqs' : reqs'[k].line = call
              /\ \A k \in DOMAIN reps' : reps'[k].line = call
  <2>1. CASE Echo
    <3>1. reqs # <<>> /\ reqs' = Tail(reqs) /\ reps' = Append(reps, Head(reqs))
      BY <2>1 DEF Echo
    <3>2. /\ Len(reqs) \in Nat \ {0} /\ Len(reps) \in Nat /\ DOMAIN reqs = 1 .. Len(reqs)
          /\ Head(reqs) \in Datagrams /\ Head(reqs) = reqs[1]
      BY <1>2, <3>1
    <3>3. /\ reqs' \in Seq(Datagrams) /\ Len(reqs') = Len(reqs) - 1
          /\ \A j \in DOMAIN reqs' : \E m \in DOMAIN reqs : reqs'[j] = reqs[m]
      <4>1. /\ reqs' \in Seq(Datagrams) /\ Len(reqs') = Len(reqs) - 1
            /\ DOMAIN reqs' = 1 .. Len(reqs) - 1
            /\ \A j \in 1 .. Len(reqs) - 1 : reqs'[j] = reqs[j + 1]
        BY <1>2, <3>1, <3>2
      <4>2. \A j \in 1 .. Len(reqs) - 1 : j + 1 \in DOMAIN reqs
        BY <3>2
      <4> QED
        BY <4>1, <4>2
    <3>4. /\ reps' \in Seq(Datagrams) /\ Len(reps') = Len(reps) + 1
          /\ DOMAIN reps' = 1 .. Len(reps) + 1 /\ DOMAIN reps = 1 .. Len(reps)
          /\ reps'[Len(reps) + 1] = reqs[1] /\ 1 \in DOMAIN reqs
          /\ \A j \in DOMAIN reps : reps'[j] = reps[j]
      BY <1>2, <3>1, <3>2, Added, LenProperties
    <3>5. \A j \in DOMAIN reps' : j \in DOMAIN reps \/ j = Len(reps) + 1
      BY <3>2, <3>4
    <3> QED
      BY <3>2, <3>3, <3>4, <3>5
  <2>2. CASE Lose
    <3>1. Len(reqs) \in Nat /\ Len(reps) \in Nat
      BY <1>2, LenProperties
    <3>2. CASE \E k \in DOMAIN reqs : reqs' = RemoveAt(reqs, k) /\ UNCHANGED reps
      <4>1. PICK k \in DOMAIN reqs : reqs' = RemoveAt(reqs, k) /\ reps' = reps
        BY <3>2
      <4>2. /\ reqs' \in Seq(Datagrams) /\ Len(reqs') = Len(reqs) - 1
            /\ \A j \in DOMAIN reqs' : \E m \in DOMAIN reqs : reqs'[j] = reqs[m]
        BY <1>2, <4>1, Removed
      <4> QED
        BY <1>2, <3>1, <4>1, <4>2
    <3>3. CASE \E k \in DOMAIN reps : reps' = RemoveAt(reps, k) /\ UNCHANGED reqs
      <4>1. PICK k \in DOMAIN reps : reps' = RemoveAt(reps, k) /\ reqs' = reqs
        BY <3>3
      <4>2. /\ reps' \in Seq(Datagrams) /\ Len(reps') = Len(reps) - 1
            /\ \A j \in DOMAIN reps' : \E m \in DOMAIN reps : reps'[j] = reps[m]
        BY <1>2, <4>1, Removed
      <4> QED
        BY <1>2, <3>1, <4>1, <4>2
    <3> QED
      BY <2>2, <3>2, <3>3 DEF Lose
  <2> QED
    BY <2>1, <2>2 DEF Network
<1>4. TypeOK'
  BY <1>1, <1>3 DEF AllTypeOK, TypeOK
<1>5. AllTypeOK'
  BY <1>1, <1>4 DEF AllTypeOK
<1>6. FlightBounded'
  <2>1. /\ Len(reqs) \in Nat /\ Len(reps) \in Nat /\ Len(reqs') \in Nat /\ Len(reps') \in Nat
        /\ timeouts \in Nat /\ strays \in Nat
    BY <1>2, <1>3, LenProperties, StraysAssumption DEF AllTypeOK, TypeOK
  <2>2. UNCHANGED <<pc, timeouts, prog, strays>>
    BY <1>1
  <2> QED
    BY <1>3, <2>1, <2>2 DEF FlightBounded, InFlight, Excuses
<1>7. InStep'
  BY <1>1, <1>3 DEF InStep, Excuses
<1>8. PrintedCount' /\ RtoClamped' /\ AlarmsOK'
  BY <1>1 DEF PrintedCount, RtoClamped, AlarmsOK
<1> QED
  BY <1>5, <1>6, <1>7, <1>8

LEMMA NextIInv == IInv /\ [AllNext]_allvars => IInv'
<1> SUFFICES ASSUME IInv, [AllNext]_allvars PROVE IInv'
  OBVIOUS
<1>1. CASE UNCHANGED allvars
  BY <1>1
  DEF allvars, vars, more, rttinfo, msg, net, IInv, AllTypeOK, TypeOK, FlightBounded,
      InFlight, Excuses, PrintedCount, InStep, AlarmsOK, RtoClamped
<1>2. CASE Rtt
  BY <1>2, BeginIInv, SendMsgIInv, RecvMsgIInv, StopIInv, TimeoutIInv DEF Rtt, Client
<1> QED
  BY <1>1, <1>2, SendToIInv, RecvFromIInv, TimedOutIInv, StrayIInv, DuplicateIInv, NetworkIInv
  DEF AllNext, OneClient

-----------------------------------------------------------------------------
\* A call starts with a timeout within RTT_RXTMIN .. RTT_RXTMAX, although rtt_timeout
\* doubles it without a limit and a call may end in three ways; and it sends its
\* request again RTT_MAXNREXMT times at most.
THEOREM TimeoutClamped == AllSpec => []RtoClamped
<1>1. IInv => RtoClamped
  BY DEF IInv, RtoClamped
<1> QED
  BY InitIInv, NextIInv, <1>1, PTL DEF AllSpec

\* Without a timeout or a stray every answer printed is the right one; with some,
\* no more datagrams are left over than there were of these; no alarm is left over.
THEOREM OutOfStepIsBounded == AllSpec => []OutOfStepBounded
<1>1. IInv => OutOfStepBounded
  <2> SUFFICES ASSUME IInv PROVE OutOfStepBounded
    OBVIOUS
  <2>1. pc = "idle" => Len(reqs) + Len(reps) <= timeouts + strays
    <3>1. Excuses \in Nat
      BY StraysAssumption DEF IInv, AllTypeOK, TypeOK, Excuses
    <3> QED
      BY <3>1 DEF IInv, FlightBounded, InFlight, Excuses
  <2>2. timeouts + strays = 0 => Wrong = {}
    BY DEF IInv, InStep, Excuses, Wrong
  <2>3. pc = "idle" => ~alarm /\ ~pipe
    BY DEF IInv, AlarmsOK
  <2> QED
    BY <2>1, <2>2, <2>3 DEF IInv, OutOfStepBounded
<1> QED
  BY InitIInv, NextIInv, <1>1, PTL DEF AllSpec

-----------------------------------------------------------------------------
(* The signal-driven server *)

\* Before the loop, and between its reset and the decrement, nqueue is not negative,
\* and the handler, which runs only there, has stored what it has counted.
CountsOK ==
    /\ spc \in {"setup", "async", "nonblock", "unblock", "send", "block", "dec"} => nqueue >= 0
    /\ inhandler /\ Up => 0 <= nqueue /\ nread <= nqueue

ServerIInv == SigioTypeOK /\ NqueueExclusive /\ CountsOK

LEMMA NextSlotType ==
  ASSUME NEW s \in Slots
  PROVE  NextSlot(s) \in Slots
  BY QSizeAssumption DEF NextSlot, Slots

LEMMA ServerInit == SigioInit => ServerIInv
<1> SUFFICES ASSUME SigioInit PROVE ServerIInv
  OBVIOUS
<1> USE QSizeAssumption
<1>1. 0 \in Slots /\ 0 \in -1 .. QSIZE /\ 0 \in 0 .. QSIZE
  BY DEF Slots
<1>2. SigioTypeOK
  BY <1>1 DEF SigioInit, SigioTypeOK
<1>3. NqueueExclusive /\ CountsOK
  BY DEF SigioInit, NqueueExclusive, CountsOK
<1> QED
  BY <1>2, <1>3 DEF ServerIInv

LEMMA ArriveIInv ==
  ASSUME ServerIInv, NEW d \in Dgs, Arrive(d)
  PROVE  ServerIInv'
<1>1. Append(socket, d) \in Seq(Dgs)
  BY DEF ServerIInv, SigioTypeOK
<1>2. SigioTypeOK'
  BY <1>1 DEF Arrive, ServerIInv, SigioTypeOK, ring
<1> QED
  BY <1>2 DEF Arrive, ServerIInv, NqueueExclusive, CountsOK, ring, Up

LEMMA MainIInv ==
  ASSUME ServerIInv, Main
  PROVE  ServerIInv'
<1> USE QSizeAssumption DEF ServerIInv
<1>1. CASE Setup
  BY <1>1
  DEF Setup, Step, SigioTypeOK, NqueueExclusive, CountsOK, ring, hist, Up
<1>2. CASE Test
  BY <1>2
  DEF Test, SigioTypeOK, NqueueExclusive, CountsOK, hist, Up
<1>3. CASE Unblock
  BY <1>3 DEF Unblock, Step, SigioTypeOK, NqueueExclusive, CountsOK, ring, hist, Up
<1>4. CASE Send
  <2>1. iget' \in Slots
    BY <1>4, NextSlotType DEF Send, SigioTypeOK
  <2>2. replied' \subseteq Dgs
    BY <1>4 DEF Send, SigioTypeOK
  <2>3. SigioTypeOK'
    BY <1>4, <2>1, <2>2 DEF Send, Step, SigioTypeOK
  <2> QED
    BY <1>4, <2>3 DEF Send, Step, NqueueExclusive, CountsOK, Up
<1>5. CASE Block
  BY <1>5 DEF Block, Step, SigioTypeOK, NqueueExclusive, CountsOK, ring, hist, Up
<1>6. CASE Dec
  <2>1. nqueue \in 0 .. QSIZE /\ nqueue' = nqueue - 1
    BY <1>6 DEF Dec, Step, SigioTypeOK, CountsOK
  <2>2. nqueue' \in -1 .. QSIZE
    BY <2>1
  <2>3. SigioTypeOK'
    BY <1>6, <2>2 DEF Dec, Step, SigioTypeOK, hist
  <2> QED
    BY <1>6, <2>3 DEF Dec, Step, NqueueExclusive, CountsOK, Up
<1> QED
  BY <1>1, <1>2, <1>3, <1>4, <1>5, <1>6 DEF Main

LEMMA HandlerIInv ==
  ASSUME ServerIInv, Handler
  PROVE  ServerIInv'
<1> USE QSizeAssumption DEF ServerIInv
<1>1. CASE Enter
  <2>1. spc \in {"async", "nonblock", "send", "block"} /\ nqueue >= 0
    BY <1>1 DEF Enter, Up, Blocked, SigioTypeOK, CountsOK
  <2>2. nread' \in 0 .. QSIZE /\ nread' <= nqueue' /\ nqueue' = nqueue
    BY <1>1, <2>1 DEF Enter, ring, SigioTypeOK
  <2>3. SigioTypeOK'
    BY <1>1, <2>2 DEF Enter, SigioTypeOK, ring, hist
  <2> QED
    BY <1>1, <2>1, <2>2, <2>3 DEF Enter, NqueueExclusive, CountsOK
<1>2. CASE Overflow
  BY <1>2 DEF Overflow, SigioTypeOK, NqueueExclusive, CountsOK, ring, hist, Up
<1>3. CASE Recv
  <2>1. Head(socket) \in Dgs /\ Tail(socket) \in Seq(Dgs)
    BY <1>3 DEF Recv, GoOn, SigioTypeOK
  <2>2. /\ nread \in 0 .. QSIZE /\ nqueue \in 0 .. QSIZE - 1 /\ nread <= nqueue
        /\ nread' = nread + 1 /\ nqueue' = nqueue + 1
    BY <1>3 DEF Recv, GoOn, Store, Full, SigioTypeOK, CountsOK
  <2>3. iput' \in Slots
    BY <1>3, NextSlotType DEF Recv, GoOn, Store, SigioTypeOK
  <2>4. dg' \in [Slots -> Dgs \cup {None}] /\ lost' \subseteq Dgs
    BY <1>3, <2>1 DEF Recv, GoOn, Store, SigioTypeOK
  <2>5. nread' \in 0 .. QSIZE /\ nqueue' \in -1 .. QSIZE /\ nread' <= nqueue'
    BY <2>2
  <2>6. SigioTypeOK'
    BY <1>3, <2>1, <2>3, <2>4, <2>5 DEF Recv, GoOn, SigioTypeOK
  <2> QED
    BY <1>3, <2>2, <2>5, <2>6 DEF Recv, GoOn, NqueueExclusive, CountsOK, Up
<1>4. CASE Return
  BY <1>4 DEF Return, SigioTypeOK, NqueueExclusive, CountsOK, ring, hist, Up
<1> QED
  BY <1>1, <1>2, <1>3, <1>4 DEF Handler

LEMMA ServerNext == ServerIInv /\ [SigioNext]_(sigiovars) => ServerIInv'
<1> SUFFICES ASSUME ServerIInv, [SigioNext]_(sigiovars) PROVE ServerIInv'
  OBVIOUS
<1>1. CASE UNCHANGED sigiovars
  BY <1>1 DEF sigiovars, ring, hist, ServerIInv, SigioTypeOK, NqueueExclusive, CountsOK, Up
<1> QED
  BY <1>1, ArriveIInv, MainIInv, HandlerIInv DEF SigioNext

\* The indices into dg[QSIZE] and cntread[QSIZE + 1] stay in bounds and nqueue
\* in -1 .. QSIZE although the loop resets it under the handler's feet.
THEOREM TypeCorrect == SigioSpec => []SigioTypeOK
<1>1. ServerIInv => SigioTypeOK
  BY DEF ServerIInv
<1> QED
  BY ServerInit, ServerNext, <1>1, PTL DEF SigioSpec

\* The handler never interrupts dg_echo where it tests or changes nqueue, although
\* it can run as soon as FIOASYNC is on, before SIGIO is blocked for the first time.
THEOREM Exclusive == SigioSpec => []NqueueExclusive
<1>1. ServerIInv => NqueueExclusive
  BY DEF ServerIInv
<1> QED
  BY ServerInit, ServerNext, <1>1, PTL DEF SigioSpec

\* A datagram that came after FIOASYNC never waits without a SIGIO pending or a
\* handler in its loop to read it: blocking SIGIO merges signals, and the
\* handler's loop up to EWOULDBLOCK makes up for that.  A handler entered before
\* FIONBIO stays in its loop, in a recvfrom that blocks.
THEOREM SignalNotLost == SigioSpec => []NoLostSignal
<1>1. SigioInit => NoLostSignal
  BY DEF SigioInit, NoLostSignal, Unread
<1>2. ServerIInv /\ NoLostSignal /\ [SigioNext]_(sigiovars) => NoLostSignal'
  <2> SUFFICES ASSUME ServerIInv, NoLostSignal, [SigioNext]_(sigiovars) PROVE NoLostSignal'
    OBVIOUS
  <2>1. ASSUME NEW d \in Dgs, Arrive(d) PROVE NoLostSignal'
    <3>1. Unread' = Unread \cup {d}
      <4>1. socket \in Seq(Dgs) /\ socket' = Append(socket, d)
        BY <2>1 DEF Arrive, ServerIInv, SigioTypeOK
      <4>2. /\ Len(socket) \in Nat /\ DOMAIN socket = 1 .. Len(socket)
            /\ DOMAIN socket' = 1 .. Len(socket) + 1
            /\ socket'[Len(socket) + 1] = d
            /\ \A k \in 1 .. Len(socket) : socket'[k] = socket[k]
        BY <4>1
      <4> QED
        BY <4>2 DEF Unread
    <3>2. CASE spc = "setup"
      BY <2>1, <3>1, <3>2 DEF Arrive, NoLostSignal, Up
    <3>3. CASE spc # "setup"
      BY <2>1, <3>3 DEF Arrive, NoLostSignal
    <3> QED
      BY <3>2, <3>3
  <2>2. CASE Main
    BY <2>2 DEF Main, Setup, Test, Unblock, Send, Block, Dec, Step, hist, NoLostSignal, Unread, Up
  <2>3. CASE Enter \/ Recv
    BY <2>3 DEF Enter, Recv, GoOn, NoLostSignal
  <2>4. CASE Overflow
    BY <2>4 DEF Overflow, NoLostSignal, Up
  <2>5. CASE Return
    <3>1. Unread' = {}
      BY <2>5 DEF Return, Unread
    <3> QED
      BY <3>1 DEF NoLostSignal
  <2>6. CASE UNCHANGED sigiovars
    BY <2>6 DEF sigiovars, hist, NoLostSignal, Unread, Up
  <2> QED
    BY <2>1, <2>2, <2>3, <2>4, <2>5, <2>6 DEF SigioNext, Handler
<1> QED
  BY ServerInit, ServerNext, <1>1, <1>2, PTL DEF SigioSpec
=============================================================================
