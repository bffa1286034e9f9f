----------------------------- MODULE DgClients ------------------------------
(***************************************************************************)
(* The five versions of dg_cli: over dg_send_recv (rtt_udp_cli.c, module   *)
(* DgSendRecv), plain (udpcli01.c, which ignores replies from elsewhere),  *)
(* with SO_RCVTIMEO (SO_RCV_ggclitimeout.c), and the broadcast clients,    *)
(* which read replies until SIGALRM interrupts recvfrom (dgclicast1.c) or  *)
(* writes to a pipe that select watches (dgclibcast6.c).                   *)
(*                                                                         *)
(* signal() of glibc has system calls restarted, so the alarm does not     *)
(* interrupt recvfrom.  dgclibcast6 passes the size of a pointer for that  *)
(* of the address, and sendto fails.                                       *)
(***************************************************************************)
EXTENDS DgSendRecv

CONSTANT MaxStrays      \* bound on the datagrams from elsewhere or doubled

ASSUME StraysAssumption == MaxStrays \in Nat

VARIABLES
    prog,       \* which program
    strays,     \* datagrams from elsewhere, or that the network doubled, so far
    alarm,      \* the alarm of the broadcast clients is set
    pipe        \* there is a byte in the pipe of dgclibcast6

more    == <<prog, strays, alarm, pipe>>
allvars == <<vars, more>>

Broadcast == {"dgclicast1", "dgclibcast6"}
Programs  == {"rtt", "udpcli01", "SO_RCV"} \cup Broadcast

AllInit == Init /\ prog \in Programs /\ strays = 0 /\ alarm = FALSE /\ pipe = FALSE

-----------------------------------------------------------------------------
\* fgets, sendto and alarm(5).
SendTo ==
    /\ prog # "rtt" /\ pc = "idle" /\ call < Calls
    /\ call' = call + 1
    /\ reqs' = IF prog = "dgclibcast6" THEN reqs
               ELSE Append(reqs, [seq |-> recvseq, line |-> call'])
    /\ alarm' = (prog \in Broadcast)
    /\ pc' = "recv"
    /\ UNCHANGED <<rttinfo, msg, printed, reps, timeouts, prog, strays, pipe>>

\* recvfrom: any datagram that is there.  The three simple programs go on with the
\* next line, udpcli01 also when it ignored what came (0 stands for that, and for a
\* line from elsewhere); the broadcast clients print it and read on.
RecvFrom ==
    /\ prog # "rtt" /\ pc = "recv"
    /\ \E k \in DOMAIN reps :
         /\ buf' = reps[k].line
         /\ reps' = RemoveAt(reps, k)
    /\ IF prog \in Broadcast
         THEN UNCHANGED <<pc, printed>>
         ELSE pc' = "idle" /\ printed' = Append(printed, buf')
    /\ UNCHANGED <<call, rttinfo, sendseq, recvseq, reqs, timeouts, more>>

\* recvfrom returns EWOULDBLOCK after the five seconds of SO_RCVTIMEO: continue.
TimedOut ==
    /\ prog = "SO_RCV" /\ pc = "recv"
    /\ pc' = "idle" /\ printed' = Append(printed, 0)
    /\ timeouts' = timeouts + 1
    /\ UNCHANGED <<call, rttinfo, msg, net, more>>

\* SIGALRM, whose handler in dgclibcast6 writes to the pipe.
RecvfromAlarm ==
    /\ alarm
    /\ alarm' = FALSE
    /\ pipe' = (prog = "dgclibcast6")
    /\ timeouts' = timeouts + 1
    /\ UNCHANGED <<pc, call, rttinfo, msg, printed, net, prog, strays>>

\* dgclibcast6 finds the byte in the pipe: break.
Break ==
    /\ pipe /\ pc = "recv"
    /\ pipe' = FALSE
    /\ pc' = "idle" /\ printed' = Append(printed, 0)
    /\ UNCHANGED <<call, rttinfo, msg, net, timeouts, prog, strays, alarm>>

\* The first sendto or sendmsg gives the socket its port.
HasPort == call > 0 /\ ~(call = 1 /\ pc = "send" /\ timeouts = 0)

\* A datagram from elsewhere, whatever its first bytes are as a header.
Stray ==
    /\ HasPort /\ strays < MaxStrays
    /\ strays' = strays + 1
    /\ \E seq \in {recvseq, recvseq + 1} :
         reps' = Append(reps, [seq |-> seq, line |-> 0])
    /\ UNCHANGED <<pc, call, rttinfo, msg, printed, reqs, timeouts, prog, alarm, pipe>>

\* The network doubles a datagram.
Duplicate ==
    /\ strays < MaxStrays
    /\ strays' = strays + 1
    /\ \/ \E k \in DOMAIN reqs : reqs' = Append(reqs, reqs[k]) /\ UNCHANGED reps
       \/ \E k \in DOMAIN reps : reps' = Append(reps, reps[k]) /\ UNCHANGED reqs
    /\ UNCHANGED <<pc, call, rttinfo, msg, printed, timeouts, prog, alarm, pipe>>

-----------------------------------------------------------------------------
Rtt       == prog = "rtt" /\ Client /\ UNCHANGED more
OneClient == Rtt \/ SendTo \/ RecvFrom \/ TimedOut \/ RecvfromAlarm \/ Break

AllNext ==
    \/ OneClient \/ Stray \/ Duplicate
    \/ Network /\ UNCHANGED more

\* The clients run, timers that are set go off, and a server that can answer does.
AllSpec ==
    /\ AllInit /\ [][AllNext]_allvars
    /\ WF_allvars(OneClient) /\ WF_allvars(Echo /\ UNCHANGED more)

-----------------------------------------------------------------------------
(* Properties *)

AllTypeOK ==
    /\ TypeOK
    /\ prog \in Programs /\ strays \in 0 .. MaxStrays /\ {alarm, pipe} \subseteq BOOLEAN

Wrong == {k \in DOMAIN printed : printed[k] # k}

\* No client but the broadcast ones tells which call a datagram answers, so one that
\* comes late, twice, or from elsewhere, puts it out of step for the calls that follow:
\* by no more datagrams than there were timeouts and strays, and never without one.
\* An alarm ends the call it was set for and no later one.
OutOfStepBounded ==
    /\ AllTypeOK
    /\ pc = "idle" => Len(reqs) + Len(reps) <= timeouts + strays
    /\ timeouts + strays = 0 => Wrong = {}
    /\ pc = "idle" => ~alarm /\ ~pipe

\* Every call returns, whatever the network loses, but for udpcli01, which waits for
\* a lost reply for ever, and dgclicast1, whose recvfrom no alarm interrupts.
CallReturns ==
    \A k \in 1 .. Calls :
        call = k ~> \/ Len(printed) >= k \/ prog = "dgclicast1"
                   \/ (prog = "udpcli01" /\ reqs = <<>> /\ reps = <<>>)
=============================================================================
