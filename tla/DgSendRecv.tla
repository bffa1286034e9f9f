----------------------------- MODULE DgSendRecv -----------------------------
(***************************************************************************)
(* The reliable UDP request of unit22_advanced_udp_programing: dg_cli of   *)
(* rtt_udp_cli.c calls dg_send_recv, which numbers and stamps a request,   *)
(* sends it, and sends it again whenever SIGALRM comes before the reply.   *)
(* The server echoes datagrams; they may be lost, late or out of order.    *)
(*                                                                         *)
(* The headers are swapped in the code: iovsend points at recvhdr (:32)    *)
(* and iovrecv at sendhdr (:41).  So recvhdr, which nothing ever writes,   *)
(* goes out, and what comes back replaces the number that is waited for.   *)
(*                                                                         *)
(* The stamps and the estimate behind rtt_rto are left out: rtt_stop       *)
(* leaves any value its clamp lets through.                                *)
(***************************************************************************)
EXTENDS Integers, Sequences, FiniteSets, SequencesExt

CONSTANTS Calls,            \* lines dg_cli reads
          RXTMIN, RXTMAX,   \* RTT_RXTMIN, RTT_RXTMAX: bounds of rtt_rto
          RtoStart,         \* the rtt_rto of rtt_init
          MAXNREXMT         \* RTT_MAXNREXMT

ASSUME RtoAssumption    == {RXTMIN, RtoStart, RXTMAX} \subseteq Nat \ {0}
                           /\ RXTMIN <= RtoStart /\ RtoStart <= RXTMAX
ASSUME BoundsAssumption == {Calls, MAXNREXMT} \subseteq Nat

VARIABLES
    pc,                     \* where dg_send_recv is
    call,                   \* the number of this call
    rttinit,                \* rttinit
    rto, nrexmt,            \* rtt_rto, rtt_nrexmt
    sendseq, recvseq,       \* sendhdr.seq, recvhdr.seq
    buf,                    \* inbuff: the call whose line was echoed, or 0
    printed,                \* what dg_cli printed for each call so far
    reqs, reps,             \* datagrams in flight: their number and line
    timeouts                \* alarms so far

rttinfo == <<rttinit, rto, nrexmt>>
msg     == <<sendseq, recvseq, buf>>
net     == <<reqs, reps>>
vars    == <<pc, call, rttinfo, msg, printed, net, timeouts>>

Init ==
    /\ pc = "idle" /\ call = 0
    /\ rttinit = FALSE /\ rto = 0 /\ nrexmt = 0
    /\ sendseq = 0 /\ recvseq = 0 /\ buf = 0
    /\ printed = <<>>
    /\ reqs = <<>> /\ reps = <<>> /\ timeouts = 0

-----------------------------------------------------------------------------
(* dg_send_recv *)

\* rtt_init, the first time and after giving up.
RttInit ==
    IF rttinit THEN UNCHANGED <<rttinit, rto>> ELSE rttinit' = TRUE /\ rto' = RtoStart

\* The next line: a new sequence number and rtt_newpack.
Begin ==
    /\ pc = "idle" /\ call < Calls
    /\ call' = call + 1
    /\ RttInit
    /\ sendseq' = sendseq + 1
    /\ nrexmt' = 0
    /\ pc' = "send"
    /\ UNCHANGED <<recvseq, buf, printed, net, timeouts>>

\* The header of a request is recvhdr.
OutSeq == recvseq

\* Mutant: sendmsg before the label sendagain and after it.
SentTwice == reqs \o [k \in 1 .. 2 |-> [seq |-> OutSeq, line |-> call]]

Sent == Append(reqs, [seq |-> OutSeq, line |-> call])

\* sendmsg, then alarm(rtt_start) and sigsetjmp (rtt_start is 2 s at least: that
\* SIGALRM comes before sigsetjmp is left out).
SendMsg ==
    /\ pc = "send"
    /\ reqs' = Sent
    /\ pc' = "recv"
    /\ UNCHANGED <<call, rttinfo, msg, printed, reps, timeouts>>

\* recvmsg of any datagram that is there: the header lands in sendhdr, and the
\* loop goes on while recvhdr.seq differs from it.
RecvMsg ==
    /\ pc = "recv"
    /\ \E k \in DOMAIN reps :
         /\ sendseq' = reps[k].seq
         /\ buf' = reps[k].line
         /\ reps' = RemoveAt(reps, k)
    /\ pc' = IF recvseq # sendseq' THEN "recv" ELSE "got"
    /\ UNCHANGED <<call, rttinfo, recvseq, printed, reqs, timeouts>>

\* dg_cli prints inbuff, also when dg_send_recv returned -1.
Fputs == printed' = Append(printed, buf)

\* Mutant: rtt_stop computes the next timeout without rtt_minmax.
Unclamped == RXTMIN - 1 .. RXTMAX

Clamped == RXTMIN .. RXTMAX

\* alarm(0), rtt_stop and the return.
Stop ==
    /\ pc = "got"
    /\ rto' \in Clamped
    /\ Fputs
    /\ pc' = "idle"
    /\ UNCHANGED <<call, rttinit, nrexmt, msg, net, timeouts>>

\* Mutant: alarm before the label sendagain.
AlarmOnce == pc \in {"recv", "got"} /\ nrexmt = 0

GiveUp == nrexmt + 1 > MAXNREXMT

\* The timer runs, also when recvmsg has just returned.
AlarmSet == pc \in {"recv", "got"}

\* SIGALRM: rtt_timeout doubles rtt_rto, and the request is sent again or given up
\* with -1.
Timeout ==
    /\ AlarmSet
    /\ rto' = 2 * rto
    /\ nrexmt' = nrexmt + 1
    /\ IF GiveUp
         THEN /\ rttinit' = FALSE
              /\ Fputs
              /\ pc' = "idle"
         ELSE /\ pc' = "send"
              /\ UNCHANGED <<rttinit, printed>>
    /\ timeouts' = timeouts + 1
    /\ UNCHANGED <<call, msg, net>>

-----------------------------------------------------------------------------
(* The network and the echo server *)

\* The oldest request is echoed.  Replies are read in any order, so it is all one
\* whether requests overtake each other or replies do.
Echo ==
    /\ reqs # <<>>
    /\ reqs' = Tail(reqs)
    /\ reps' = Append(reps, Head(reqs))
    /\ UNCHANGED <<pc, call, rttinfo, msg, printed, timeouts>>

\* Any datagram is lost.
Lose ==
    /\ \/ /\ \E k \in DOMAIN reqs : reqs' = RemoveAt(reqs, k)
          /\ UNCHANGED reps
       \/ /\ \E k \in DOMAIN reps : reps' = RemoveAt(reps, k)
          /\ UNCHANGED reqs
    /\ UNCHANGED <<pc, call, rttinfo, msg, printed, timeouts>>

Client == Begin \/ SendMsg \/ RecvMsg \/ Stop \/ Timeout

Network == Echo \/ Lose

Next == Client \/ Network

Spec == Init /\ [][Next]_vars

-----------------------------------------------------------------------------
(* Properties *)

\* A line numbered 0 is none of the client's.
Datagrams == [seq : Nat, line : 0 .. Calls]

\* The types of the state: rtt_nrexmt never exceeds the retransmissions allowed by
\* more than the one that gives up.
TypeOK ==
    /\ pc \in {"idle", "send", "recv", "got"}
    /\ call \in 0 .. Calls
    /\ rttinit \in BOOLEAN /\ rto \in Nat /\ nrexmt \in 0 .. MAXNREXMT + 1
    /\ sendseq \in Nat /\ recvseq \in Nat /\ buf \in 0 .. Calls
    /\ printed \in Seq(0 .. Calls) /\ timeouts \in Nat
    /\ reqs \in Seq(Datagrams) /\ reps \in Seq(Datagrams)

\* Whatever way the last call ended, and although rtt_timeout doubles the timeout
\* past RTT_RXTMAX, what is kept for the next call is within the limits, and a
\* request is first sent with such a timeout, so alarm is never given 0, which would
\* stop the timer; and it is sent again RTT_MAXNREXMT times at most.
RtoClamped ==
    /\ pc = "idle" /\ rttinit => rto \in RXTMIN .. RXTMAX
    /\ pc = "send" /\ nrexmt = 0 => rto \in RXTMIN .. RXTMAX
    /\ pc # "idle" => nrexmt <= MAXNREXMT
=============================================================================
