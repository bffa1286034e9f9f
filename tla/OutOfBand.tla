----------------------------- MODULE OutOfBand ------------------------------
(***************************************************************************)
(* Out-of-band data between tcpsend01.c and the receivers tcpserv01.c,     *)
(* which reads the urgent byte in a handler of SIGURG, and                 *)
(* tcpserv_select.c, which finds it as the exceptional condition of select *)
(* (unit24_out_of_data).                                                   *)
(*                                                                         *)
(* The bytes sent are 1 .. Size.  What Linux does with urgent data is      *)
(* external: there is one urgent mark, a later one replaces it, a mark may *)
(* be announced before its byte arrives, a read stops at the mark and the  *)
(* next one steps over it.  That the signal mask, printf and the wrappers  *)
(* around connect and accept do not fail is assumed; buff[n] with n = -1   *)
(* writes in front of the array, where nothing in use lies.                *)
(***************************************************************************)
EXTENDS Naturals, Sequences, FiniteSetsExt, Functions

CONSTANTS Ends,     \* the bytes sent after each write and send of the sender
          Urgent    \* the bytes sent with MSG_OOB, each by a call of its own

ASSUME EndsAssumption ==
    /\ Ends \in Seq(Nat) /\ Len(Ends) > 0
    /\ \A k \in 1 .. Len(Ends) - 1 : Ends[k] < Ends[k + 1]
ASSUME UrgentAssumption ==
    \A u \in Urgent : \E k \in DOMAIN Ends :
        Ends[k] = u /\ u = (IF k = 1 THEN 0 ELSE Ends[k - 1]) + 1

Size == Ends[Len(Ends)]

VARIABLES
    server,             \* which receiver
    calls,              \* calls of the sender so far
    arrived, fin,       \* rcv_nxt, as bytes in order; the end has come too
    copied,             \* copied_seq: bytes read or stepped over
    mark, urgdata,      \* urg_seq, the byte marked last; urg_data
    owner, sigurg,      \* F_SETOWN was done; SIGURG is pending
    pc,                 \* where the receiver is
    justreadoob, rset,  \* of tcpserv_select: its flag; select reported data too
    normal,             \* bytes printed as they were read
    oob,                \* bytes printed as out-of-band
    late, replaced      \* marks that no recv could get; marks a later one replaced

kernel == <<arrived, fin, mark, urgdata, replaced>>
oobvars == <<server, calls, kernel, copied, owner, sigurg, pc, justreadoob, rset,
            normal, oob, late>>

OobInit ==
    /\ server \in {"tcpserv01", "tcpserv_select"}
    /\ calls = 0 /\ arrived = 0 /\ fin = FALSE
    /\ copied = 0 /\ mark = 0 /\ urgdata = "none"
    /\ owner = FALSE /\ sigurg = FALSE
    /\ pc = IF server = "tcpserv01" THEN "setown" ELSE "select"
    /\ justreadoob = FALSE /\ rset = FALSE
    /\ normal = <<>> /\ oob = {} /\ late = {} /\ replaced = {}

-----------------------------------------------------------------------------
(* The sender and the network *)

sent == IF calls = 0 THEN 0 ELSE Ends[calls]

\* The next write or send; the sleeps between them promise nothing.
NextCall ==
    /\ calls < Len(Ends)
    /\ calls' = calls + 1
    /\ UNCHANGED <<server, kernel, copied, owner, sigurg, pc, justreadoob, rset, normal,
                   oob, late>>

AtMark == urgdata # "none" /\ mark = copied + 1

\* A segment made when w bytes were written brings the bytes up to m, and marks the
\* last urgent one of the w.  A new mark raises SIGURG; with the read point at the
\* old one and its byte there, that byte is stepped over.
Segment ==
    \E m \in arrived .. sent : \E w \in m .. sent :
        LET p   == Max({u \in Urgent : u <= w} \cup {0})
            new == p > arrived /\ (urgdata = "none" \/ p > mark)
        IN  /\ m > arrived \/ new
            /\ arrived' = m
            /\ IF new
                 THEN /\ mark' = p
                      /\ urgdata' = IF p <= m THEN "valid" ELSE "notyet"
                      /\ replaced' = replaced \cup {u \in Urgent : copied < u /\ u < p}
                      /\ copied' = IF AtMark /\ copied < arrived THEN mark ELSE copied
                      /\ sigurg' = (sigurg \/ owner)
                      /\ late' = IF owner \/ server = "tcpserv_select" THEN late
                                 ELSE late \cup {p}
                 ELSE /\ urgdata' = IF urgdata = "notyet" /\ mark <= m THEN "valid"
                                    ELSE urgdata
                      /\ UNCHANGED <<mark, replaced, copied, sigurg, late>>
    /\ UNCHANGED <<server, calls, fin, owner, pc, justreadoob, rset, normal, oob>>

\* The sender has left after its last call.
Fin ==
    /\ calls = Len(Ends) /\ arrived = Size /\ ~fin
    /\ fin' = TRUE
    /\ UNCHANGED <<server, calls, arrived, copied, mark, urgdata, replaced, owner, sigurg,
                   pc, justreadoob, rset, normal, oob, late>>

-----------------------------------------------------------------------------
(* The receivers *)

\* signal and Fcntl(F_SETOWN) of tcpserv01, after accept.
SetOwn ==
    /\ pc = "setown"
    /\ owner' = TRUE
    /\ pc' = "read"
    /\ UNCHANGED <<server, calls, kernel, copied, sigurg, justreadoob, rset, normal, oob,
                   late>>

\* sig_urg interrupts the loop.
Interrupt ==
    /\ server = "tcpserv01" /\ sigurg /\ pc = "read"
    /\ sigurg' = FALSE
    /\ pc' = "recv"
    /\ UNCHANGED <<server, calls, kernel, copied, owner, justreadoob, rset, normal, oob,
                   late>>

\* The byte at the mark alone does not make the connection readable.
Readable == arrived > copied + (IF AtMark THEN 1 ELSE 0) \/ fin

\* select of tcpserv_select: the exceptional condition is handled first.
Select ==
    LET exceptional == ~justreadoob /\ urgdata = "valid"
    IN  /\ pc = "select" /\ (exceptional \/ Readable)
        /\ pc' = IF exceptional THEN "recv" ELSE "read"
        /\ rset' = Readable
        /\ UNCHANGED <<server, calls, kernel, copied, owner, sigurg, justreadoob, normal,
                       oob, late>>

\* Mutant: the read after recv is made whatever select reported.
AlwaysRead == "read"

AfterRecv == IF server = "tcpserv01" \/ rset THEN "read" ELSE "select"

\* recv with MSG_OOB gets the marked byte; before it came the call fails with
\* EAGAIN, when it was read already or passed with EINVAL.
RecvOob ==
    /\ pc = "recv"
    /\ IF urgdata = "valid"
         THEN oob' = oob \cup {mark} /\ urgdata' = "read" /\ UNCHANGED late
         ELSE /\ late' = IF urgdata = "notyet" THEN late \cup {mark} ELSE late
              /\ UNCHANGED <<oob, urgdata>>
    /\ justreadoob' = (server = "tcpserv_select")
    /\ pc' = AfterRecv
    /\ UNCHANGED <<server, calls, arrived, fin, mark, replaced, copied, owner, sigurg, rset,
                   normal>>

\* read steps over the mark, unless a signal has to be handled first; it may have to
\* wait for what comes behind.
StepOver ==
    /\ pc = "read" /\ AtMark /\ copied < arrived /\ ~sigurg
    /\ copied' = mark /\ urgdata' = "none"
    /\ UNCHANGED <<server, calls, arrived, fin, mark, replaced, owner, sigurg, pc,
                   justreadoob, rset, normal, oob, late>>

\* Mutant: the flag is never reset.
StaysSet == justreadoob

AfterRead == FALSE

\* read returns all there is, up to the mark; printf.
Read ==
    LET stop == IF urgdata # "none" /\ mark <= arrived THEN mark - 1 ELSE arrived
    IN  /\ pc = "read" /\ copied < stop
        /\ normal' = normal \o [k \in 1 .. stop - copied |-> copied + k]
        /\ copied' = stop
        /\ justreadoob' = AfterRead
        /\ pc' = IF server = "tcpserv01" THEN "read" ELSE "select"
        /\ UNCHANGED <<server, calls, kernel, owner, sigurg, rset, oob, late>>

\* read returns 0: exit.
Eof ==
    /\ pc = "read" /\ fin /\ copied = Size
    /\ pc' = "done"
    /\ UNCHANGED <<server, calls, kernel, copied, owner, sigurg, justreadoob, rset, normal,
                   oob, late>>

-----------------------------------------------------------------------------
Receiver == SetOwn \/ Interrupt \/ Select \/ RecvOob \/ StepOver \/ Read \/ Eof

OobNext == NextCall \/ Segment \/ Fin \/ Receiver

OobSpec == OobInit /\ [][OobNext]_oobvars

-----------------------------------------------------------------------------
(* Properties *)

OobTypeOK ==
    /\ server \in {"tcpserv01", "tcpserv_select"}
    /\ pc \in {"setown", "select", "recv", "read", "done"}
    /\ calls \in 0 .. Len(Ends) /\ {arrived, copied, mark} \subseteq 0 .. Size
    /\ copied <= arrived /\ arrived <= sent
    /\ urgdata \in {"none", "notyet", "valid", "read"}
    /\ {fin, owner, sigurg, justreadoob, rset} \subseteq BOOLEAN
    /\ normal \in Seq(1 .. Size) /\ {oob, late, replaced} \subseteq SUBSET Urgent

\* Nothing is lost or printed twice without a cause: ordinary bytes are printed once
\* and in order; an urgent byte that was passed was printed as out-of-band, unless
\* its signal came before F_SETOWN, recv before the byte, or a later mark replaced
\* it, or, in tcpserv_select, it came right behind another one, with no byte between
\* them whose read resets justreadoob; only a replaced one is printed among the
\* others, perhaps a second time.
Accounted ==
    /\ OobTypeOK
    /\ \A i, j \in DOMAIN normal : i < j => normal[i] < normal[j]
    /\ (1 .. copied) \ Urgent = Range(normal) \ Urgent
    /\ \A u \in Urgent : u <= copied =>
         \/ u \in oob \cup late \cup replaced
         \/ server = "tcpserv_select" /\ u - 1 \in Urgent
    /\ Range(normal) \cap Urgent \subseteq replaced

\* tcpserv_select reads only what select reported, and what a new mark or recv
\* changed since then does not make the read block.
ReadNeverBlocks == server = "tcpserv_select" /\ pc = "read" => Readable
=============================================================================
