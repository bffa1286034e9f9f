----------------------------- MODULE SigioQueue -----------------------------
(***************************************************************************)
(* The signal-driven UDP echo server of unit25_signal_driver_io: a SIGIO   *)
(* handler reads datagrams into the ring dg[QSIZE], the main loop sends    *)
(* them back.  nqueue is shared by both and meant to be protected by       *)
(* blocking SIGIO.  The socket is bound before dg_echo asks for signals, so *)
(* a datagram can be there first and raise none.  From FIOASYNC to         *)
(* SIG_BLOCK the handler may interrupt the set-up, and before FIONBIO its  *)
(* recvfrom blocks.  The loop's test "while (nqueue = 0)" is an assignment:*)
(* it never suspends, and forgets at every turn what is queued.            *)
(***************************************************************************)
EXTENDS Integers, Sequences

CONSTANTS QSIZE,    \* slots of the ring
          Dgs,      \* datagrams that arrive, each once
          None      \* what an unused slot holds

ASSUME QSizeAssumption == QSIZE \in Nat \ {0}
ASSUME DgsAssumption   == None \notin Dgs

Slots == 0 .. QSIZE - 1

VARIABLES
    spc,                    \* where dg_echo is, or "overflow"
    dg, iget, iput, nqueue, \* the ring
    inhandler,              \* sig_io runs on top of dg_echo
    nread,                  \* datagrams this call of sig_io has read, index of cntread
    pending,                \* a SIGIO is pending
    socket,                 \* datagrams the kernel holds, oldest first
    early,                  \* datagrams that arrived before FIOASYNC
    arrived, replied, lost  \* bookkeeping: lost are overwritten without a reply

ring == <<dg, iget, iput, nqueue>>
hist == <<early, arrived, replied, lost>>
sigiovars == <<spc, ring, inhandler, nread, pending, socket, hist>>

Up == spc # "overflow"

\* Mutant: SIG_SETMASK with newmask, which blocks SIGIO, for oldmask.
KeptBlocked == spc \notin {"async", "nonblock"}

\* SIGIO is not raised yet, or masked.
Blocked == spc \in {"setup", "loop", "unblock", "dec"}

SigioInit ==
    /\ spc = "setup"
    /\ dg = [s \in Slots |-> None] /\ iget = 0 /\ iput = 0 /\ nqueue = 0
    /\ inhandler = FALSE /\ nread = 0
    /\ pending = FALSE /\ socket = <<>>
    /\ early = {} /\ arrived = {} /\ replied = {} /\ lost = {}

\* A datagram arrives and raises SIGIO, if the socket is set up for it.
Arrive(d) ==
    /\ d \notin arrived
    /\ arrived' = arrived \cup {d}
    /\ socket' = Append(socket, d)
    /\ IF spc = "setup"
         THEN early' = early \cup {d} /\ UNCHANGED pending
         ELSE pending' = TRUE /\ UNCHANGED early
    /\ UNCHANGED <<spc, ring, inhandler, nread, replied, lost>>

-----------------------------------------------------------------------------
(* dg_echo, interrupted wherever SIGIO is not blocked *)

Step(from, to) == spc = from /\ ~inhandler /\ spc' = to

\* Up to FIOASYNC, to FIONBIO, and to SIG_BLOCK.
Setup ==
    /\ \/ Step("setup", "async")
       \/ Step("async", "nonblock")
       \/ Step("nonblock", "loop")
    /\ UNCHANGED <<ring, inhandler, nread, pending, socket, hist>>

\* while (nqueue = 0) sigsuspend(&zeromask);
Test ==
    /\ spc = "loop"
    /\ nqueue' = 0
    /\ spc' = "unblock"
    /\ UNCHANGED <<dg, iget, iput, inhandler, nread, pending, socket, hist>>

\* Sigprocmask(SIG_SETMASK, &oldmask, NULL)
Unblock ==
    /\ Step("unblock", "send")
    /\ UNCHANGED <<ring, inhandler, nread, pending, socket, hist>>

\* Mutant: the wrap-around comes one too late.
NextSlotLate(s) == IF s + 1 > QSIZE THEN 0 ELSE s + 1

NextSlot(s) == IF s + 1 >= QSIZE THEN 0 ELSE s + 1

\* sendto, whatever the slot holds, and ++iget.
Send ==
    /\ Step("send", "block")
    /\ replied' = replied \cup ({dg[iget]} \ {None})
    /\ iget' = NextSlot(iget)
    /\ UNCHANGED <<dg, iput, nqueue, inhandler, nread, pending, socket,
                   early, arrived, lost>>

\* Sigprocmask(SIG_BLOCK, &newmask, &oldmask)
Block ==
    /\ Step("block", "dec")
    /\ UNCHANGED <<ring, inhandler, nread, pending, socket, hist>>

Dec ==
    /\ Step("dec", "loop")
    /\ nqueue' = nqueue - 1
    /\ UNCHANGED <<dg, iget, iput, inhandler, nread, pending, socket, hist>>

-----------------------------------------------------------------------------
(* sig_io *)

Enter ==
    /\ Up /\ ~Blocked /\ pending /\ ~inhandler
    /\ inhandler' = TRUE
    /\ pending' = FALSE
    /\ nread' = 0
    /\ UNCHANGED <<spc, ring, socket, hist>>

Full == nqueue >= QSIZE

\* err_quit("receive overflow"), before looking whether there is one more.
Overflow ==
    /\ Up /\ inhandler /\ Full
    /\ spc' = "overflow"
    /\ UNCHANGED <<ring, inhandler, nread, pending, socket, hist>>

Store(d) ==
    /\ dg' = [dg EXCEPT ![iput] = d]
    /\ lost' = lost \cup ({dg[iput]} \ (replied \cup {None}))
    /\ iput' = NextSlot(iput)
    /\ nqueue' = nqueue + 1

\* Mutant: the handler reads one datagram per signal.
Once == inhandler' = FALSE

\* for (nread = 0; ; ), until recvfrom finds nothing.
GoOn == UNCHANGED inhandler

Recv ==
    /\ Up /\ inhandler /\ ~Full
    /\ socket # <<>>
    /\ Store(Head(socket))
    /\ socket' = Tail(socket)
    /\ nread' = nread + 1
    /\ GoOn
    /\ UNCHANGED <<spc, iget, pending, early, arrived, replied>>

\* Before FIONBIO recvfrom waits for one more datagram.
Blocks == spc = "async"

\* EWOULDBLOCK ends the handler: cntread[nread]++.
Return ==
    /\ Up /\ inhandler /\ ~Full
    /\ socket = <<>> /\ ~Blocks
    /\ inhandler' = FALSE
    /\ UNCHANGED <<spc, ring, nread, pending, socket, hist>>

Main    == Setup \/ Test \/ Unblock \/ Send \/ Block \/ Dec
Handler == Enter \/ Overflow \/ Recv \/ Return

SigioNext == (\E d \in Dgs : Arrive(d)) \/ Main \/ Handler

\* The process runs, and an unblocked pending signal is delivered before the
\* interrupted code goes on for ever.
SigioSpec == /\ SigioInit /\ [][SigioNext]_sigiovars
             /\ WF_sigiovars(Main) /\ SF_sigiovars(Handler)

-----------------------------------------------------------------------------
(* Properties *)

\* Every index stays in its array and nqueue between -1 and QSIZE, in spite of
\* the reset in the loop: nread, which indexes cntread[QSIZE + 1], never gets
\* ahead of nqueue.
SigioTypeOK ==
    /\ spc \in {"setup", "async", "nonblock", "loop", "unblock", "send", "block", "dec",
                "overflow"}
    /\ dg \in [Slots -> Dgs \cup {None}]
    /\ iget \in Slots /\ iput \in Slots
    /\ nqueue \in -1 .. QSIZE
    /\ nread \in 0 .. QSIZE
    /\ inhandler \in BOOLEAN /\ pending \in BOOLEAN
    /\ socket \in Seq(Dgs)
    /\ early \subseteq Dgs /\ arrived \subseteq Dgs
    /\ replied \subseteq Dgs /\ lost \subseteq Dgs

\* The handler never runs while dg_echo changes nqueue: where it can run before the
\* loop, nqueue is set and SIGIO not yet blocked.
NqueueExclusive == inhandler => spc \in {"async", "nonblock", "send", "block", "overflow"}

Unread == {socket[k] : k \in DOMAIN socket}

\* No wake-up is lost: while a datagram waits in the socket a SIGIO is pending
\* or the handler is still in its loop, even if it arrived after the handler's
\* last recvfrom or while SIGIO was blocked.  Only those that came before
\* FIOASYNC wait for the signal of a later one.
NoLostSignal == Up /\ ~(Unread \subseteq early) => pending \/ inhandler

\* Every datagram is sent back, although nqueue is wrong and the handler may have
\* stored some before the loop began; or it is overwritten, or the server gives up,
\* or nothing has arrived since FIOASYNC to have it read, or the handler was
\* entered before FIONBIO and waits in recvfrom for more.
EveryDatagramAnswered ==
    \A d \in Dgs :
        d \in arrived ~> \/ d \in replied \cup lost \/ ~Up
                         \/ d \in Unread /\ Unread \subseteq early
                         \/ inhandler /\ Blocks

\* The assertion err_quit("receive overflow") stops the server before a datagram
\* that waits for its reply is overwritten.
OverflowStops == lost = {}
=============================================================================
