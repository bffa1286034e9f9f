------------------------------ MODULE HeartBeat ------------------------------
(***************************************************************************)
(* The heartbeat of unit24_out_of_data: heartbeatcli.c ("cli") sends an    *)
(* urgent byte from its SIGALRM handler every second, heartbeatserv.c      *)
(* ("srv", the child of one connection) answers from its SIGURG handler,   *)
(* and each side gives up after MaxProbes seconds without a word from the  *)
(* other.  Handlers interrupt the echo loop, and each other, anywhere.     *)
(*                                                                         *)
(* Time is the action Tick, at which the alarms of both sides go off: the  *)
(* two clocks run at one rate.  A Tick with a heartbeat still under way is *)
(* a slow second.  The kernel keeps one urgent byte; a newer one turns an  *)
(* unread one into ordinary data, a "stray" byte among the lines.          *)
(***************************************************************************)
EXTENDS Integers, Sequences, FiniteSets, SequencesExt

CONSTANTS MaxProbes,                    \* maxnprobes and maxnalarms
          Lines,                        \* lines the user types at most
          MaxSlow, MaxAhead, MaxTorn, MaxCrash,  \* bounds on the faults
          MaxFaults,                    \* on all of them together
          Mixes                         \* and on the kinds in one behaviour

ASSUME SizesAssumption  == MaxProbes \in Nat \ {0} /\ Lines \in Nat
ASSUME FaultsAssumption == {MaxSlow, MaxAhead, MaxTorn, MaxCrash, MaxFaults} \subseteq Nat
ASSUME MixesAssumption  == Mixes \subseteq SUBSET {"slow", "ahead", "torn", "crash"}

Sides   == {"cli", "srv"}
Peer(p) == IF p = "cli" THEN "srv" ELSE "cli"

VARIABLES
    status,     \* "up", or how the process ended
    pending,    \* signals that wait
    stack,      \* the handlers that are running, the innermost first
    nprobes,
    loaded,     \* the nprobes a running sig_alrm has read and not yet stored
    net,        \* what is in flight to each side
    rcv,        \* its receive buffer, without the urgent byte
    urg,        \* that byte: "none", "coming" (announced only) or "valid"
    rst,        \* the connection was reset
    stdineof, typed, out,   \* the client's str_cli: input and output
    faults      \* faults so far, by kind

signals == <<pending, stack, nprobes, loaded>>
tcp     == <<net, rcv, urg, rst>>
cli     == <<stdineof, typed, out>>
vars    == <<status, signals, tcp, cli, faults>>

Up(p) == status[p] = "up"

Bound == [slow |-> MaxSlow, ahead |-> MaxAhead, torn |-> MaxTorn, crash |-> MaxCrash]

Fault(kind) ==
    /\ faults[kind] < Bound[kind]
    /\ faults.slow + faults.ahead + faults.torn + faults.crash < MaxFaults
    /\ faults' = [faults EXCEPT ![kind] = @ + 1]
    /\ \E mix \in Mixes : \A k \in DOMAIN Bound : faults'[k] > 0 => k \in mix

\* Both sides have set up their handlers, owner and alarm.
Init ==
    /\ status = [p \in Sides |-> "up"]
    /\ pending = [p \in Sides |-> {}] /\ stack = [p \in Sides |-> <<>>]
    /\ nprobes = [p \in Sides |-> 0] /\ loaded = [p \in Sides |-> 0]
    /\ net = [p \in Sides |-> <<>>] /\ rcv = [p \in Sides |-> <<>>]
    /\ urg = [p \in Sides |-> "none"] /\ rst = [p \in Sides |-> FALSE]
    /\ stdineof = FALSE /\ typed = 0 /\ out = <<>>
    /\ faults = [slow |-> 0, ahead |-> 0, torn |-> 0, crash |-> 0]

-----------------------------------------------------------------------------
(* The end of a process, and what it sends *)

FinSent(p) == p = "cli" /\ stdineof

\* The sockets close: unread data turns the FIN into a reset.
End(p, how) ==
    /\ status' = [status EXCEPT ![p] = how]
    /\ pending' = [pending EXCEPT ![p] = {}]
    /\ stack' = [stack EXCEPT ![p] = <<>>]
    /\ rcv' = [rcv EXCEPT ![p] = <<>>]
    /\ net' = IF \E x \in ToSet(rcv[p]) : x # "fin"
                THEN [net EXCEPT ![Peer(p)] = Append(@, "rst")]
                ELSE IF FinSent(p) THEN net
                                   ELSE [net EXCEPT ![Peer(p)] = Append(@, "fin")]
    /\ nprobes' = [nprobes EXCEPT ![p] = 0] /\ loaded' = [loaded EXCEPT ![p] = 0]
    /\ UNCHANGED <<urg, rst>>

\* Writing after shutdown, or after a reset, is SIGPIPE.
MaySend(p) == ~FinSent(p) /\ ~rst[p]

Send(p, items) == net' = [net EXCEPT ![Peer(p)] = @ \o items]

-----------------------------------------------------------------------------
(* The handlers *)

\* SIGURG and SIGALRM interrupt the process, also inside the other's handler; a
\* sig_urg in the middle of sig_alrm's ++nprobes tears it: its reset is lost.
EnterUrg(p) ==
    /\ "urg" \in pending[p] /\ ~Contains(stack[p], "urg")
    /\ IF Contains(stack[p], "alrm") THEN Fault("torn") ELSE UNCHANGED faults
    /\ pending' = [pending EXCEPT ![p] = @ \ {"urg"}]
    /\ stack' = [stack EXCEPT ![p] = <<"urg">> \o @]
    /\ UNCHANGED <<status, nprobes, loaded, tcp, cli>>

\* sig_alrm: the load of ++nprobes.
EnterAlrm(p) ==
    /\ "alrm" \in pending[p]
    /\ pending' = [pending EXCEPT ![p] = @ \ {"alrm"}]
    /\ stack' = [stack EXCEPT ![p] = <<"alrm">> \o @]
    /\ loaded' = [loaded EXCEPT ![p] = nprobes[p]]
    /\ UNCHANGED <<status, nprobes, tcp, cli, faults>>

Running(p, handler) == Up(p) /\ stack[p] # <<>> /\ Head(stack[p]) = handler

Return(p) == stack' = [stack EXCEPT ![p] = Tail(@)] /\ UNCHANGED <<status, pending>>

\* Mutant: nprobes is not reset.
KeepCounting(p) == UNCHANGED nprobes

HeardFrom(p) == nprobes' = [nprobes EXCEPT ![p] = 0]

\* sig_urg: recv(MSG_OOB) finds the byte, or EWOULDBLOCK while it is on its way;
\* anything else ("recv error") is fatal.  The server sends it back.
SigUrg(p) ==
    /\ Running(p, "urg")
    /\ IF urg[p] = "none"
         THEN End(p, "recv_error")
         ELSE IF p = "srv" /\ ~MaySend(p)
         THEN End(p, "sigpipe")
         ELSE /\ Return(p)
              /\ HeardFrom(p)
              /\ urg' = [urg EXCEPT ![p] = IF @ = "valid" THEN "none" ELSE @]
              /\ IF p = "srv" THEN Send(p, <<"probe">>) ELSE UNCHANGED net
              /\ UNCHANGED <<loaded, rcv, rst>>
    /\ UNCHANGED <<cli, faults>>

\* Mutants: one second too few; a counter that stands still.
TooManySoon(k) == k >= MaxProbes
NotCounted(p)  == loaded[p]

TooMany(k) == k > MaxProbes

Counted(p) == loaded[p] + 1

\* sig_alrm: the store, the test, the client's probe, and alarm(nsec) again.
SigAlrm(p) ==
    /\ Running(p, "alrm")
    /\ IF TooMany(Counted(p))
         THEN End(p, IF p = "cli" THEN "unreachable" ELSE "no_probes")
         ELSE IF p = "cli" /\ ~MaySend(p)
         THEN End(p, "sigpipe")
         ELSE /\ Return(p)
              /\ nprobes' = [nprobes EXCEPT ![p] = Counted(p)]
              /\ loaded' = [loaded EXCEPT ![p] = 0]
              /\ IF p = "cli" THEN Send(p, <<"probe">>) ELSE UNCHANGED net
              /\ UNCHANGED <<rcv, urg, rst>>
    /\ UNCHANGED <<cli, faults>>

-----------------------------------------------------------------------------
(* The echo loops, when no handler runs *)

InLoop(p) == Up(p) /\ stack[p] = <<>>

\* A read: what is in the buffer, up to the end of file, which comes last.
Data(p) == IF Contains(rcv[p], "fin") THEN Front(rcv[p]) ELSE rcv[p]

Take(p) == rcv' = [rcv EXCEPT ![p] = IF Contains(@, "fin") THEN <<"fin">> ELSE <<>>]

AtEof(p) == ~rst[p] /\ rcv[p] = <<"fin">>

\* Read, then Write to standard output.
CliRead ==
    /\ InLoop("cli") /\ Data("cli") # <<>> /\ ~rst["cli"]
    /\ out' = out \o Data("cli")
    /\ Take("cli")
    /\ UNCHANGED <<status, signals, net, urg, rst, stdineof, typed, faults>>

CliEof ==
    /\ InLoop("cli") /\ AtEof("cli")
    /\ End("cli", IF stdineof THEN "returned" ELSE "premature")
    /\ UNCHANGED <<cli, faults>>

\* A line of standard input, Writen to the socket.
CliType ==
    /\ InLoop("cli") /\ ~stdineof /\ typed < Lines
    /\ typed' = typed + 1
    /\ IF MaySend("cli")
         THEN /\ Send("cli", <<"line">>)
              /\ UNCHANGED <<status, signals, rcv, urg, rst>>
         ELSE End("cli", "sigpipe")
    /\ UNCHANGED <<stdineof, out, faults>>

\* End of standard input: shutdown(sockfd, SHUT_WR).
CliShutdown ==
    /\ InLoop("cli") /\ ~stdineof
    /\ stdineof' = TRUE
    /\ IF rst["cli"] THEN UNCHANGED net ELSE Send("cli", <<"fin">>)
    /\ UNCHANGED <<status, signals, rcv, urg, rst, typed, out, faults>>

\* str_echo: read, then Write the same back.
SrvRead ==
    /\ InLoop("srv") /\ Data("srv") # <<>> /\ ~rst["srv"]
    /\ Send("srv", Data("srv"))
    /\ Take("srv")
    /\ UNCHANGED <<status, signals, urg, rst, cli, faults>>

\* read returns 0: str_echo returns and the child exits.
SrvEof ==
    /\ InLoop("srv") /\ AtEof("srv")
    /\ End("srv", "done")
    /\ UNCHANGED <<cli, faults>>

\* read fails on a connection that was reset: err_sys.
ReadError(p) ==
    /\ InLoop(p) /\ rst[p]
    /\ End(p, "reset")
    /\ UNCHANGED <<cli, faults>>

-----------------------------------------------------------------------------
(* The kernel and the network *)

\* The next item in flight arrives; a process that is gone answers with a
\* reset, a crashed host with nothing.
Deliver(p) ==
    /\ net[p] # <<>> /\ \E q \in Sides : Up(q)
    /\ net' = [net EXCEPT ![p] = Tail(@)]
    /\ LET item == Head(net[p])
           Into(x) == rcv' = [rcv EXCEPT ![p] = Append(@, x)]
       IN  IF ~Up(p) \/ rst[p]
             THEN /\ rst' = [rst EXCEPT ![Peer(p)] =
                          @ \/ (status[p] # "crashed" /\ item \in {"line", "probe", "stray"})]
                  /\ UNCHANGED <<rcv, urg, pending>>
             ELSE CASE item = "probe" ->
                       /\ urg' = [urg EXCEPT ![p] = "valid"]
                       /\ pending' = [pending EXCEPT ![p] =
                                        IF urg[p] = "coming" THEN @ ELSE @ \cup {"urg"}]
                       /\ IF urg[p] = "valid" THEN Into("stray") ELSE UNCHANGED rcv
                       /\ UNCHANGED rst
                    [] item = "rst" ->
                       /\ rst' = [rst EXCEPT ![p] = TRUE]
                       /\ rcv' = [rcv EXCEPT ![p] = <<>>]
                       /\ UNCHANGED <<urg, pending>>
                    [] OTHER ->
                       Into(item) /\ UNCHANGED <<urg, rst, pending>>
    /\ UNCHANGED <<status, stack, nprobes, loaded, cli, faults>>

\* The urgent pointer runs ahead of its byte.
Announce(p) ==
    /\ Up(p) /\ ~rst[p] /\ urg[p] = "none"
    /\ Fault("ahead")
    /\ Cardinality({k \in DOMAIN net[p] : net[p][k] = "probe"}) = 1
    /\ urg' = [urg EXCEPT ![p] = "coming"]
    /\ pending' = [pending EXCEPT ![p] = @ \cup {"urg"}]
    /\ UNCHANGED <<status, stack, nprobes, loaded, net, rcv, rst, cli>>

\* A read of the loop skips an urgent byte that no SIGURG is left to fetch.
Skip(p) ==
    /\ InLoop(p) /\ urg[p] = "valid" /\ "urg" \notin pending[p]
    /\ urg' = [urg EXCEPT ![p] = "none"]
    /\ UNCHANGED <<status, signals, net, rcv, rst, cli, faults>>

\* A heartbeat between live processes that has not been dealt with yet.
Late ==
    /\ \A p \in Sides : Up(p)
    /\ \E p \in Sides : \/ Contains(net[p], "probe")
                        \/ "urg" \in pending[p] \/ Contains(stack[p], "urg")

\* A second passes; the last alarms have been handled.
Tick ==
    /\ \E p \in Sides : Up(p)
    /\ \A p \in Sides : "alrm" \notin pending[p] /\ ~Contains(stack[p], "alrm")
    /\ IF Late THEN Fault("slow") ELSE UNCHANGED faults
    /\ pending' = [p \in Sides |-> IF Up(p) THEN pending[p] \cup {"alrm"} ELSE {}]
    /\ UNCHANGED <<status, stack, nprobes, loaded, tcp, cli>>

\* A host goes silent.
Crash(p) ==
    /\ Up(p)
    /\ Fault("crash")
    /\ status' = [status EXCEPT ![p] = "crashed"]
    /\ pending' = [pending EXCEPT ![p] = {}]
    /\ stack' = [stack EXCEPT ![p] = <<>>]
    /\ nprobes' = [nprobes EXCEPT ![p] = 0] /\ loaded' = [loaded EXCEPT ![p] = 0]
    /\ UNCHANGED <<tcp, cli>>

Handler(p) == EnterUrg(p) \/ EnterAlrm(p) \/ SigUrg(p) \/ SigAlrm(p)

Loop == CliRead \/ CliEof \/ SrvRead \/ SrvEof

Next ==
    \/ \E p \in Sides : Handler(p) \/ ReadError(p) \/ Deliver(p) \/ Announce(p)
                          \/ Skip(p) \/ Crash(p)
    \/ Loop \/ CliType \/ CliShutdown \/ Tick

\* Time passes, signals are handled, what is in flight arrives; nobody has to type.
Spec ==
    /\ Init /\ [][Next]_vars
    /\ WF_vars(Tick) /\ WF_vars(Loop)
    /\ \A p \in Sides : WF_vars(Handler(p)) /\ WF_vars(Deliver(p)) /\ WF_vars(ReadError(p))

-----------------------------------------------------------------------------
(* Properties *)

GaveUp == {"unreachable", "no_probes"}

\* The types of the state: the two counters never exceed their limits by more than
\* the one that gives up, however the handlers nest.
TypeOK ==
    /\ status \in [Sides -> {"up", "crashed", "recv_error", "sigpipe", "returned",
                             "premature", "done", "reset"} \cup GaveUp]
    /\ \A p \in Sides :
         /\ pending[p] \subseteq {"urg", "alrm"}
         /\ stack[p] \in {<<>>, <<"urg">>, <<"alrm">>, <<"urg", "alrm">>, <<"alrm", "urg">>}
         /\ nprobes[p] \in 0 .. MaxProbes + 1 /\ loaded[p] \in 0 .. MaxProbes
         /\ net[p] \in Seq({"line", "probe", "stray", "fin", "rst"})
         /\ rcv[p] \in Seq({"line", "stray", "fin"})
         /\ urg[p] \in {"none", "coming", "valid"}
         /\ rst[p] \in BOOLEAN
    /\ stdineof \in BOOLEAN /\ typed \in 0 .. Lines
    /\ out \in Seq({"line", "stray"})
    /\ \A kind \in DOMAIN Bound : faults[kind] \in 0 .. Bound[kind]

\* A peer that is alive is given up only after MaxProbes seconds (for the server,
\* whose alarm may go off before the probe of the same second, one less) in which
\* a heartbeat was late, or its reset of nprobes lost to sig_alrm's ++nprobes.
NoFalseAlarm ==
    /\ TypeOK
    /\ \A p \in Sides : status[p] \in GaveUp /\ Up(Peer(p)) =>
         faults.slow + faults.torn >= IF p = "cli" THEN MaxProbes ELSE MaxProbes - 1

\* As long as no second was slow, no urgent byte announced before it came, no reset of
\* nprobes lost to a torn ++nprobes, and no process killed, nobody gives up a peer that
\* is up, no recv(MSG_OOB) fails, and no urgent byte turns up among the lines that are
\* echoed, whichever of alarm, heartbeat and end of input comes first.
PromptUnconfused ==
    (\A kind \in DOMAIN Bound : faults[kind] = 0) =>
        \A p \in Sides : /\ status[p] \in GaveUp => ~Up(Peer(p))
                         /\ status[p] # "recv_error"
                         /\ ~Contains(rcv[p] \o out, "stray")

\* Neither side outlives the other for ever, even one whose host went silent.
DeadPeerNoticed == \A p \in Sides : ~Up(p) ~> ~Up(Peer(p))
=============================================================================
