------------------------------ MODULE ForkEcho ------------------------------
(***************************************************************************)
(* Echo servers that fork a child for every connection (tcpserv01.c of     *)
(* unit5, whose loop heartbeatserv.c repeats, tcp_and_udpselectserver.c,   *)
(* unixstrserv.c) and the clients that read lines with readline: str_cli   *)
(* of tcpcli01.c, which writes a line and waits for its echo, and str_cli  *)
(* of strcliselect01.c, which selects.  The loop of unixstrcli.c is the    *)
(* former; the address it connects to, never set, is taken to be right.    *)
(*                                                                         *)
(* A byte stream is a sequence of "nl" and "byte", one for each stretch    *)
(* without a newline that arrives as a whole; reads take any part of what  *)
(* is there.  Lines are not empty, and the buffers of sockets are large    *)
(* (StrCliNonb and EchoSelect have small ones).  A client that writes to a *)
(* connection that is closed and is ended by SIGPIPE is taken for one that *)
(* reads the end of file.                                                  *)
(***************************************************************************)
EXTENDS Naturals, Sequences, FiniteSets, Functions

CONSTANTS Clients,
          Selecting,    \* those that run strcliselect01, the others tcpcli01
          Lines,        \* lines each client has to send
          Datagrams,    \* datagrams other clients send
          NPROC,        \* processes the server may have, itself and zombies included
          NFILE,        \* connections a process can hold open
          MaxKill,      \* bound on the children killed
          MaxFails      \* bound on the accepts that fail

None == "none"

ASSUME ClientsAssumption ==
    Selecting \subseteq Clients /\ IsFiniteSet(Clients) /\ None \notin Clients
ASSUME BoundsAssumption ==
    /\ {Lines, Datagrams, MaxKill, MaxFails} \subseteq Nat
    /\ {NPROC, NFILE} \subseteq Nat \ {0}

VARIABLES
    server,         \* which of the servers
    spc,            \* where its parent is, or "ended"
    connfd,         \* the connection accepted last, while the loop uses it, or None
    rset,           \* what select reported, likewise
    kid,            \* the child of each connection
    kept,           \* connections the parent holds open
    turned,         \* those fork made no child for
    killed,         \* those whose child was killed
    fails,          \* accepts that failed
    idle,           \* children made without a connection and not waited for
    backlog,        \* connections that wait for accept
    dgrams, sent,   \* datagrams in the UDP socket; sent so far
    up, down,       \* bytes under way from and to each client
    cpc,            \* where each client is, or how it ended
    typed,          \* lines it has read from its input
    buf,            \* read_buf of my_read, from read_ptr on
    stdin,          \* strcliselect01: select reported input too, likewise
    shown           \* lines readline has returned

parent   == <<server, spc, connfd, rset, kept, turned>>
children == <<kid, killed>>
failures == <<fails, idle>>
udp      == <<dgrams, sent>>
tcp      == <<backlog, up, down>>
clients  == <<cpc, typed, buf, stdin, shown>>
vars     == <<parent, children, failures, udp, tcp, clients>>

Servers == {"tcpserv01", "tcp_and_udp", "unixstrserv"}

Take(s, n) == SubSeq(s, 1, n)
Drop(s, n) == SubSeq(s, n + 1, Len(s))
\* What is left behind the first line, which may have no end.
AfterLine(s) ==
    LET ends == {n \in DOMAIN s : s[n] = "nl"}
    IN  IF ends = {} THEN <<>> ELSE Drop(s, CHOOSE n \in ends : \A m \in ends : n <= m)

Init ==
    /\ server \in Servers
    /\ spc = "top" /\ connfd = None /\ rset = {}
    /\ kid = [c \in Clients |-> "none"] /\ kept = {} /\ turned = {} /\ killed = {}
    /\ fails = 0 /\ idle = 0
    /\ backlog = <<>> /\ dgrams = 0 /\ sent = 0
    /\ up = [c \in Clients |-> <<>>] /\ down = [c \in Clients |-> <<>>]
    /\ cpc = [c \in Clients |-> "start"] /\ typed = [c \in Clients |-> 0]
    /\ buf = [c \in Clients |-> <<>>] /\ stdin = [c \in Clients |-> FALSE]
    /\ shown = [c \in Clients |-> 0]

Gone(c) == cpc[c] \in {"done", "premature"}

-----------------------------------------------------------------------------
(* The parent *)

\* Mutant: accept is called whatever select reported.
AlwaysAccept(ready) == "accept"

\* The branches of the loop, taken for what FD_ISSET finds.
Branch(ready) == IF "listenfd" \in ready THEN "accept" ELSE "recvfrom"

Select ==
    /\ server = "tcp_and_udp" /\ spc = "top"
    /\ rset' = (IF backlog # <<>> THEN {"listenfd"} ELSE {})
               \cup (IF dgrams > 0 THEN {"udpfd"} ELSE {})
    /\ rset' # {}
    /\ spc' = Branch(rset')
    /\ UNCHANGED <<server, connfd, kept, turned, children, failures, udp, tcp, clients>>

InAccept == spc = IF server = "tcp_and_udp" THEN "accept" ELSE "top"

Accept ==
    /\ InAccept
    /\ backlog # <<>> /\ Cardinality(kept) < NFILE
    /\ connfd' = Head(backlog)
    /\ backlog' = Tail(backlog)
    /\ kept' = kept \cup {connfd'}
    /\ spc' = "fork"
    /\ UNCHANGED <<server, rset, turned, children, failures, udp, up, down, clients>>

\* accept fails, for want of a descriptor or of memory, and what is queued stays
\* queued.  tcpserv01 ends with err_sys; tcp_and_udp looks at nothing and goes on
\* with connfd = -1; unixstrserv takes the error for EINTR (errno = EINTR) and calls
\* accept again, which changes nothing.
AcceptFails ==
    /\ InAccept /\ server # "unixstrserv"
    /\ fails < MaxFails
    /\ fails' = fails + 1
    /\ spc' = IF server = "tcpserv01" THEN "ended" ELSE "fork"
    /\ UNCHANGED <<server, connfd, rset, kept, turned, children, idle, udp, tcp, clients>>

\* The children alive or not waited for.
Procs == {c \in Clients : kid[c] \in {"echo", "spin", "zombie"}}

Room == Cardinality(Procs) + idle + 1 < NPROC

\* fork = -1 passes for the parent's side.
Fork ==
    /\ spc = "fork" /\ connfd # None
    /\ IF Room
         THEN kid' = [kid EXCEPT ![connfd] = "echo"] /\ UNCHANGED turned
         ELSE turned' = turned \cup {connfd} /\ UNCHANGED kid
    /\ IF server = "unixstrserv"
         THEN spc' = "top" /\ connfd' = None
         ELSE spc' = "close" /\ UNCHANGED connfd
    /\ UNCHANGED <<server, rset, kept, killed, failures, udp, tcp, clients>>

\* Behind a failed accept: a child that reads from -1 and exits.
ForkIdle ==
    /\ spc = "fork" /\ connfd = None
    /\ idle' = IF Room THEN idle + 1 ELSE idle
    /\ spc' = "close"
    /\ UNCHANGED <<server, connfd, rset, kept, turned, children, fails, udp, tcp, clients>>


CloseConn == kept' = kept \ {connfd}

Close ==
    /\ spc = "close"
    /\ CloseConn
    /\ spc' = IF "udpfd" \in rset THEN "recvfrom" ELSE "top"
    /\ connfd' = None /\ rset' = {}
    /\ UNCHANGED <<server, turned, children, failures, udp, tcp, clients>>

\* recvfrom, sendto
EchoDatagram ==
    /\ spc = "recvfrom"
    /\ dgrams' = dgrams - 1
    /\ spc' = "top" /\ rset' = {}
    /\ UNCHANGED <<server, connfd, kept, turned, children, failures, sent, tcp, clients>>

-----------------------------------------------------------------------------
(* The children *)

\* Mutant: if where while is meant, in str_echo.
EchoOnce == "zombie"

\* str_echo goes round; the child of unixstrserv goes on to accept on the listenfd
\* it has closed, an error it takes for EINTR for ever.
AfterEcho == IF server = "unixstrserv" THEN "spin" ELSE "echo"

\* read and Write: what one read returns is written back.
Echo(c) ==
    /\ kid[c] = "echo"
    /\ \E n \in DOMAIN up[c] :
         /\ up' = [up EXCEPT ![c] = Drop(@, n)]
         /\ down' = [down EXCEPT ![c] = @ \o Take(up[c], n)]
    /\ kid' = [kid EXCEPT ![c] = AfterEcho]
    /\ UNCHANGED <<parent, killed, failures, udp, backlog, clients>>

\* read returns 0, or -1 when the client left bytes unread: exit or err_sys.
EchoEnds(c) ==
    /\ kid[c] = "echo" /\ Gone(c)
    /\ up[c] = <<>> \/ down[c] # <<>>
    /\ kid' = [kid EXCEPT ![c] = IF server = "unixstrserv" THEN "spin" ELSE "zombie"]
    /\ UNCHANGED <<parent, killed, failures, udp, tcp, clients>>

\* Two of the servers have a handler for SIGCHLD (sig_chld, not in the repository).
HasSigChld == server # "tcpserv01"

Reap(c) ==
    /\ HasSigChld /\ kid[c] = "zombie"
    /\ kid' = [kid EXCEPT ![c] = "reaped"]
    /\ UNCHANGED <<parent, killed, failures, udp, tcp, clients>>

ReapIdle ==
    /\ HasSigChld /\ idle > 0
    /\ idle' = idle - 1
    /\ UNCHANGED <<parent, children, fails, udp, tcp, clients>>

Kill(c) ==
    /\ kid[c] \in {"echo", "spin"} /\ Cardinality(killed) < MaxKill
    /\ kid' = [kid EXCEPT ![c] = "zombie"]
    /\ killed' = killed \cup {c}
    /\ UNCHANGED <<parent, failures, udp, tcp, clients>>

-----------------------------------------------------------------------------
(* The clients *)

\* The connection was in the queue when the server ended, or came after that: it is
\* reset, or refused, which connect tells nobody.
NeverAccepted(c) == spc = "ended" /\ c \in Range(backlog)

\* Nobody on the server's side has the connection open any more.
Closed(c) ==
    /\ cpc[c] # "start" /\ kid[c] \notin {"echo", "spin"}
    /\ c \notin Range(backlog) \cup kept \/ NeverAccepted(c)

Selects(c) == c \in Selecting /\ server # "unixstrserv"

Become(c, where) == cpc' = [cpc EXCEPT ![c] = where]

Connect(c) ==
    /\ cpc[c] = "start"
    /\ Become(c, IF Selects(c) THEN "select" ELSE "fgets")
    /\ backlog' = Append(backlog, c)
    /\ UNCHANGED <<parent, children, failures, udp, up, down, typed, buf, stdin, shown>>

\* select knows of the socket and the terminal, not of read_buf.
SelectClient(c) ==
    /\ cpc[c] = "select"
    /\ LET sock == down[c] # <<>> \/ Closed(c)
       IN  /\ stdin' \in {[stdin EXCEPT ![c] = b] : b \in BOOLEAN}
           /\ sock \/ stdin'[c]
           /\ Become(c, IF sock THEN "readline" ELSE "fgets")
    /\ UNCHANGED <<parent, children, failures, udp, tcp, typed, buf, shown>>

\* What goes out for a line: tcpcli01 writes strlen(sendline) bytes, strcliselect01
\* sizeof(sendline), which behind a line may hold the end of a longer one before it.
\* Later lines are shorter: the tail and the next line fit in one readline.  (The
\* text of its lines is left out: what readline must put together is tail and line.)
Written(c) ==
    IF ~Selects(c) THEN {<<"byte", "nl">>}
    ELSE {<<"nl", "byte">>} \cup (IF typed[c] > 0 THEN {<<"nl", "nl", "byte">>} ELSE {})

\* fgets, then Write or writen.
Type(c) ==
    /\ cpc[c] = "fgets" /\ typed[c] < Lines
    /\ typed' = [typed EXCEPT ![c] = @ + 1]
    /\ \E s \in Written(c) : up' = [up EXCEPT ![c] = @ \o s]
    /\ Become(c, IF Selects(c) THEN "select" ELSE "readline")
    /\ stdin' = [stdin EXCEPT ![c] = FALSE]
    /\ UNCHANGED <<parent, children, failures, udp, backlog, down, buf, shown>>

\* The end of the input: return, exit.
InputEnds(c) ==
    /\ cpc[c] = "fgets" /\ typed[c] = Lines
    /\ Become(c, "done")
    /\ UNCHANGED <<parent, children, failures, udp, tcp, typed, buf, stdin, shown>>

\* Mutant: readline returns what one read gave it.
AnyBytes(c) == buf[c] # <<>>

LineInBuf(c) == "nl" \in Range(buf[c])

\* my_read: read once read_buf is used up.
Fill(c) ==
    /\ cpc[c] = "readline" /\ ~LineInBuf(c)
    /\ \E n \in DOMAIN down[c] :
         /\ down' = [down EXCEPT ![c] = Drop(@, n)]
         /\ buf' = [buf EXCEPT ![c] = @ \o Take(down[c], n)]
    /\ UNCHANGED <<parent, children, failures, udp, backlog, up, cpc, typed, stdin, shown>>

\* readline has its newline: the line is printed (twice by strcliselect01).
Returns(c) ==
    /\ cpc[c] = "readline" /\ LineInBuf(c)
    /\ buf' = [buf EXCEPT ![c] = AfterLine(@)]
    /\ shown' = [shown EXCEPT ![c] = @ + 1]
    /\ Become(c, IF Selects(c) /\ ~stdin[c] THEN "select" ELSE "fgets")
    /\ UNCHANGED <<parent, children, failures, udp, tcp, typed, stdin>>

\* End of file, also behind the error of a reset, which my_read takes for EINTR:
\* a line without an end is returned as it is, no line is the end of the client.
ReadsEof(c) ==
    /\ cpc[c] = "readline" /\ ~LineInBuf(c) /\ down[c] = <<>> /\ Closed(c)
    /\ IF buf[c] # <<>>
         THEN /\ shown' = [shown EXCEPT ![c] = @ + 1]
              /\ Become(c, IF Selects(c) /\ ~stdin[c] THEN "select" ELSE "fgets")
         ELSE /\ Become(c, "premature")
              /\ UNCHANGED shown
    /\ buf' = [buf EXCEPT ![c] = AfterLine(@)]
    /\ UNCHANGED <<parent, children, failures, udp, tcp, typed, stdin>>

-----------------------------------------------------------------------------
SendDatagram ==
    /\ server = "tcp_and_udp" /\ sent < Datagrams
    /\ sent' = sent + 1 /\ dgrams' = dgrams + 1
    /\ UNCHANGED <<parent, children, failures, tcp, clients>>

Parent    == Select \/ Accept \/ Fork \/ ForkIdle \/ Close \/ EchoDatagram
Child(c)  == Echo(c) \/ EchoEnds(c) \/ Reap(c)
Client(c) == Connect(c) \/ SelectClient(c) \/ Type(c) \/ InputEnds(c) \/ Fill(c)
             \/ Returns(c) \/ ReadsEof(c)

Next ==
    \/ Parent \/ AcceptFails \/ ReapIdle \/ SendDatagram
    \/ \E c \in Clients : Child(c) \/ Kill(c) \/ Client(c)

\* Processes that can run do, and input comes until it ends.
Spec ==
    /\ Init /\ [][Next]_vars
    /\ WF_vars(Parent)
    /\ \A c \in Clients : WF_vars(Child(c)) /\ WF_vars(Client(c))

-----------------------------------------------------------------------------
(* Properties *)

TypeOK ==
    /\ server \in Servers
    /\ spc \in {"top", "accept", "fork", "close", "recvfrom", "ended"}
    /\ fails \in 0 .. MaxFails /\ idle \in Nat
    /\ connfd \in Clients \cup {None} /\ rset \subseteq {"listenfd", "udpfd"}
    /\ kid \in [Clients -> {"none", "echo", "spin", "zombie", "reaped"}]
    /\ {kept, turned, killed} \subseteq SUBSET Clients
    /\ backlog \in Seq(Clients) /\ {dgrams, sent} \subseteq 0 .. Datagrams
    /\ {up, down, buf} \subseteq [Clients -> Seq({"byte", "nl"})]
    /\ cpc \in [Clients -> {"start", "select", "fgets", "readline", "done", "premature"}]
    /\ typed \in [Clients -> 0 .. Lines] /\ shown \in [Clients -> Nat]
    /\ stdin \in [Clients -> BOOLEAN]

Line == <<"byte", "nl">>

\* The bytes of a client from the one it reads next to the one it wrote last.
Flow(c) == buf[c] \o (down[c] \o up[c])

\* The child was killed and the client has read all that it had sent.
CutOff(c) == c \in killed /\ buf[c] = <<>> /\ down[c] = <<>>

\* The static buffer of my_read is safe in a client that waits for each echo, in
\* however many pieces it comes: while it waits, the one line it waits for and
\* nothing else is in its buffer and under way; when it reads its next line,
\* nothing is; and it has shown all but the line it waits for, all when it ends
\* well.  After its child was killed it reads no more than had been sent.
InStep ==
    /\ TypeOK
    /\ \A c \in Clients : ~Selects(c) =>
         /\ cpc[c] = "fgets" => CutOff(c) \/ Flow(c) = <<>>
         /\ cpc[c] = "readline" => CutOff(c) \/ Flow(c) = Line
         /\ cpc[c] \in {"fgets", "done"} => shown[c] = typed[c]
         /\ cpc[c] \in {"readline", "premature"} => shown[c] + 1 = typed[c]
         /\ cpc[c] = "done" => typed[c] = Lines

\* "server terminated prematurely" is printed only if fork failed for the client,
\* its child was killed, or the server ended before it was accepted: not because of
\* other clients, datagrams, or an accept that failed and did not end the server.
\* tcpserv01 waits for no child, so fork fails for all but the first NPROC - 1.
PrematureHasCause ==
    /\ \A c \in Clients :
         cpc[c] = "premature" => c \in turned \cup killed \/ NeverAccepted(c)
    /\ server = "tcpserv01" => Cardinality({c \in Clients : kid[c] # "none"}) < NPROC

\* readline waits for the newline of a line that strcliselect01 has not read from
\* its input yet: the bytes sizeof(sendline) added came in a piece of their own.
WaitsForItself(c) ==
    /\ Selects(c) /\ cpc[c] = "readline" /\ ~LineInBuf(c) /\ buf[c] # <<>>
    /\ up[c] = <<>> /\ down[c] = <<>>

\* The child of unixstrserv echoes once, and its parent closes nothing.
Abandoned(c) ==
    /\ server = "unixstrserv" /\ cpc[c] = "readline"
    /\ kid[c] = "spin" \/ c \in Range(backlog) \cup turned \cup killed

\* Every client comes to its end but for these two.
AllFinish == \A c \in Clients : <>[](Gone(c) \/ WaitsForItself(c) \/ Abandoned(c))

\* Connections keep no datagram waiting: accept is called only when it returns.
DatagramsAnswered == dgrams > 0 ~> dgrams = 0
=============================================================================
