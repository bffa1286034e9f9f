----------------------------- MODULE EchoSelect -----------------------------
(***************************************************************************)
(* The echo service of unit6_select_and_pool over TCP: the single-process  *)
(* server tcpserverselect01.c and the client strcliselect02.c, which half- *)
(* closes when its input ends.  Some clients return at once when it ends,  *)
(* as strcliselect01.c does; its readline is in ForkEcho.                  *)
(*                                                                         *)
(* A byte stream is the number of bytes in it: an echo keeps the order.    *)
(* Sockets are blocking, so a write waits while the peer's buffer is full. *)
(***************************************************************************)
EXTENDS Integers, Sequences, FiniteSets, FiniteSetsExt

CONSTANTS Clients,
          Early,        \* those that return when their input ends
          Input,        \* bytes each of them has to send
          MAXLINE,      \* bytes one read takes at most
          Cap,          \* bytes a connection holds in each direction
          MaxFails,     \* bound on the failures of accept
          NegBit        \* the bit FD_SET(-1) sets: 63 with sets of 64-bit words

listenfd == 3

ASSUME ClientsAssumption == IsFiniteSet(Clients) /\ Early \subseteq Clients
ASSUME SizesAssumption ==
    Input \in [Clients -> Nat] /\ MAXLINE \in Nat \ {0} /\ Cap \in Nat \ {0}
ASSUME FailsAssumption == MaxFails \in Nat /\ NegBit \in Nat /\ NegBit > listenfd

Fds   == listenfd + 1 .. listenfd + Cardinality(Clients)
Slots == 0 .. Cardinality(Clients)   \* as many of client[] as can be reached
None  == -1

VARIABLES
    \* the server
    spc, client, maxi, maxfd, allset, rset, nready, i, n,
    fails,      \* failures of accept so far
    \* the kernel
    backlog,    \* connections that wait for accept
    fd,         \* the server's descriptor for a connection, or None
    closed,     \* connections the server has closed
    up, down,   \* bytes under way from and to each client
    rst,        \* "no", a reset "pending" at the server's end, or "taken"
    \* the clients
    cpc,        \* where each client is, or how it ended
    left,       \* bytes left in its input
    togo,       \* bytes Writen has still to write
    eof,        \* the client has sent its FIN
    out         \* bytes printed

server == <<spc, client, maxi, maxfd, allset, rset, nready, i, n, fails>>
tcp    == <<backlog, fd, closed, up, down, rst>>
cli    == <<cpc, left, togo, eof, out>>
vars   == <<server, tcp, cli>>

Gone(c) == cpc[c] \in {"done", "left", "failed", "premature"}
Conn(f) == CHOOSE c \in Clients : fd[c] = f
Least(a, b) == IF a < b THEN a ELSE b

Init ==
    /\ spc = "select" /\ rset = {} /\ nready = 0 /\ i = 0 /\ n = 0 /\ fails = 0
    /\ client = [k \in Slots |-> None] /\ maxi = None
    /\ maxfd = listenfd /\ allset = {listenfd}
    /\ backlog = <<>> /\ closed = {}
    /\ fd = [c \in Clients |-> None]
    /\ up = [c \in Clients |-> 0] /\ down = [c \in Clients |-> 0]
    /\ rst = [c \in Clients |-> "no"]
    /\ cpc = [c \in Clients |-> "start"]
    /\ left = Input /\ togo = [c \in Clients |-> 0]
    /\ eof = {} /\ out = [c \in Clients |-> 0]

-----------------------------------------------------------------------------
(* The server *)

Readable(f) ==
    IF f = listenfd THEN backlog # <<>>
    ELSE LET c == Conn(f) IN up[c] > 0 \/ rst[c] # "no" \/ c \in eof

\* A failed accept has left its bit in allset, and it is not the one of a connection.
BadBit == NegBit \in allset /\ NegBit <= maxfd /\ \A c \in Clients : fd[c] # NegBit

Select ==
    /\ spc = "select" /\ ~BadBit
    /\ rset' = {f \in allset : f <= maxfd /\ Readable(f)}
    /\ rset' # {}
    /\ nready' = Cardinality(rset')
    /\ i' = 0
    /\ spc' = IF listenfd \in rset' THEN "accept" ELSE "scan"
    /\ UNCHANGED <<client, maxi, maxfd, allset, n, fails, tcp, cli>>

\* select returns -1 (EBADF) and leaves rset as it was: listenfd is in it, so accept
\* is next, which blocks when nothing waits, and after that the loop goes on.
SelectFails ==
    /\ spc = "select" /\ BadBit
    /\ rset' = allset /\ nready' = -1 /\ i' = 0
    /\ spc' = "accept"
    /\ UNCHANGED <<client, maxi, maxfd, allset, n, fails, tcp, cli>>

\* Mutants: maxi is not raised, or maxfd.
EnterKeepsMaxi(k, f) ==
    /\ client' = [client EXCEPT ![k] = f]
    /\ allset' = allset \cup {f}
    /\ maxfd' = Max({maxfd, f})
    /\ UNCHANGED maxi
EnterKeepsMaxfd(k, f) ==
    /\ client' = [client EXCEPT ![k] = f]
    /\ allset' = allset \cup {f}
    /\ maxi' = Max({maxi, k})
    /\ UNCHANGED maxfd

\* The bookkeeping of a new connection in the first free slot.
Enter(k, f) ==
    /\ client' = [client EXCEPT ![k] = f]
    /\ allset' = allset \cup {f}
    /\ maxfd' = Max({maxfd, f})
    /\ maxi' = Max({maxi, k})

Accept ==
    /\ spc = "accept" /\ backlog # <<>>
    /\ LET f == Min(Fds \ {fd[c] : c \in Clients})
       IN  /\ fd' = [fd EXCEPT ![Head(backlog)] = f]
           /\ Enter(Min({k \in Slots : client[k] = None}), f)
    /\ backlog' = Tail(backlog)
    /\ nready' = nready - 1
    /\ spc' = IF nready - 1 <= 0 THEN "select" ELSE "scan"
    /\ UNCHANGED <<rset, i, n, fails, closed, up, down, rst, cli>>

\* Without a free descriptor accept returns -1, which nobody looks at: the slot it
\* is put into stays free, and FD_SET(-1) sets another bit.  (Optimized, glibc may
\* check the index and abort.)
AcceptFails ==
    /\ spc = "accept" /\ fails < MaxFails
    /\ fails' = fails + 1
    /\ maxi' = Max({maxi, Min({k \in Slots : client[k] = None})})
    /\ allset' = allset \cup {NegBit}
    /\ nready' = nready - 1
    /\ spc' = IF nready - 1 <= 0 THEN "select" ELSE "scan"
    /\ UNCHANGED <<client, maxfd, rset, i, n, tcp, cli>>

\* Mutant: the loop tests allset where rset is meant.
AheadInAllset == {k \in i .. maxi : client[k] # None /\ client[k] \in allset}

\* The slots the rest of the loop over client[] stops at.
Ahead == {k \in i .. maxi : client[k] # None /\ client[k] \in rset}

\* --nready <= 0 ends the loop, and so does maxi.
Handled(k) ==
    /\ nready' = nready - 1
    /\ i' = k + 1
    /\ spc' = IF nready - 1 <= 0 \/ Ahead \subseteq {k} THEN "select" ELSE "scan"

ReadData(k) ==
    /\ spc = "scan" /\ Ahead # {} /\ k = Min(Ahead)
    /\ LET c == Conn(client[k])
       IN  /\ up[c] > 0
           /\ n' = Least(up[c], MAXLINE)
           /\ up' = [up EXCEPT ![c] = @ - n']
    /\ i' = k
    /\ spc' = "write"
    /\ UNCHANGED <<client, maxi, maxfd, allset, rset, nready, fails, backlog, fd, closed,
                   down, rst, cli>>

\* read returns -1: Write(sockfd, buf, -1) fails too, and its result -1 equals
\* its argument, so nothing happens until the next select.
ReadError(k) ==
    /\ spc = "scan" /\ Ahead # {} /\ k = Min(Ahead)
    /\ LET c == Conn(client[k])
       IN  /\ up[c] = 0 /\ rst[c] = "pending"
           /\ rst' = [rst EXCEPT ![c] = "taken"]
    /\ Handled(k)
    /\ UNCHANGED <<client, maxi, maxfd, allset, rset, n, fails, backlog, fd, closed, up,
                   down, cli>>

\* read returns 0: Close, free the slot, FD_CLR.
ReadEof(k) ==
    /\ spc = "scan" /\ Ahead # {} /\ k = Min(Ahead)
    /\ LET c == Conn(client[k])
       IN  /\ up[c] = 0 /\ rst[c] # "pending" /\ (rst[c] = "taken" \/ c \in eof)
           /\ closed' = closed \cup {c}
           /\ fd' = [fd EXCEPT ![c] = None]
    /\ client' = [client EXCEPT ![k] = None]
    /\ allset' = allset \ {client[k]}
    /\ Handled(k)
    /\ UNCHANGED <<maxi, maxfd, rset, n, fails, backlog, up, down, rst, cli>>

\* Write(sockfd, buf, n).  A client that left answers with a reset, which may
\* come at once or later; a write after the reset fails and err_sys ends the
\* server.  A connection with bytes from its client is reset if they were there, and
\* closed first if they were under way; the others are closed.
Echo ==
    /\ spc = "write"
    /\ LET c == Conn(client[i])
       IN \/ /\ rst[c] # "no"
             /\ spc' = "failed"
             /\ \E fin \in SUBSET {d \in Clients : fd[d] # None} :
                  /\ \A d \in Clients : fd[d] # None /\ up[d] = 0 => d \in fin
                  /\ closed' = closed \cup fin
             /\ UNCHANGED <<n, nready, i, down, rst>>
          \/ /\ rst[c] = "no" /\ Gone(c)
             /\ \E r \in {"no", "pending"} : rst' = [rst EXCEPT ![c] = r]
             /\ n' = 0 /\ Handled(i)
             /\ UNCHANGED <<down, closed>>
          \/ /\ rst[c] = "no" /\ ~Gone(c) /\ down[c] < Cap
             /\ LET m == Least(n, Cap - down[c])
                IN  /\ down' = [down EXCEPT ![c] = @ + m]
                    /\ n' = n - m
                    /\ IF m = n THEN Handled(i) ELSE UNCHANGED <<nready, i, spc>>
             /\ UNCHANGED <<rst, closed>>
    /\ UNCHANGED <<client, maxi, maxfd, allset, rset, fails, backlog, fd, up, cli>>

Server ==
    \/ Select \/ SelectFails \/ Accept \/ AcceptFails \/ Echo
    \/ \E k \in Slots : ReadData(k) \/ ReadError(k) \/ ReadEof(k)

-----------------------------------------------------------------------------
(* The clients *)

Become(c, where) == cpc' = [cpc EXCEPT ![c] = where]

Connect(c) ==
    /\ cpc[c] = "start" /\ spc # "failed"
    /\ Become(c, "select")
    /\ backlog' = Append(backlog, c)
    /\ UNCHANGED <<server, fd, closed, up, down, rst, left, togo, eof, out>>

ReadSock(c) ==
    /\ cpc[c] = "select" /\ down[c] > 0
    /\ LET m == Least(down[c], MAXLINE)
       IN  /\ down' = [down EXCEPT ![c] = @ - m]
           /\ out' = [out EXCEPT ![c] = @ + m]
    /\ UNCHANGED <<server, backlog, fd, closed, up, rst, cpc, left, togo, eof>>

\* Read returns 0: what the client was waiting for, or "server terminated
\* prematurely".
SockEof(c) ==
    /\ cpc[c] = "select" /\ down[c] = 0 /\ c \in closed
    /\ Become(c, IF c \in eof THEN "done" ELSE "premature")
    /\ UNCHANGED <<server, tcp, left, togo, eof, out>>

ReadStdin(c) ==
    /\ cpc[c] = "select" /\ c \notin eof /\ left[c] > 0
    /\ togo' = [togo EXCEPT ![c] = Least(left[c], MAXLINE)]
    /\ left' = [left EXCEPT ![c] = @ - togo'[c]]
    /\ Become(c, "write")
    /\ UNCHANGED <<server, tcp, eof, out>>

\* Writen, a part at a time as the connection takes it, one that the server has
\* closed included: what is sent there is lost.
WriteSock(c) ==
    /\ cpc[c] = "write" /\ up[c] < Cap
    /\ LET m == Least(togo[c], Cap - up[c])
       IN  /\ up' = [up EXCEPT ![c] = @ + m]
           /\ togo' = [togo EXCEPT ![c] = @ - m]
           /\ Become(c, IF m = togo[c] THEN "select" ELSE "write")
    /\ UNCHANGED <<server, backlog, fd, closed, down, rst, left, eof, out>>

\* Mutants: the client closes where it should half-close; it never tells.
FullClose(c) ==
    /\ eof' = eof \cup {c}
    /\ Become(c, "done")
    /\ rst' = [rst EXCEPT ![c] = IF down[c] > 0 THEN "pending" ELSE @]
NoShutdown(c) == UNCHANGED <<eof, cpc, rst>>

\* strcliselect02: stdineof = 1, shutdown(sockfd, SHUT_WR).
HalfClose(c) ==
    /\ eof' = eof \cup {c}
    /\ UNCHANGED <<cpc, rst>>

\* strcliselect01: return, exit; bytes not read turn the close into a reset.
Leave(c) ==
    /\ eof' = eof \cup {c}
    /\ Become(c, "left")
    /\ rst' = [rst EXCEPT ![c] = IF down[c] > 0 THEN "pending" ELSE @]

StdinEof(c) ==
    /\ cpc[c] = "select" /\ c \notin eof /\ left[c] = 0
    /\ IF c \in Early THEN Leave(c) ELSE HalfClose(c)
    /\ UNCHANGED <<server, backlog, fd, closed, up, down, left, togo, out>>

\* The server is dead and the connection reset, for bytes that were there or that
\* came after it was closed: Read or Writen fails.
ServerDied(c) ==
    /\ spc = "failed" /\ cpc[c] \in {"select", "write"}
    /\ c \notin closed \/ up[c] > 0
    /\ Become(c, "failed")
    /\ UNCHANGED <<server, tcp, left, togo, eof, out>>

\* connect, which is not checked, was refused: Read returns 0.
Refused(c) ==
    /\ spc = "failed" /\ cpc[c] = "start"
    /\ Become(c, "premature")
    /\ UNCHANGED <<server, tcp, left, togo, eof, out>>

Client(c) ==
    \/ Connect(c) \/ ReadSock(c) \/ SockEof(c) \/ ReadStdin(c) \/ WriteSock(c)
    \/ StdinEof(c) \/ ServerDied(c) \/ Refused(c)

Next == Server \/ \E c \in Clients : Client(c)

\* Processes that can run do, and input does not stop coming before its end.
Spec ==
    /\ Init /\ [][Next]_vars
    /\ WF_vars(Server)
    /\ \A c \in Clients : WF_vars(Client(c))

-----------------------------------------------------------------------------
(* Properties *)

\* The types of the state: every count a read, a write or nready can reach stays in
\* its buffer and in client[], through every early exit of the loops.
TypeOK ==
    /\ spc \in {"select", "accept", "scan", "write", "failed"}
    /\ client \in [Slots -> Fds \cup {None}] /\ maxi \in Slots \cup {None}
    /\ maxfd \in Fds \cup {listenfd}
    /\ {allset, rset} \subseteq SUBSET (Fds \cup {listenfd, NegBit})
    /\ nready \in -2 .. Cardinality(Slots) + 1 /\ i \in Nat /\ n \in 0 .. MAXLINE
    /\ fails \in 0 .. MaxFails
    /\ backlog \in Seq(Clients) /\ closed \subseteq Clients /\ eof \subseteq Clients
    /\ fd \in [Clients -> Fds \cup {None}]
    /\ up \in [Clients -> 0 .. Cap] /\ down \in [Clients -> 0 .. Cap]
    /\ rst \in [Clients -> {"no", "pending", "taken"}]
    /\ cpc \in [Clients -> {"start", "select", "write", "done", "left", "failed",
                            "premature"}]
    /\ \A c \in Clients : left[c] \in 0 .. Input[c] /\ out[c] \in 0 .. Input[c]
    /\ {left, out} \subseteq [Clients -> Nat] /\ togo \in [Clients -> 0 .. MAXLINE]

Used == {k \in Slots : client[k] # None}
Own  == {listenfd} \cup {client[k] : k \in Used}

\* client[], allset, maxi and maxfd describe the open connections, through every
\* reuse of slots and descriptor numbers: no connection is forgotten, none is
\* left behind in a set, and the two bounds of the loops cover all of them.  Only a
\* failed accept leaves a bit in allset that may be no connection's.
TablesAgree ==
    /\ TypeOK
    /\ Own \subseteq allset /\ allset \subseteq Own \cup (IF fails > 0 THEN {NegBit} ELSE {})
    /\ {client[k] : k \in Used} = {fd[c] : c \in Clients} \ {None}
    /\ \A j, k \in Used : client[j] = client[k] => j = k
    /\ \A k \in Used : k <= maxi /\ client[k] <= maxfd

\* A descriptor that select reported stays readable until the loop reaches it,
\* and is still the same connection: the only process never blocks in read.  And
\* nready counts these descriptors: its early exits skip none of them.
ReadNeverBlocks ==
    spc = "scan" => /\ \A k \in Ahead : Readable(client[k])
                    /\ nready = Cardinality(Ahead)

\* A client returns from str_cli with the echo of all its input: the half-close
\* loses nothing in either direction.  If the server has died, what it had not read
\* is missing without a word, and no more than that.
EchoComplete ==
    \A c \in Clients : cpc[c] = "done" =>
        \/ out[c] = Input[c]
        \/ spc = "failed" /\ out[c] + up[c] = Input[c]

\* The server waits for the client to read and the client for the server.
Deadlocked ==
    /\ spc = "write" /\ n > 0
    /\ LET c == Conn(client[i]) IN cpc[c] = "write" /\ down[c] = Cap /\ up[c] = Cap

\* Behind a select that failed the server waits in accept for one more client.
Stranded == spc = "accept" /\ nready < 0 /\ backlog = <<>>

\* The server's next call returns, and the next call of a client.
ServerMoves ==
    \/ spc = "select" /\ (BadBit \/ \E f \in allset : f <= maxfd /\ Readable(f))
    \/ spc = "accept" /\ backlog # <<>>
    \/ spc = "scan" /\ Ahead # {} /\ Readable(client[Min(Ahead)])
    \/ /\ spc = "write"
       /\ LET c == Conn(client[i]) IN rst[c] # "no" \/ Gone(c) \/ down[c] < Cap
ClientMoves(c) ==
    \/ cpc[c] = "start"
    \/ cpc[c] = "select" /\ (c \notin eof \/ c \in closed \/ down[c] > 0 \/ spc = "failed")
    \/ cpc[c] = "write" /\ (up[c] < Cap \/ spc = "failed")

\* As long as a client has not come to its end some process can go on, unless the
\* blocking writes of the server and of one client meet, or the bit of a failed
\* accept has the server wait in accept: no other way to hang exists.
OnlyWritesMeet ==
    (\E c \in Clients : ~Gone(c)) =>
        \/ ServerMoves \/ \E c \in Clients : ClientMoves(c)
        \/ Deadlocked \/ (Stranded /\ fails > 0)

\* Every client comes to its end, but for the same two.
AllFinish == <>[]((\A c \in Clients : Gone(c)) \/ Deadlocked \/ Stranded)
=============================================================================
