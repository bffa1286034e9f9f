----------------------------- MODULE StrCliNonb -----------------------------
(***************************************************************************)
(* str_cli of unit16_not_block_io/strclinonb.c: a client that copies its   *)
(* input to an echo server and the echo to its output with nonblocking     *)
(* reads and writes and two buffers of its own, to[] and fr[].             *)
(*                                                                         *)
(* Line 17 passes F_GETFL where F_SETFL is meant, so standard output stays *)
(* blocking, unless it shares its open file with standard input (a         *)
(* terminal), which line 14 makes nonblocking for both.  The echo server   *)
(* (tcpserv01.c) is blocking and reads, then writes.  Bytes are counted.   *)
(***************************************************************************)
EXTENDS Integers

CONSTANTS Input,    \* bytes on standard input
          MAXLINE,  \* the size of each buffer
          Cap,      \* bytes the connection holds in each direction
          MayDie    \* whether the server may terminate early

ASSUME SizesAssumption == Input \in Nat /\ MAXLINE \in Nat \ {0} /\ Cap \in Nat \ {0}
ASSUME MayDieAssumption == MayDie \in BOOLEAN

VARIABLES
    pc,                             \* the next part of the loop, or its end
    toi, too, fri, fro,             \* toiptr, tooptr, friptr, froptr
    stdineof,
    rset, wset,                     \* of "stdin", "sock", "stdout"
    shared,                         \* standard output is nonblocking too
    left, out,                      \* bytes not yet read, bytes printed
    fin,                            \* shutdown has been called
    up, down,                       \* bytes in the connection
    held,                           \* bytes the server has read and not written
    srv                             \* "up", "closed" after EOF, or "died"

buffers == <<toi, too, fri, fro>>
server  == <<held, srv>>
vars    == <<pc, buffers, stdineof, rset, wset, shared, left, out, fin, up, down, server>>

Ended == {"returned", "premature", "failed"}
Least(a, b) == IF a < b THEN a ELSE b

Init ==
    /\ pc = "select"
    /\ toi = 0 /\ too = 0 /\ fri = 0 /\ fro = 0
    /\ stdineof = FALSE /\ rset = {} /\ wset = {}
    /\ shared \in BOOLEAN
    /\ left = Input /\ out = 0
    /\ fin = FALSE /\ up = 0 /\ down = 0 /\ held = 0 /\ srv = "up"

-----------------------------------------------------------------------------
(* The client *)

WantRead ==
    (IF ~stdineof /\ toi < MAXLINE THEN {"stdin"} ELSE {})
      \cup (IF fri < MAXLINE THEN {"sock"} ELSE {})

WantWrite ==
    (IF too # toi THEN {"sock"} ELSE {}) \cup (IF fri # fro THEN {"stdout"} ELSE {})

\* The kernel's answer; whether there is input is up to whoever types it.
ReadReady  == (IF down > 0 \/ srv # "up" THEN {"sock"} ELSE {})
WriteReady == {"stdout"} \cup (IF up < Cap \/ srv # "up" THEN {"sock"} ELSE {})

Select ==
    /\ pc = "select"
    /\ \E typed \in SUBSET {"stdin"} : rset' = WantRead \cap (ReadReady \cup typed)
    /\ wset' = WantWrite \cap WriteReady
    /\ rset' # {} \/ wset' # {}
    /\ pc' = "stdin"
    /\ UNCHANGED <<buffers, stdineof, shared, left, out, fin, up, down, server>>

\* A part of the loop whose descriptor is not in its set, or would block (a
\* nonblocking output may do so although bytes wait).
Pass(part, next, ready) ==
    /\ pc = part /\ ~ready
    /\ pc' = next
    /\ UNCHANGED <<buffers, stdineof, rset, wset, shared, left, out, fin, up, down,
                   server>>

\* Mutant: shutdown at end of input whatever to[] holds.
ShutdownAnyway == TRUE

\* End of input, with nothing left to send: the FIN goes out at once.
ShutdownNow == too = toi

\* The bytes a read or write of a stream may move, up to m: it may come short.
UpTo(m) == 1 .. m

\* read from stdin, as much as there is by now, behind what is not sent yet; a read
\* of no bytes looks like the end of input.
Stdin ==
    /\ pc = "stdin" /\ "stdin" \in rset
    /\ LET m == Least(left, MAXLINE - toi)
       IN  \/ /\ m = 0
              /\ stdineof' = TRUE
              /\ fin' = (fin \/ ShutdownNow)
              /\ UNCHANGED <<toi, left, wset>>
           \/ \E n \in UpTo(m) :
              /\ toi' = toi + n
              /\ left' = left - n
              /\ wset' = wset \cup {"sock"}
              /\ UNCHANGED <<stdineof, fin>>
    /\ pc' = "sock"
    /\ UNCHANGED <<too, fri, fro, rset, shared, out, up, down, server>>

\* read from the socket: bytes, nothing yet, or the server's FIN.
SockHasBytes == "sock" \in rset /\ Least(down, MAXLINE - fri) > 0
SockAtEof    == "sock" \in rset /\ (MAXLINE = fri \/ (down = 0 /\ srv # "up"))

SockRead ==
    /\ pc = "sock" /\ SockHasBytes
    /\ \E n \in UpTo(Least(down, MAXLINE - fri)) : fri' = fri + n /\ down' = down - n
    /\ wset' = wset \cup {"stdout"}
    /\ pc' = "stdout"
    /\ UNCHANGED <<toi, too, fro, stdineof, rset, shared, left, out, fin, up, server>>

SockEof ==
    /\ pc = "sock" /\ SockAtEof
    /\ pc' = IF stdineof THEN "returned" ELSE "premature"
    /\ UNCHANGED <<buffers, stdineof, rset, wset, shared, left, out, fin, up, down,
                   server>>

StdoutReady == "stdout" \in wset /\ fri > fro

\* Mutants: froptr is not moved over a partial write; fr[] is reset after one.
PrintedAgain(n) == IF fro + n = fri THEN fro' = 0 /\ fri' = 0 ELSE UNCHANGED <<fro, fri>>
PrintedAll(n)   == fro' = 0 /\ fri' = 0

Printed(n) == IF fro + n = fri THEN fro' = 0 /\ fri' = 0
                               ELSE fro' = fro + n /\ UNCHANGED fri

\* A blocking output takes everything, a nonblocking one a part.
Stdout ==
    /\ pc = "stdout" /\ StdoutReady
    /\ \E n \in (IF shared THEN 1 ELSE fri - fro) .. fri - fro :
          /\ out' = out + n
          /\ Printed(n)
    /\ pc' = "send"
    /\ UNCHANGED <<toi, too, stdineof, rset, wset, shared, left, fin, up, down, server>>

SendReady == "sock" \in wset /\ toi > too /\ srv = "up" /\ up < Cap

\* Mutant: no shutdown once the buffer has drained.
DrainedOnly == UNCHANGED fin

\* Drained: the buffer starts over, and the FIN that had to wait goes out.
Drained == fin' = (fin \/ stdineof)

Send ==
    /\ pc = "send" /\ SendReady
    /\ \E n \in UpTo(Least(toi - too, Cap - up)) :
           /\ up' = up + n
           /\ IF too + n = toi
                THEN too' = 0 /\ toi' = 0 /\ Drained
                ELSE too' = too + n /\ UNCHANGED <<toi, fin>>
    /\ pc' = "select"
    /\ UNCHANGED <<fri, fro, stdineof, rset, wset, shared, left, out, down, server>>

\* Writing to, or reading from, a connection its server has reset.
Fails ==
    /\ srv = "died"
    /\ \/ pc = "sock" /\ "sock" \in rset
       \/ pc = "send" /\ "sock" \in wset /\ toi > too
    /\ pc' = "failed"
    /\ UNCHANGED <<buffers, stdineof, rset, wset, shared, left, out, fin, up, down,
                   server>>

Loop ==
    \/ Select \/ Stdin \/ SockRead \/ SockEof \/ Stdout \/ Send \/ Fails
    \/ Pass("stdin", "sock", "stdin" \in rset)
    \/ Pass("sock", "stdout", SockHasBytes \/ SockAtEof)
    \/ Pass("stdout", "send", StdoutReady /\ ~shared)
    \/ Pass("send", "select", SendReady)

-----------------------------------------------------------------------------
(* The echo server: str_echo of unit5_echoserver/tcpserv01.c *)

ServerRead ==
    /\ srv = "up" /\ held = 0 /\ up > 0
    /\ held' \in UpTo(Least(up, MAXLINE)) /\ up' = up - held'
    /\ UNCHANGED <<pc, buffers, stdineof, rset, wset, shared, left, out, fin, down, srv>>

ServerWrite ==
    /\ srv = "up" /\ held > 0 /\ down < Cap
    /\ held' = held - Least(held, Cap - down)
    /\ down' = down + Least(held, Cap - down)
    /\ UNCHANGED <<pc, buffers, stdineof, rset, wset, shared, left, out, fin, up, srv>>

ServerClose ==
    /\ srv = "up" /\ held = 0 /\ up = 0 /\ fin
    /\ srv' = "closed"
    /\ UNCHANGED <<pc, buffers, stdineof, rset, wset, shared, left, out, fin, up, down,
                   held>>

ServerDies ==
    /\ MayDie /\ srv = "up"
    /\ srv' = "died"
    /\ UNCHANGED <<pc, buffers, stdineof, rset, wset, shared, left, out, fin, up, down,
                   held>>

Server == ServerRead \/ ServerWrite \/ ServerClose

Next == Loop \/ Server \/ ServerDies

\* The processes run, input comes when the client waits for nothing else, and a
\* terminal takes output now and then.
Spec == Init /\ [][Next]_vars /\ WF_vars(Loop) /\ WF_vars(Server) /\ SF_vars(Stdout)

-----------------------------------------------------------------------------
(* Properties *)

\* The pointers stay in their buffers, and in order.
CountsOK ==
    /\ toi \in 0 .. MAXLINE /\ too \in 0 .. MAXLINE /\ too <= toi
    /\ fri \in 0 .. MAXLINE /\ fro \in 0 .. MAXLINE /\ fro <= fri
    /\ left \in 0 .. Input /\ out \in 0 .. Input /\ held \in 0 .. Cap
    /\ up \in 0 .. Cap /\ down \in 0 .. Cap

TypeOK ==
    /\ CountsOK
    /\ pc \in {"select", "stdin", "sock", "stdout", "send"} \cup Ended
    /\ stdineof \in BOOLEAN /\ shared \in BOOLEAN /\ fin \in BOOLEAN
    /\ rset \subseteq {"stdin", "sock"} /\ wset \subseteq {"sock", "stdout"}
    /\ srv \in {"up", "closed", "died"}

\* shutdown comes only after every byte of the input has been written: neither a
\* full buffer nor bytes still in to[] at end of input let it come early.
ShutdownLast == fin => left = 0 /\ too = toi

\* A return after the server has closed means that everything was echoed and printed;
\* when standard output is nonblocking, at most one buffer is cut off.  After the
\* server has died it means only that the input was read to its end: the code then
\* returns without a word, whatever of the echo is missing.
OutputComplete ==
    pc = "returned" =>
        /\ srv # "up" /\ left = 0
        /\ srv = "closed" => IF shared THEN Input - out < MAXLINE ELSE out = Input

\* The client ends, whatever the size of its input: it never waits for the
\* server while the server waits for it, as a blocking client would.
Terminates == <>(pc \in Ended)
=============================================================================
