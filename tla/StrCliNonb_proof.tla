-------------------------- MODULE StrCliNonb_proof --------------------------
(***************************************************************************)
(* What holds of the nonblocking str_cli for buffers, a connection and an  *)
(* input of any size: the pointers stay in order, shutdown comes last, and *)
(* what the client returns with is complete.                               *)
(***************************************************************************)
EXTENDS StrCliNonb, TLAPS

\* No byte is lost or made on the way from the input to the output.
Conserved ==
    left + (toi - too) + up + held + down + (fri - fro) + out = Input

\* A read is made only into a buffer that had room when select was called.
RoomToRead ==
    /\ pc = "stdin" /\ "stdin" \in rset => toi < MAXLINE
    /\ pc \in {"stdin", "sock"} /\ "sock" \in rset => fri < MAXLINE

\* The end of the input, and the end of the connection after it.
EndsInOrder ==
    /\ stdineof => left = 0
    /\ fin => stdineof /\ too = toi
    /\ srv = "closed" => fin /\ up = 0 /\ held = 0
    /\ pc = "returned" => srv # "up"

\* A blocking output is emptied in each turn of the loop.
Emptied ==
    ~shared =>
        /\ pc \in {"select", "stdin", "sock", "send"} => fri = fro
        /\ pc = "stdout" /\ fri > fro => "stdout" \in wset

IInv ==
    /\ TypeOK /\ Conserved /\ RoomToRead /\ EndsInOrder /\ Emptied /\ OutputComplete

\* What an action changes in each part of the loop is split into the numbers, which
\* are left to arithmetic, and the flags.
LEMMA InitIInv == Init => IInv
<1> SUFFICES ASSUME Init PROVE IInv
  OBVIOUS
<1>1. CountsOK /\ Conserved
  BY SizesAssumption DEF Init, CountsOK, Conserved
<1>2. TypeOK
  BY <1>1 DEF Init, TypeOK
<1> QED
  BY <1>1, <1>2 DEF Init, IInv, RoomToRead, EndsInOrder, Emptied, OutputComplete

\* The sets select returns are made from what it was asked for.
LEMMA SelectIInv ==
  ASSUME IInv, Select
  PROVE  IInv'
<1>1. /\ rset' \subseteq WantRead /\ wset' \subseteq WantWrite
      /\ WantRead \subseteq {"stdin", "sock"} /\ WantWrite \subseteq {"sock", "stdout"}
  BY DEF Select, WantRead, WantWrite
<1>2. CountsOK' /\ Conserved'
  BY DEF Select, IInv, TypeOK, CountsOK, Conserved, buffers, server
<1>3. TypeOK'
  BY <1>1, <1>2 DEF IInv, Select, TypeOK, server
<1>4. RoomToRead'
  <2>1. "stdin" \in WantRead => toi < MAXLINE
    BY DEF WantRead
  <2>2. "sock" \in WantRead => fri < MAXLINE
    BY DEF WantRead
  <2> QED
    BY <1>1, <2>1, <2>2 DEF Select, RoomToRead, buffers
<1> QED
  BY <1>2, <1>3, <1>4
  DEF Select, IInv, EndsInOrder, Emptied, OutputComplete, buffers, server

LEMMA StdinIInv ==
  ASSUME IInv, Stdin
  PROVE  IInv'
<1> DEFINE m == Least(left, MAXLINE - toi)
<1>1. /\ m \in Nat /\ m <= left /\ m <= MAXLINE - toi
      /\ m = 0 => left = 0
  BY SizesAssumption DEF Least, Stdin, IInv, TypeOK, CountsOK, RoomToRead
<1>0. /\ pc = "stdin" /\ pc' = "sock" /\ rset' = rset /\ shared' = shared
      /\ UNCHANGED <<too, fri, fro, up, held, down, out, srv>>
  BY DEF Stdin, server
<1>2. CASE m = 0 /\ stdineof' = TRUE /\ fin' = (fin \/ ShutdownNow)
           /\ UNCHANGED <<toi, left, wset>>
  <2>1. /\ pc' = "sock" /\ stdineof' = TRUE /\ fin' = (fin \/ ShutdownNow)
        /\ UNCHANGED <<toi, too, fri, fro, left, up, held, down, out>>
        /\ UNCHANGED <<rset, wset, shared, srv>>
    BY <1>0, <1>2
  <2>2. left = 0
    BY <1>1, <1>2
  <2>3. CountsOK' /\ Conserved'
    BY <2>1 DEF IInv, TypeOK, CountsOK, Conserved
  <2>4. /\ fin' \in BOOLEAN /\ stdineof' \in BOOLEAN
        /\ fin' => too = toi
    BY <2>1 DEF IInv, EndsInOrder, ShutdownNow
  <2>5. TypeOK'
    BY <2>1, <2>3, <2>4 DEF IInv, TypeOK
  <2>7. RoomToRead' /\ OutputComplete'
    BY <2>1 DEF IInv, RoomToRead, OutputComplete, Stdin
  <2>8. Emptied'
    BY <2>1 DEF IInv, Emptied, Stdin
  <2>6. EndsInOrder'
    BY <2>1, <2>2, <2>4 DEF IInv, EndsInOrder, ShutdownNow
  <2> QED
    BY <2>3, <2>5, <2>6, <2>7, <2>8 DEF IInv
<1>3. ASSUME NEW n \in UpTo(m), toi' = toi + n, left' = left - n,
             wset' = wset \cup {"sock"}, UNCHANGED <<stdineof, fin>>
      PROVE  IInv'
  <2>1. /\ pc' = "sock" /\ toi' = toi + n /\ left' = left - n
        /\ UNCHANGED <<too, fri, fro, up, held, down, out>>
        /\ UNCHANGED <<stdineof, fin, rset, shared, srv>>
        /\ wset' = wset \cup {"sock"}
    BY <1>0, <1>3
  <2>9. n \in Nat \ {0} /\ n <= left /\ n <= MAXLINE - toi
    <3>1. n \in 1 .. m
      BY DEF UpTo
    <3> HIDE DEF m
    <3> QED
      BY <1>1, <3>1, SizesAssumption DEF IInv, TypeOK, CountsOK
  <2> HIDE DEF m
  <2>2. CountsOK' /\ Conserved'
    BY <2>9, <2>1, SizesAssumption DEF IInv, TypeOK, CountsOK, Conserved
  <2>3. left # 0
    BY <2>9 DEF IInv, TypeOK, CountsOK
  <2>4. ~stdineof /\ ~fin /\ srv # "closed"
    BY <2>3 DEF IInv, EndsInOrder
  <2>5. TypeOK'
    BY <2>1, <2>2 DEF IInv, TypeOK
  <2>6. RoomToRead' /\ OutputComplete'
    BY <2>1 DEF IInv, RoomToRead, OutputComplete, Stdin
  <2>7. EndsInOrder'
    BY <2>1, <2>4 DEF IInv, EndsInOrder
  <2>8. Emptied'
    BY <2>1 DEF IInv, Emptied, Stdin
  <2> QED
    BY <2>2, <2>5, <2>6, <2>7, <2>8 DEF IInv
<1> QED
  BY <1>2, <1>3 DEF Stdin

LEMMA SockReadIInv ==
  ASSUME IInv, SockRead
  PROVE  IInv'
<1> DEFINE m == Least(down, MAXLINE - fri)
<1>0. PICK n \in UpTo(m) : fri' = fri + n /\ down' = down - n
  BY DEF SockRead
<1>1. n \in Nat /\ n <= down /\ n <= MAXLINE - fri
  <2>1. m \in Nat /\ m <= down /\ m <= MAXLINE - fri
    BY SizesAssumption DEF Least, IInv, TypeOK, CountsOK
  <2>2. n \in 1 .. m
    BY <1>0 DEF UpTo
  <2> HIDE DEF m
  <2> QED
    BY <2>1, <2>2, SizesAssumption DEF IInv, TypeOK, CountsOK
<1>2. /\ pc' = "stdout" /\ fri' = fri + n /\ down' = down - n
      /\ UNCHANGED <<toi, too, fro, left, up, held, out>>
      /\ UNCHANGED <<stdineof, fin, rset, shared, srv>>
      /\ wset' = wset \cup {"stdout"}
  BY <1>0 DEF SockRead, server
<1> HIDE DEF m
<1>3. CountsOK' /\ Conserved'
  BY <1>1, <1>2, SizesAssumption DEF IInv, TypeOK, CountsOK, Conserved
<1> QED
  BY <1>2, <1>3 DEF IInv, TypeOK, RoomToRead, EndsInOrder, Emptied, OutputComplete

\* A server that has closed has written all it read, and it had read all there was.
LEMMA SockEofIInv ==
  ASSUME IInv, SockEof
  PROVE  IInv'
<1>1. /\ pc = "sock" /\ pc' \in {"returned", "premature"}
      /\ UNCHANGED <<toi, too, fri, fro, left, up, held, down, out>>
      /\ UNCHANGED <<stdineof, fin, rset, wset, shared, srv>>
  BY DEF SockEof, buffers, server
<1>2. fri < MAXLINE /\ down = 0 /\ srv # "up"
  BY DEF SockEof, SockAtEof, IInv, TypeOK, CountsOK, RoomToRead
<1>3. CountsOK' /\ Conserved'
  BY <1>1 DEF IInv, TypeOK, CountsOK, Conserved
<1>4. OutputComplete'
  <2>1. CASE srv = "closed"
    <3>1. left = 0 /\ too = toi /\ up = 0 /\ held = 0
      BY <2>1 DEF IInv, EndsInOrder
    <3>2. out = Input - (fri - fro) /\ fro \in Nat /\ fri \in Nat
      BY <1>2, <3>1, SizesAssumption DEF IInv, TypeOK, CountsOK, Conserved
    <3>3. ~shared => fri = fro
      BY <1>1 DEF IInv, Emptied
    <3>4. Input - out < MAXLINE /\ (~shared => out = Input)
      BY <1>2, <3>2, <3>3, SizesAssumption
    <3> QED
      BY <1>1, <2>1, <3>1, <3>4 DEF OutputComplete
  <2>2. pc' = "returned" => left' = 0
    BY <1>1 DEF SockEof, IInv, EndsInOrder
  <2> QED
    BY <1>1, <1>2, <2>1, <2>2 DEF OutputComplete
<1> QED
  BY <1>1, <1>2, <1>3, <1>4
  DEF IInv, TypeOK, Ended, RoomToRead, EndsInOrder, Emptied

LEMMA PrintedCounts ==
  ASSUME CountsOK, Conserved, NEW n \in Nat, n <= fri - fro, Printed(n), out' = out + n,
         UNCHANGED <<toi, too, left, up, down, held>>
  PROVE  CountsOK' /\ Conserved' /\ (n = fri - fro => fri' = fro')
<1>1. CASE fro + n = fri
  BY <1>1, SizesAssumption DEF Printed, CountsOK, Conserved
<1>2. CASE fro + n # fri
  BY <1>2, SizesAssumption DEF Printed, CountsOK, Conserved
<1> QED
  BY <1>1, <1>2

LEMMA StdoutIInv ==
  ASSUME IInv, Stdout
  PROVE  IInv'
<1>1. CountsOK /\ Conserved
  BY DEF IInv, TypeOK
<1>2. PICK n \in (IF shared THEN 1 ELSE fri - fro) .. fri - fro :
        out' = out + n /\ Printed(n)
  BY DEF Stdout
<1>3. n \in Nat /\ n <= fri - fro /\ (~shared => n = fri - fro)
  BY <1>1, <1>2, SizesAssumption DEF Stdout, StdoutReady, CountsOK
<1>4. UNCHANGED <<toi, too, left, up, down, held>>
  BY DEF Stdout, server
<1>5. CountsOK' /\ Conserved' /\ (~shared => fri' = fro')
  BY <1>1, <1>2, <1>3, <1>4, PrintedCounts
<1>6. pc' = "send" /\ UNCHANGED <<stdineof, fin, rset, wset, shared, srv>>
  BY DEF Stdout, server
<1> QED
  BY <1>4, <1>5, <1>6
  DEF IInv, TypeOK, RoomToRead, EndsInOrder, Emptied, OutputComplete

LEMMA SendIInv ==
  ASSUME IInv, Send
  PROVE  IInv'
<1> DEFINE m == Least(toi - too, Cap - up)
<1>0. PICK n \in UpTo(m) :
        /\ up' = up + n
        /\ IF too + n = toi
             THEN too' = 0 /\ toi' = 0 /\ Drained
             ELSE too' = too + n /\ UNCHANGED <<toi, fin>>
  BY DEF Send
<1>1. n \in Nat \ {0} /\ n <= toi - too /\ n <= Cap - up /\ too # toi
  <2>1. m \in Nat /\ m <= toi - too /\ m <= Cap - up /\ too # toi
    BY SizesAssumption DEF Least, Send, SendReady, IInv, TypeOK, CountsOK
  <2>2. n \in 1 .. m
    BY <1>0 DEF UpTo
  <2> HIDE DEF m
  <2> QED
    BY <2>1, <2>2, SizesAssumption DEF IInv, TypeOK, CountsOK
<1>2. /\ pc' = "select" /\ up' = up + n /\ srv' = "up" /\ srv = "up"
      /\ UNCHANGED <<fri, fro, left, down, held, out>>
      /\ UNCHANGED <<stdineof, rset, wset, shared>>
  BY <1>0 DEF Send, SendReady, server
<1>3. \/ too + n = toi /\ too' = 0 /\ toi' = 0
      \/ too' = too + n /\ toi' = toi
  BY <1>0
<1>4. (too' = toi' /\ fin' = (fin \/ stdineof)) \/ fin' = fin
  BY <1>0 DEF Drained
<1> HIDE DEF m
<1>5. CountsOK' /\ Conserved'
  BY <1>1, <1>2, <1>3, SizesAssumption DEF IInv, TypeOK, CountsOK, Conserved
<1>6. ~fin /\ pc' # "returned"
  BY <1>1, <1>2 DEF IInv, EndsInOrder
<1>7. fin' \in BOOLEAN /\ (fin' => stdineof /\ too' = toi')
  BY <1>4, <1>6 DEF IInv, TypeOK
<1>8. EndsInOrder'
  BY <1>2, <1>7 DEF IInv, CountsOK, EndsInOrder, Send
<1> QED
  <2>1. TypeOK'
    BY <1>2, <1>5, <1>7 DEF IInv, TypeOK
  <2>2. RoomToRead' /\ Emptied' /\ OutputComplete'
    BY <1>2 DEF IInv, RoomToRead, Emptied, OutputComplete, Send
  <2> QED
    BY <1>5, <1>8, <2>1, <2>2 DEF IInv

\* The parts of the loop that are passed by.
LEMMA OtherIInv ==
  ASSUME IInv,
         \/ Fails
         \/ Pass("stdin", "sock", "stdin" \in rset)
         \/ Pass("sock", "stdout", SockHasBytes \/ SockAtEof)
         \/ Pass("stdout", "send", StdoutReady /\ ~shared)
         \/ Pass("send", "select", SendReady)
  PROVE  IInv'
<1>1. /\ UNCHANGED <<toi, too, fri, fro, left, up, held, down, out>>
      /\ UNCHANGED <<stdineof, fin, rset, wset, shared, srv>>
  BY DEF Fails, Pass, buffers, server
<1>2. CountsOK' /\ Conserved'
  BY <1>1 DEF IInv, TypeOK, CountsOK, Conserved
<1>3. /\ pc' \in {"sock", "stdout", "send", "select", "failed"}
      /\ pc' = "sock" => pc = "stdin"
      /\ pc' = "stdout" => pc = "sock"
      /\ pc' = "send" => pc = "stdout" /\ ~(StdoutReady /\ ~shared)
      /\ pc' = "select" => pc = "send"
  BY DEF Fails, Pass
<1>4. ~shared /\ pc' = "send" => fri' = fro'
  BY <1>1, <1>3 DEF IInv, TypeOK, CountsOK, Emptied, StdoutReady
<1>5. fri' = fro' => ~(fri' > fro')
  BY <1>2 DEF CountsOK
<1> QED
  BY <1>1, <1>2, <1>3, <1>4, <1>5
  DEF IInv, TypeOK, Ended, RoomToRead, EndsInOrder, Emptied, OutputComplete

LEMMA ServerIInv ==
  ASSUME IInv, Server \/ ServerDies
  PROVE  IInv'
<1>1. CASE ServerRead
  <2>1. held' \in Nat /\ held' <= up /\ up' = up - held' /\ held = 0 /\ srv = "up"
    <3>1. held' \in 1 .. Least(up, MAXLINE) /\ up' = up - held' /\ held = 0 /\ srv = "up"
      BY <1>1 DEF ServerRead, UpTo
    <3>2. Least(up, MAXLINE) \in Nat /\ Least(up, MAXLINE) <= up
      BY SizesAssumption DEF Least, IInv, TypeOK, CountsOK
    <3> QED
      BY <3>1, <3>2, SizesAssumption DEF IInv, TypeOK, CountsOK
  <2>3. UNCHANGED <<toi, too, fri, fro, left, out, down>>
    BY <1>1 DEF ServerRead, buffers
  <2>4. /\ CountsOK /\ Conserved /\ {Cap, up} \subseteq Nat /\ up <= Cap
    BY SizesAssumption DEF IInv, TypeOK, CountsOK
  <2>5. held' \in 0 .. Cap /\ up' \in 0 .. Cap /\ up' + held' = up + held
    BY <2>1, <2>4
  <2>6. CountsOK'
    BY <2>3, <2>4, <2>5 DEF CountsOK
  <2>7. left + (toi - too) + up' + held' = left + (toi - too) + up + held
    <3> DEFINE a == left + (toi - too)
    <3>1. a \in Int /\ up \in Int /\ held \in Int /\ up' \in Int /\ held' \in Int
      BY <2>4, <2>5 DEF CountsOK
    <3> HIDE DEF a
    <3>2. \A u, h, v \in Int : v = u - h => a + v + h = a + u + 0
      BY <3>1
    <3>3. a + up' + held' = a + up + 0
      BY <2>1, <3>1, <3>2
    <3> QED
      BY <2>1, <3>3 DEF a
  <2>2. CountsOK' /\ Conserved'
    BY <2>3, <2>4, <2>6, <2>7 DEF Conserved
  <2> QED
    BY <1>1, <2>1, <2>2
    DEF ServerRead, IInv, TypeOK, RoomToRead, EndsInOrder, Emptied, OutputComplete, buffers
<1>2. CASE ServerWrite
  <2> DEFINE n == Least(held, Cap - down)
  <2>1. n \in Nat /\ n <= held /\ n <= Cap - down
    BY SizesAssumption DEF Least, IInv, TypeOK, CountsOK
  <2>2. CountsOK' /\ Conserved'
    BY <1>2, <2>1, SizesAssumption
    DEF ServerWrite, IInv, TypeOK, CountsOK, Conserved, buffers
  <2> QED
    BY <1>2, <2>2
    DEF ServerWrite, IInv, TypeOK, RoomToRead, EndsInOrder, Emptied, OutputComplete,
        buffers
<1>3. CASE ServerClose \/ ServerDies
  <2>1. srv = "up" /\ pc # "returned"
    BY <1>3 DEF ServerClose, ServerDies, IInv, EndsInOrder
  <2>2. CountsOK' /\ Conserved'
    BY <1>3
    DEF ServerClose, ServerDies, IInv, TypeOK, CountsOK, Conserved, buffers
  <2>3. EndsInOrder'
    BY <1>3, <2>1 DEF ServerClose, ServerDies, IInv, EndsInOrder, buffers
  <2> QED
    BY <1>3, <2>1, <2>2, <2>3
    DEF ServerClose, ServerDies, IInv, TypeOK, RoomToRead, Emptied, OutputComplete,
        buffers
<1> QED
  BY <1>1, <1>2, <1>3 DEF Server

LEMMA NextIInv == IInv /\ [Next]_vars => IInv'
<1> SUFFICES ASSUME IInv, [Next]_vars PROVE IInv'
  OBVIOUS
<1>1. CASE UNCHANGED vars
  BY <1>1
  DEF vars, buffers, server, IInv, TypeOK, CountsOK, Conserved, RoomToRead, EndsInOrder,
      Emptied, OutputComplete
<1> QED
  BY <1>1, SelectIInv, StdinIInv, SockReadIInv, SockEofIInv, StdoutIInv, SendIInv,
     OtherIInv, ServerIInv DEF Next, Loop

-----------------------------------------------------------------------------
\* The four pointers stay in order and inside their buffers of MAXLINE bytes.
THEOREM TypeCorrect == Spec => []TypeOK
<1>1. IInv => TypeOK
  BY DEF IInv
<1> QED
  BY InitIInv, NextIInv, <1>1, PTL DEF Spec

\* shutdown comes after the last byte of the input has been written.
THEOREM ShutdownAfterAll == Spec => []ShutdownLast
<1>1. IInv => ShutdownLast
  BY DEF IInv, EndsInOrder, ShutdownLast
<1> QED
  BY InitIInv, NextIInv, <1>1, PTL DEF Spec

\* A client that returns after its server closed has printed every byte of its
\* input, or, onto a nonblocking output, all but less than one buffer; one that
\* returns after its server died has at least read its input to the end.
THEOREM OutputIsComplete == Spec => []OutputComplete
<1>1. IInv => OutputComplete
  BY DEF IInv
<1> QED
  BY InitIInv, NextIInv, <1>1, PTL DEF Spec
=============================================================================
