----------------------------- MODULE WebClients -----------------------------
(***************************************************************************)
(* The web clients of unit26_thread and unit16_not_block_io: main fetches  *)
(* the files of file[], at most maxnconn at a time.                        *)
(*   "webcli02"  one thread per file; a thread announces itself under      *)
(*               ndone_mutex through ndone and ndone_cond, and main then   *)
(*               joins it by name                                          *)
(*   "webcli01"  one thread per file; main waits with thr_join for any     *)
(*   "parallel_web"  no threads: main connects and selects (its sockets    *)
(*               block, F_GETFL stands where F_SETFL is meant, so that no  *)
(*               file is ever F_CONNECTING)                                *)
(* Only the loops that start and collect differ (variable prog).           *)
(*                                                                         *)
(* tcp_connect ends in "if (res = NULL)" (myunp.c:587), so a refusal is    *)
(* never noticed: it returns a descriptor that is already closed, and that *)
(* the next socket of another thread may get.                              *)
(***************************************************************************)
EXTENDS Integers, FiniteSets

CONSTANTS nfiles, maxnconn,     \* argc - 4 (in parallel_web 20 at least), argv[1]
          MaxSpurious,          \* bound on the spurious wake-ups
          Progs,                \* the clients to look at
          Answers               \* what a server may answer

ASSUME SizesAssumption   == nfiles \in 1 .. 20 /\ maxnconn \in Nat \ {0}
ASSUME SpuriousAssumption == MaxSpurious \in Nat
ASSUME AnswersAssumption == /\ Progs \subseteq {"webcli01", "webcli02", "parallel_web"}
                            /\ Answers \subseteq {"data", "empty", "refused"}

Files == 1 .. nfiles
Fds   == 1 .. nfiles
Free  == 0
Main  == nfiles + 1

VARIABLES
    prog,                   \* which client this is
    pc,                     \* where main is, or how the process ended
    i,                      \* main's index into file[], in its second loop
    rs,                     \* parallel_web: the files select found readable
    tpc,                    \* where the thread of each file is
    f_flags,                \* file[f].f_flags
    fd,                     \* file[f].f_fd, or Free
    sock,                   \* the file whose socket a descriptor is, or Free
    refused,                \* tcp_connect was refused and did not tell
    nconn, nlefttoconn, nlefttoread, ndone,
    mutex,                  \* the holder of ndone_mutex: Free, Main or a file
    spurious                \* wake-ups without a signal so far

sockets == <<fd, sock, refused>>
thread == <<tpc, f_flags, sockets>>
counts == <<nconn, nlefttoconn, nlefttoread>>
vars   == <<prog, pc, i, rs, thread, counts, ndone, mutex, spurious>>

Ended == {"exit", "nothing_found", "refused", "writen_error", "undefined"}
Up    == pc \notin Ended

Init ==
    /\ prog \in Progs
    /\ pc = "home" /\ i = 1 /\ rs = {}
    /\ tpc = [f \in Files |-> "none"]
    /\ f_flags = [f \in Files |-> "0"]
    /\ fd = [f \in Files |-> Free] /\ sock = [d \in Fds |-> Free]
    /\ refused = FALSE
    /\ nconn = 0 /\ nlefttoconn = nfiles /\ nlefttoread = nfiles
    /\ ndone = 0 /\ mutex = Free /\ spurious = 0

-----------------------------------------------------------------------------
(* main *)

\* home_page, alone: tcp_connect, a request, read to the end, close.  After a
\* refusal Writen fails on the closed descriptor.
HomePage ==
    /\ pc = "home"
    /\ pc' \in {"fill"} \cup (IF "refused" \in Answers THEN {"writen_error"} ELSE {})
    /\ UNCHANGED <<prog, rs, i, thread, counts, ndone, mutex, spurious>>

\* Mutant: a loop that goes on with nothing left.
MayStartOnNconn == nconn < maxnconn

MayStart == nconn < maxnconn /\ nlefttoconn > 0

\* The kernel gives the lowest free descriptor.
NextFd == CHOOSE d \in Fds : sock[d] = Free /\ \A e \in 1 .. d - 1 : sock[e] # Free

Opened(f) ==
    /\ fd' = [fd EXCEPT ![f] = NextFd]
    /\ sock' = [sock EXCEPT ![NextFd] = f]
    /\ UNCHANGED refused

Close(f) ==
    /\ sock' = [sock EXCEPT ![fd[f]] = Free]
    /\ UNCHANGED <<fd, refused>>

Unstarted == {f \in Files : f_flags[f] = "0"}

\* Pthread_create for the first file with no flag, and the counters.
StartThread(f) ==
    /\ f_flags' = [f_flags EXCEPT ![f] = "CONNECTING"]
    /\ tpc' = [tpc EXCEPT ![f] = "connect"]
    /\ nconn' = nconn + 1
    /\ nlefttoconn' = nlefttoconn - 1
    /\ UNCHANGED <<pc, sockets>>

\* start_connect waits for the server; then write_get_cmd, and the counters.  A
\* server that refuses ends the program.
StartConnect(f) ==
    \/ /\ f_flags' = [f_flags EXCEPT ![f] = "READING"]
       /\ tpc' = [tpc EXCEPT ![f] = "main"]
       /\ Opened(f)
       /\ nconn' = nconn + 1
       /\ nlefttoconn' = nlefttoconn - 1
       /\ UNCHANGED pc
    \/ /\ "refused" \in Answers
       /\ pc' = "refused"
       /\ UNCHANGED <<f_flags, tpc, sockets, nconn, nlefttoconn>>

\* Without one: err_quit("nlefttoconn = %d but nothing found").
Start ==
    /\ pc = "fill" /\ MayStart
    /\ IF Unstarted = {}
         THEN pc' = "nothing_found" /\ UNCHANGED <<thread, nconn, nlefttoconn>>
         ELSE LET f == CHOOSE g \in Unstarted : \A h \in Unstarted : g <= h
              IN  IF prog = "parallel_web" THEN StartConnect(f) ELSE StartThread(f)
    /\ UNCHANGED <<prog, rs, i, nlefttoread, ndone, mutex, spurious>>

Filled ==
    /\ pc = "fill" /\ ~MayStart
    /\ pc' = CASE prog = "webcli01" -> "thr_join"
              [] prog = "webcli02" -> "lock"
              [] OTHER             -> "select"
    /\ UNCHANGED <<prog, rs, i, thread, counts, ndone, mutex, spurious>>

\* Pthread_mutex_lock, also on the way out of pthread_cond_wait.
MainLock ==
    /\ pc = "lock" /\ mutex = Free
    /\ mutex' = Main
    /\ pc' = "check"
    /\ UNCHANGED <<prog, rs, i, thread, counts, ndone, spurious>>

\* Mutant: no test of ndone before waiting.
AlwaysWait == TRUE

MustWait == ndone = 0

\* while (ndone == 0) Pthread_cond_wait: asleep and the mutex free in one step.
Check ==
    /\ pc = "check"
    /\ IF MustWait THEN pc' = "wait" /\ mutex' = Free /\ UNCHANGED i
                   ELSE pc' = "collect" /\ i' = 1 /\ UNCHANGED mutex
    /\ UNCHANGED <<prog, rs, thread, counts, ndone, spurious>>

\* pthread_cond_wait may return without a signal.
SpuriousWakeup ==
    /\ pc = "wait"
    /\ spurious < MaxSpurious
    /\ spurious' = spurious + 1
    /\ pc' = "lock"
    /\ UNCHANGED <<prog, rs, i, thread, counts, ndone, mutex>>

Collected == i' = i + 1

\* Mutant: main closes f_fd once more.
JoinCloses ==
    /\ pc = "collect" /\ i \in Files
    /\ f_flags[i] = "DONE" /\ tpc[i] = "ended"
    /\ f_flags' = [f_flags EXCEPT ![i] = "JOINED"]
    /\ tpc' = [tpc EXCEPT ![i] = "joined"]
    /\ Close(i)
    /\ ndone' = ndone - 1
    /\ nconn' = nconn - 1
    /\ nlefttoread' = nlefttoread - 1
    /\ Collected
    /\ UNCHANGED <<prog, rs, pc, nlefttoconn, mutex, spurious>>

\* One turn of the loop over file[] with the mutex held; Pthread_join waits for
\* the end of the thread.
Join ==
    /\ pc = "collect" /\ i \in Files
    /\ f_flags[i] = "DONE" /\ tpc[i] = "ended"
    /\ f_flags' = [f_flags EXCEPT ![i] = "JOINED"]
    /\ tpc' = [tpc EXCEPT ![i] = "joined"]
    /\ ndone' = ndone - 1
    /\ nconn' = nconn - 1
    /\ nlefttoread' = nlefttoread - 1
    /\ Collected
    /\ UNCHANGED <<prog, rs, pc, sockets, nlefttoconn, mutex, spurious>>

NotDone ==
    /\ pc = "collect" /\ i \in Files /\ f_flags[i] # "DONE"
    /\ Collected
    /\ UNCHANGED <<prog, rs, pc, thread, counts, ndone, mutex, spurious>>

\* The outer loop of the threaded clients ends with nlefttoconn.
Again == IF nlefttoconn > 0 THEN "fill" ELSE "exit"

MainUnlock ==
    /\ pc = "collect" /\ i \notin Files
    /\ mutex' = Free
    /\ pc' = Again
    /\ UNCHANGED <<prog, rs, i, thread, counts, ndone, spurious>>

\* thr_join(0, &tid, &fptr); a thread that fell off its end leaves fptr
\* indeterminate: the printf may crash or print something.
ThrJoin(f) ==
    /\ pc = "thr_join" /\ tpc[f] \in {"ended", "fell_off"}
    /\ tpc' = [tpc EXCEPT ![f] = "joined"]
    /\ nconn' = nconn - 1
    /\ nlefttoread' = nlefttoread - 1
    /\ \/ pc' = Again
       \/ /\ tpc[f] = "fell_off"
          /\ pc' = "undefined"
    /\ UNCHANGED <<prog, rs, i, f_flags, sockets, nlefttoconn, ndone, mutex, spurious>>

-----------------------------------------------------------------------------
(* The rest of main in parallel_web *)

Reading == {f \in Files : f_flags[f] = "READING"}

\* select: some of the servers have sent data or closed.
Select ==
    /\ pc = "select"
    /\ \E S \in SUBSET Reading \ {{}} : rs' = S
    /\ i' = 1
    /\ pc' = "scan"
    /\ UNCHANGED <<prog, thread, counts, ndone, mutex, spurious>>

\* Data, or an error, leaves the file as it is: a server sends once at most here.
ReadMore ==
    /\ pc = "scan" /\ i \in rs
    /\ tpc[i] = "main" /\ "data" \in Answers
    /\ tpc' = [tpc EXCEPT ![i] = "main_more"]
    /\ i' = i + 1
    /\ UNCHANGED <<prog, rs, pc, f_flags, sockets, counts, ndone, mutex, spurious>>

\* End of file: the connection is closed and the file done.
ReadEof ==
    /\ pc = "scan" /\ i \in rs
    /\ Close(i)
    /\ f_flags' = [f_flags EXCEPT ![i] = "DONE"]
    /\ tpc' = [tpc EXCEPT ![i] = "joined"]
    /\ nconn' = nconn - 1
    /\ nlefttoread' = nlefttoread - 1
    /\ i' = i + 1
    /\ UNCHANGED <<prog, rs, pc, nlefttoconn, ndone, mutex, spurious>>

NotReady ==
    /\ pc = "scan" /\ i \in Files \ rs
    /\ i' = i + 1
    /\ UNCHANGED <<prog, rs, pc, thread, counts, ndone, mutex, spurious>>

MoreToRead == nlefttoread > 0

Scanned ==
    /\ pc = "scan" /\ i \notin Files
    /\ pc' = IF MoreToRead THEN "fill" ELSE "exit"
    /\ UNCHANGED <<prog, rs, i, thread, counts, ndone, mutex, spurious>>

-----------------------------------------------------------------------------
(* do_get_read *)

\* tcp_connect.
Connect(f) ==
    /\ Up /\ tpc[f] = "connect"
    /\ \/ Opened(f)
       \/ /\ "refused" \in Answers
          /\ fd' = [fd EXCEPT ![f] = NextFd]
          /\ refused' = TRUE
          /\ UNCHANGED sock
    /\ tpc' = [tpc EXCEPT ![f] = "write"]
    /\ UNCHANGED <<prog, rs, pc, i, f_flags, counts, ndone, mutex, spurious>>

\* write_get_cmd, on whatever connection the descriptor is by now: Writen ends the
\* process if it is none.  The flag changes without the mutex.
Write(f) ==
    /\ Up /\ tpc[f] = "write"
    /\ IF sock[fd[f]] = Free
         THEN pc' = "writen_error" /\ UNCHANGED <<f_flags, tpc>>
         ELSE /\ f_flags' = [f_flags EXCEPT ![f] = "READING"]
              /\ tpc' = [tpc EXCEPT ![f] = "read"]
              /\ UNCHANGED pc
    /\ UNCHANGED <<prog, rs, i, sockets, counts, ndone, mutex, spurious>>

\* Data comes, or read fails (because the descriptor is closed).
DataOrError(f) == "data" \in Answers \/ sock[fd[f]] = Free

\* Mutant: webcli02 sets F_DONE before it takes the mutex.
MarksDoneEarly == TRUE

\* webcli01 sets F_DONE at once, webcli02 when it has the mutex.
MarksDone == prog # "webcli02"

\* The first read: data or an error, which is not told apart, ends the fetch.
Read(f) ==
    /\ Up /\ tpc[f] = "read" /\ DataOrError(f)
    /\ Close(f)
    /\ IF MarksDone THEN f_flags' = [f_flags EXCEPT ![f] = "DONE"] ELSE UNCHANGED f_flags
    /\ tpc' = [tpc EXCEPT ![f] = IF prog = "webcli02" THEN "lock" ELSE "ended"]
    /\ UNCHANGED <<prog, rs, pc, i, counts, ndone, mutex, spurious>>

\* The first read returns 0: the thread leaves the loop and falls off the end of
\* do_get_read, its socket open, its flag READING, nothing announced.
ReadNothing(f) ==
    /\ Up /\ tpc[f] = "read" /\ "empty" \in Answers /\ sock[fd[f]] # Free
    /\ tpc' = [tpc EXCEPT ![f] = "fell_off"]
    /\ UNCHANGED <<prog, rs, pc, i, f_flags, sockets, counts, ndone, mutex, spurious>>

\* Under the mutex: F_DONE, ndone++, Pthread_cond_signal.
Announce(f) ==
    /\ Up /\ tpc[f] = "lock" /\ mutex = Free
    /\ mutex' = f
    /\ f_flags' = [f_flags EXCEPT ![f] = "DONE"]
    /\ ndone' = ndone + 1
    /\ pc' = IF pc = "wait" THEN "lock" ELSE pc
    /\ tpc' = [tpc EXCEPT ![f] = "unlock"]
    /\ UNCHANGED <<prog, rs, i, sockets, counts, spurious>>

Unlock(f) ==
    /\ Up /\ tpc[f] = "unlock"
    /\ mutex' = Free
    /\ tpc' = [tpc EXCEPT ![f] = "ended"]
    /\ UNCHANGED <<prog, rs, pc, i, f_flags, sockets, counts, ndone, spurious>>

MainStep ==
    \/ \E f \in Files : ThrJoin(f)
    \/ HomePage \/ Start \/ Filled \/ MainLock \/ Check \/ Join \/ NotDone \/ MainUnlock
    \/ Select \/ ReadMore \/ ReadEof \/ NotReady \/ Scanned

Thread(f) ==
    Connect(f) \/ Write(f) \/ Read(f) \/ ReadNothing(f) \/ Announce(f) \/ Unlock(f)

Next == MainStep \/ SpuriousWakeup \/ \E f \in Files : Thread(f)

\* Threads are scheduled and servers answer; spurious wake-ups need not happen.
Spec ==
    /\ Init /\ [][Next]_vars
    /\ WF_vars(MainStep)
    /\ \A f \in Files : WF_vars(Thread(f))

-----------------------------------------------------------------------------
(* Properties *)

\* The types of the state: the counters of main never leave their ranges, and never
\* more than maxnconn connections are open.
TypeOK ==
    /\ prog \in {"webcli01", "webcli02", "parallel_web"}
    /\ pc \in {"home", "fill", "lock", "check", "wait", "collect", "thr_join", "select", "scan"}
              \cup Ended
    /\ i \in 1 .. nfiles + 1 /\ rs \subseteq Files
    /\ tpc \in [Files -> {"none", "connect", "write", "read", "lock", "unlock",
                          "ended", "fell_off", "joined", "main", "main_more"}]
    /\ f_flags \in [Files -> {"0", "CONNECTING", "READING", "DONE", "JOINED"}]
    /\ fd \in [Files -> Fds \cup {Free}] /\ sock \in [Fds -> Files \cup {Free}]
    /\ refused \in BOOLEAN
    /\ nconn \in 0 .. maxnconn
    /\ nlefttoconn \in 0 .. nfiles /\ nlefttoread \in 0 .. nfiles
    /\ ndone \in 0 .. nfiles
    /\ mutex \in {Free, Main} \cup Files
    /\ spurious \in Nat

Unjoined == {f \in Files : tpc[f] \notin {"none", "joined"}}

\* Files whose thread has announced itself and that main has not joined.
Announced == {f \in Files : f_flags[f] = "DONE"}

\* main joins a thread while it holds ndone_mutex: a thread that main finds
\* DONE has released the mutex and will not ask for it again, or both hang.
JoinNeverBlocks ==
    pc = "collect" /\ i \in Files /\ f_flags[i] = "DONE" => tpc[i] = "ended"

\* A thread that takes its next step without main, given its turn or an answer.
CanMove(f) ==
    \/ tpc[f] \in {"connect", "write", "read", "unlock"}
    \/ tpc[f] = "lock" /\ mutex = Free

MainBlocked ==
    \/ pc = "lock" /\ mutex # Free
    \/ pc = "wait"
    \/ pc = "thr_join" /\ \A f \in Files : tpc[f] \notin {"ended", "fell_off"}
    \/ pc = "select" /\ Reading = {}

\* No wake-up is lost and nobody waits for nobody: while main is blocked some thread
\* can go on without it, unless every one it has not collected fell off the end of
\* do_get_read, and Pthread_join does not block.
NobodyStuck ==
    /\ JoinNeverBlocks
    /\ MainBlocked => \/ \E f \in Files : CanMove(f)
                      \/ Unjoined # {} /\ \A f \in Unjoined : tpc[f] = "fell_off"

\* The four counters agree with the fetches, whoever changes them: nconn with those
\* under way, nlefttoconn with those not begun, nlefttoread with both, and ndone with
\* the threads that wait to be joined.  So the assertion err_quit("nlefttoconn = %d
\* but nothing found") is not reached; that the loops of the threaded clients test
\* nlefttoconn cuts off fewer fetches than may run at once, and parallel_web, which
\* tests nlefttoread, none.
CountsAgree ==
    /\ TypeOK
    /\ nconn = Cardinality(Unjoined)
    /\ nlefttoconn = Cardinality(Unstarted)
    /\ nlefttoread = nlefttoconn + nconn
    /\ ndone = IF prog = "webcli02" THEN Cardinality(Announced) ELSE 0
    /\ pc # "nothing_found"
    /\ pc = "exit" => nlefttoread < IF prog = "parallel_web" THEN 1 ELSE maxnconn

\* A thread talks on the connection it opened, although descriptors are closed and
\* given out again by all threads at once: only tcp_connect, by returning a
\* closed one, lets two of them share a connection.
OwnConnection ==
    ~refused => \A f \in Files : tpc[f] \in {"write", "read", "main", "main_more"} =>
                    sock[fd[f]] = f

\* No wake-up is lost and no file forgotten: main ends, unless every thread it has
\* not collected fell off the end of do_get_read.
Terminates ==
    <>[](~Up \/ (Unjoined # {} /\ \A f \in Unjoined : tpc[f] = "fell_off"))
=============================================================================
