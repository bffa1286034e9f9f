----------------------------- MODULE AcceptPool -----------------------------
(***************************************************************************)
(* The pre-forked and pre-threaded servers of unit30_design_paradigm whose *)
(* workers all call accept on one listening socket:                        *)
(*   "fork"          prepararoty_fork_serv.c, no lock around accept        *)
(*   "fork_fcntl"    process_lock_accpet.c with lock_fcntl.c               *)
(*   "fork_pthread"  process_lock_accpet.c with lock_pthread.c             *)
(*   "threads"       pthread_pool1, one mutex                              *)
(* The four programs differ only in the lock and in what a worker is, so   *)
(* they are one module: the variable server never changes.                 *)
(*                                                                         *)
(* lock_pthread.c:15 calls pthread_mutexattr_setprioceiling where          *)
(* setpshared is meant, so its mutex is private to each process: the memory*)
(* is shared, so the lock excludes, but an unlock wakes nobody in another  *)
(* process.  Faults (SIGINT, a killed worker, fork or accept failing)      *)
(* happen once each at most.                                               *)
(***************************************************************************)
EXTENDS Integers, Sequences, FiniteSets, Functions

CONSTANTS nchildren, Conns, None,
          Servers,      \* the programs to look at
          Faults        \* the faults that may happen

AllServers == {"fork", "fork_fcntl", "fork_pthread", "threads"}
AllFaults  == {"sigint", "crash", "fork", "accept"}

ASSUME ChildrenAssumption == nchildren \in Nat \ {0}
ASSUME ConnsAssumption    == None \notin Conns
ASSUME KindsAssumption    == Servers \subseteq AllServers /\ Faults \subseteq AllFaults

Workers == 1 .. nchildren
Nobody  == 0

VARIABLES
    server,     \* which program this is
    main,       \* where main is, or how it ended
    n,          \* workers made so far
    wpc,        \* where each worker is
    owner,      \* who holds the lock, or Nobody
    termed,     \* processes with a SIGTERM under way
    connfd,     \* the connection worker k holds, or None
    count,      \* cptr[k], thread_count
    backlog, arrived, served,   \* connections, as in DescriptorPassing
    faults      \* faults that have happened

conns == <<connfd, backlog, arrived, served>>
vars  == <<server, main, n, wpc, owner, termed, count, conns, faults>>

Locked == server # "fork"
Alive  == {k \in Workers : wpc[k] \notin {"none", "dead"}}
Asleep == {k \in Workers : wpc[k] = "asleep"}

\* Mutant: my_lock_wait is not called.
FirstAccept == "accept"

First == IF Locked THEN "lock" ELSE "accept"

Init ==
    /\ server \in Servers
    /\ main = "make" /\ n = 0
    /\ wpc = [k \in Workers |-> "none"]
    /\ owner = Nobody /\ termed = {}
    /\ connfd = [k \in Workers |-> None]
    /\ count = [k \in Workers |-> 0]
    /\ backlog = <<>> /\ arrived = {} /\ served = {}
    /\ faults = {}

Fault(kind) ==
    /\ kind \in Faults \ faults
    /\ faults' = faults \cup {kind}

Arrive(c) ==
    /\ c \notin arrived
    /\ main \in {"make", "pause", "reap"} \/ Alive # {}
    /\ arrived' = arrived \cup {c}
    /\ backlog' = Append(backlog, c)
    /\ UNCHANGED <<server, main, n, wpc, owner, termed, count, connfd, served, faults>>

-----------------------------------------------------------------------------
(* main *)

\* Mutant: for (i = 0; i <= nchildren; i++).
AllMadeLate == n + 1 > nchildren

AllMade == n + 1 = nchildren

\* child_make, thread_make; after the last one signal(SIGINT, sig_int).
Make ==
    /\ main = "make"
    /\ n' = n + 1
    /\ wpc' = [wpc EXCEPT ![n + 1] = First]
    /\ main' = IF AllMade THEN "pause" ELSE "make"
    /\ UNCHANGED <<server, owner, termed, count, conns, faults>>

\* The process of the threaded server ends, and with it every thread.
EndThreads ==
    IF server = "threads"
      THEN /\ wpc' = [k \in Workers |-> IF k <= n THEN "dead" ELSE wpc[k]]
           /\ connfd' = [k \in Workers |-> None]
      ELSE UNCHANGED <<wpc, connfd>>

\* fork returns -1: child_make falls through and the parent itself becomes the
\* worker, in the loop of child_main for ever.
ForkFails ==
    /\ main = "make" /\ server # "threads" /\ Fault("fork")
    /\ main' = "worker"
    /\ n' = n + 1
    /\ wpc' = [wpc EXCEPT ![n + 1] = First]
    /\ UNCHANGED <<server, owner, termed, count, conns>>

\* Pthread_create fails: err_sys ends the process.
CreateFails ==
    /\ main = "make" /\ server = "threads" /\ Fault("fork")
    /\ main' = "killed"
    /\ EndThreads
    /\ UNCHANGED <<server, n, owner, termed, count, backlog, arrived, served>>

\* Mutant: the loop over pids stops one short.
KillAllButOne == termed' = 1 .. n - 1

\* sig_int: SIGTERM to every child.
Kill == termed' = 1 .. n

\* SIGINT once the handler is installed.  (The handler of the threaded server
\* is not part of this program.)
SigInt ==
    /\ main = "pause" /\ server # "threads" /\ Fault("sigint")
    /\ Kill
    /\ main' = "reap"
    /\ UNCHANGED <<server, n, wpc, owner, count, conns>>

\* SIGINT while workers are still being made kills the parent alone.
SigIntEarly ==
    /\ main = "make" /\ Fault("sigint")
    /\ main' = "killed"
    /\ EndThreads
    /\ UNCHANGED <<server, n, owner, termed, count, backlog, arrived, served>>

\* while (wait(NULL) > 0), the ECHILD check, pr_cpu_time and exit.
Reap ==
    /\ main = "reap"
    /\ Alive = {}
    /\ main' = "exited"
    /\ UNCHANGED <<server, n, wpc, owner, termed, count, conns, faults>>

-----------------------------------------------------------------------------
(* The lock *)

\* Whom a release wakes: every process blocked in F_SETLKW, one thread blocked
\* on the mutex, nobody when the mutex is private to another process.
WakeChoices ==
    CASE server = "fork_fcntl"   -> {Asleep}
      [] server = "threads"      -> IF Asleep = {} THEN {{}} ELSE {{k} : k \in Asleep}
      [] OTHER                   -> {{}}

\* Mutant: nobody is let in, or woken.
KeepLock(k, next) == wpc' = [wpc EXCEPT ![k] = next] /\ UNCHANGED owner

Release(k, next) ==
    /\ owner' = Nobody
    /\ \E W \in WakeChoices :
          wpc' = [j \in Workers |->
                    IF j = k THEN next ELSE IF j \in W THEN "lock" ELSE wpc[j]]

\* my_lock_wait, Pthread_mutex_lock
Lock(k) ==
    /\ wpc[k] = "lock"
    /\ IF owner = Nobody
         THEN owner' = k /\ wpc' = [wpc EXCEPT ![k] = "accept"]
         ELSE wpc' = [wpc EXCEPT ![k] = "asleep"] /\ UNCHANGED owner
    /\ UNCHANGED <<server, main, n, termed, count, conns, faults>>

\* my_lock_release, Pthread_mutex_unlock
Unlock(k) ==
    /\ wpc[k] = "unlock"
    /\ Release(k, "count")
    /\ UNCHANGED <<server, main, n, termed, count, conns, faults>>

-----------------------------------------------------------------------------
(* child_main, thread_main *)

Accept(k) ==
    /\ wpc[k] = "accept" /\ backlog # <<>>
    /\ connfd' = [connfd EXCEPT ![k] = Head(backlog)]
    /\ backlog' = Tail(backlog)
    /\ wpc' = [wpc EXCEPT ![k] = IF Locked THEN "unlock" ELSE "count"]
    /\ UNCHANGED <<server, main, n, owner, termed, count, arrived, served, faults>>

\* accept returns -1, the connection kept or lost: counted, "served" and closed
\* like a connection.
AcceptFails(k) ==
    /\ wpc[k] = "accept" /\ backlog # <<>>
    /\ Fault("accept")
    /\ backlog' \in {backlog, Tail(backlog)}
    /\ wpc' = [wpc EXCEPT ![k] = IF Locked THEN "unlock" ELSE "count"]
    /\ UNCHANGED <<server, main, n, owner, termed, count, connfd, arrived, served>>

Count(k) ==
    /\ wpc[k] = "count"
    /\ count' = [count EXCEPT ![k] = @ + 1]
    /\ wpc' = [wpc EXCEPT ![k] = "serve"]
    /\ UNCHANGED <<server, main, n, owner, termed, conns, faults>>

\* Mutant: the connection is not closed before the next accept.
KeepConn(k) == UNCHANGED connfd

CloseConn(k) == connfd' = [connfd EXCEPT ![k] = None]

\* web_child(connfd); close(connfd)
Serve(k) ==
    /\ wpc[k] = "serve"
    /\ served' = served \cup ({connfd[k]} \ {None})
    /\ CloseConn(k)
    /\ wpc' = [wpc EXCEPT ![k] = First]
    /\ UNCHANGED <<server, main, n, owner, termed, count, backlog, arrived, faults>>

\* A process dies: an fcntl lock is released with it, a mutex stays locked.
Die(k) ==
    /\ connfd' = [connfd EXCEPT ![k] = None]
    /\ IF server = "fork_fcntl" /\ owner = k
         THEN Release(k, "dead")
         ELSE wpc' = [wpc EXCEPT ![k] = "dead"] /\ UNCHANGED owner

\* SIGTERM arrives, wherever the child is.
Term(k) ==
    /\ k \in termed \cap Alive
    /\ Die(k)
    /\ UNCHANGED <<server, main, n, termed, count, backlog, arrived, served, faults>>

\* A worker process is killed, or the parent that became one by SIGINT.
Crash(k) ==
    /\ k \in Alive /\ server # "threads"
    /\ \/ Fault("crash")
       \/ main = "worker" /\ k = n /\ Fault("sigint")
    /\ Die(k)
    /\ UNCHANGED <<server, main, n, termed, count, backlog, arrived, served>>

Worker(k) == Lock(k) \/ Accept(k) \/ Unlock(k) \/ Count(k) \/ Serve(k)

Next ==
    \/ \E c \in Conns : Arrive(c)
    \/ Make \/ ForkFails \/ CreateFails \/ SigInt \/ SigIntEarly \/ Reap
    \/ \E k \in Workers : Worker(k) \/ AcceptFails(k) \/ Term(k) \/ Crash(k)

\* Processes that can run do; a signal sent arrives; web_child returns.
Spec ==
    /\ Init /\ [][Next]_vars
    /\ WF_vars(Make) /\ WF_vars(Reap)
    /\ \A k \in Workers : WF_vars(Worker(k)) /\ WF_vars(Term(k))

-----------------------------------------------------------------------------
(* Properties *)

WorkersTypeOK ==
    /\ wpc \in [Workers -> {"none", "lock", "asleep", "accept", "unlock", "count",
                            "serve", "dead"}]
    /\ owner \in Workers \cup {Nobody}
    /\ termed \subseteq Workers
    /\ count \in [Workers -> Nat]

MainTypeOK ==
    /\ server \in AllServers
    /\ main \in {"make", "pause", "reap", "exited", "worker", "killed"}
    /\ n \in 0 .. nchildren
    /\ main = "make" => n < nchildren
    /\ faults \subseteq AllFaults

ConnsTypeOK ==
    /\ connfd \in [Workers -> Conns \cup {None}]
    /\ backlog \in Seq(Conns)
    /\ arrived \subseteq Conns /\ served \subseteq Conns

\* The types of the state; while main is in its loop a worker is left to make.
TypeOK == WorkersTypeOK /\ MainTypeOK /\ ConnsTypeOK

\* With a lock of any kind at most one worker is between my_lock_wait and
\* my_lock_release, that is, in accept, and it is the one that took the lock:
\* also when processes die holding it and when no sleeper is ever woken.
OneAcceptor ==
    Locked => \A k \in Workers : wpc[k] \in {"accept", "unlock"} => owner = k

Waiting(c) == c \in Range(backlog)

\* A client never waits while a worker is left: with no lock, the fcntl lock or
\* threads, whatever dies; with the private mutex, as long as nothing dies.
NoWorkerNoService ==
    \A c \in Conns :
        Waiting(c) ~> \/ ~Waiting(c) \/ Alive = {}
                      \/ server = "fork_pthread" /\ faults \cap {"crash", "sigint"} # {}

\* SIGINT ends the server even if it finds workers asleep, in accept, serving or
\* already dead, once all of them have been made.
SigIntEnds == main = "reap" ~> main = "exited"

Service == INSTANCE ConnService WITH
    queue <- backlog,
    job <- connfd,
    past <- {c \in arrived : ~Waiting(c) /\ \A k \in Workers : connfd[k] # c}

\* Whatever the lock, and without one, clients are taken in arrival order, each
\* by one worker that has no other connection.
ImplementsService == Service!Spec
=============================================================================
