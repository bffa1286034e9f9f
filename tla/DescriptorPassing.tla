-------------------------- MODULE DescriptorPassing --------------------------
(***************************************************************************)
(* The descriptor-passing server of unit30_design_paradigm: a parent that  *)
(* accepts every connection and sends its descriptor, over a stream pipe,  *)
(* to one of nchildren pre-forked children.  The child's end of the pipe   *)
(* is its standard error: the byte that reports "done" and any diagnostic  *)
(* the child prints travel in the same stream.                             *)
(*                                                                         *)
(* A parent step is the code between two kernel calls that another process *)
(* can observe; child steps interleave with them.  Faults are counted and  *)
(* bounded: a killed child, a child whose web_child fails in a wrapper     *)
(* (err_sys prints to stderr, then exits), and a failed accept.            *)
(***************************************************************************)
EXTENDS Integers, Sequences, FiniteSets, Functions

CONSTANTS nchildren,      \* children forked at start
          Conns,          \* connections clients open
          None,           \* no connection
          ErrText,        \* bytes of one diagnostic printed by a child
          MaxCrash, MaxError, MaxAcceptFail   \* bounds on the faults

ASSUME ChildrenAssumption == nchildren \in Nat \ {0}
ASSUME ConnsAssumption    == None \notin Conns
ASSUME ErrTextAssumption  == ErrText \in Nat
ASSUME BoundsAssumption   == MaxCrash \in Nat /\ MaxError \in Nat /\ MaxAcceptFail \in Nat

Children == 0 .. nchildren - 1
Listen   == nchildren         \* listenfd, where pipe i is named by its child i

VARIABLES
    \* the parent
    ppc,            \* where the parent is, or how it ended
    rset,           \* what select reported ready
    nsel,           \* ready descriptors not yet handled
    navail,         \* children believed available
    i,              \* the loop index of the scan over the pipes
    connfd,         \* the connection accepted and not yet closed, or None
    child_status,   \* cptr[i].child_status
    child_count,    \* cptr[i].child_count
    \* the kernel
    backlog,        \* connections that wait for accept
    down,           \* down[i]: descriptors in flight from the parent to i
    up,             \* up[i]: bytes child i wrote and the parent has not read
    reset,          \* reset[i]: pipe closed under unread data (ECONNRESET)
    \* the children
    cpc,            \* where child i is
    serving,        \* the connection child i holds, or None
    \* bookkeeping
    arrived,        \* connections opened by clients so far
    served,         \* connections web_child has finished with
    faults          \* faults so far, by kind

parent   == <<ppc, rset, nsel, navail, i, connfd, child_status, child_count>>
children == <<cpc, serving, served>>
vars     == <<parent, backlog, down, up, reset, children, arrived, faults>>

Ended == {"no_child", "child_died", "sigpipe"}

ParentUp == ppc \notin Ended

\* Mutant: the child does not close its copy of its own pipe's parent end.
OwnEndKept(k) == ~ParentUp /\ \A j \in Children : j >= k => cpc[j] = "dead"

\* child_make: a later child keeps its copy of the parent's end of every
\* earlier pipe, so that end closes only with the parent and all of them.
ParentEndClosed(k) == ~ParentUp /\ \A j \in Children : j > k => cpc[j] = "dead"

Init ==
    /\ ppc = "select" /\ rset = {} /\ nsel = 0 /\ i = 0 /\ connfd = None
    /\ navail = nchildren
    /\ child_status = [k \in Children |-> 0]
    /\ child_count  = [k \in Children |-> 0]
    /\ backlog = <<>>
    /\ down = [k \in Children |-> <<>>]
    /\ up = [k \in Children |-> 0]
    /\ reset = [k \in Children |-> FALSE]
    /\ cpc = [k \in Children |-> "recv"]
    /\ serving = [k \in Children |-> None]
    /\ arrived = {} /\ served = {}
    /\ faults = [crash |-> 0, error |-> 0, accept |-> 0]

\* A client completes a connection; the listening socket is gone with the parent.
Arrive(c) ==
    /\ ParentUp
    /\ c \notin arrived
    /\ arrived' = arrived \cup {c}
    /\ backlog' = Append(backlog, c)
    /\ UNCHANGED <<parent, down, up, reset, children, faults>>

-----------------------------------------------------------------------------
(* The parent *)

\* The parent is gone: its descriptors close and the backlog is reset.
End(how) ==
    /\ ppc' = how
    /\ connfd' = None
    /\ backlog' = <<>>

\* Mutants: the listening socket is watched whatever navail says; FD_ZERO where
\* FD_CLR is meant.
AlwaysWatched  == Children \cup {Listen}
WatchedNothing == IF navail <= 0 THEN {} ELSE Children \cup {Listen}

\* With no child available the listening descriptor is left out.
Watched == Children \cup (IF navail <= 0 THEN {} ELSE {Listen})

Readable ==
    {k \in Children : up[k] > 0 \/ reset[k] \/ cpc[k] = "dead"}
      \cup (IF backlog # <<>> THEN {Listen} ELSE {})

Select ==
    /\ ppc = "select"
    /\ rset' = Watched \cap Readable
    /\ rset' # {}
    /\ nsel' = Cardinality(rset')
    /\ i' = 0
    /\ ppc' = IF Listen \in rset' THEN "accept" ELSE "scan"
    /\ UNCHANGED <<navail, connfd, child_status, child_count, backlog, down, up,
                   reset, children, arrived, faults>>

\* Mutant: any child will do.
AnyChild == Children

Idle == {k \in Children : child_status[k] = 0}

\* Mutant: a forgotten navail--.
OccupyKeepsNavail(k) ==
    /\ child_status' = [child_status EXCEPT ![k] = 1]
    /\ child_count' = [child_count EXCEPT ![k] = @ + 1]
    /\ UNCHANGED navail

Occupy(k) ==
    /\ child_status' = [child_status EXCEPT ![k] = 1]
    /\ child_count' = [child_count EXCEPT ![k] = @ + 1]
    /\ navail' = navail - 1

\* Mutant: the connection is accepted and never passed on.
SendForgotten(k) ==
    /\ connfd' = Head(backlog)
    /\ backlog' = Tail(backlog)
    /\ UNCHANGED down

Send(k) ==
    /\ connfd' = Head(backlog)
    /\ backlog' = Tail(backlog)
    /\ down' = [down EXCEPT ![k] = Append(@, Head(backlog))]

\* accept, the first idle child, write_fd to it: writing to the pipe of a dead
\* child raises SIGPIPE, which the parent does not handle.
Dispatch(k) ==
    /\ ppc = "accept" /\ backlog # <<>>
    /\ k \in Idle /\ \A j \in Idle : k <= j
    /\ Occupy(k)
    /\ IF cpc[k] = "dead"
         THEN End("sigpipe") /\ UNCHANGED down
         ELSE ppc' = "close" /\ Send(k)
    /\ UNCHANGED <<rset, nsel, i, up, reset, children, arrived, faults>>

\* accept fails (no free descriptor; or, with a connection that was aborted or
\* the addrlen that myunp.c:623 never sets, one that is lost): nothing looks at
\* connfd = -1, the child is marked busy, and write_fd fails unchecked.
AcceptFails(k) ==
    /\ ppc = "accept"
    /\ faults.accept < MaxAcceptFail
    /\ faults' = [faults EXCEPT !.accept = @ + 1]
    /\ k \in Idle /\ \A j \in Idle : k <= j
    /\ Occupy(k)
    /\ ppc' = "close"
    /\ \/ UNCHANGED backlog
       \/ backlog # <<>> /\ backlog' = Tail(backlog)
    /\ UNCHANGED <<rset, nsel, i, connfd, down, up, reset, children, arrived>>

\* err_quit("no available children")
NoneAvailable ==
    /\ ppc = "accept"
    /\ Idle = {}
    /\ End("no_child")
    /\ UNCHANGED <<rset, nsel, navail, i, child_status, child_count, down, up,
                   reset, children, arrived, faults>>

\* Mutant: the parent keeps its copy of connfd.
KeepCopy == UNCHANGED connfd

CloseCopy == connfd' = None

\* close(connfd), and the early way back to select.
CloseConn ==
    /\ ppc = "close"
    /\ CloseCopy
    /\ nsel' = nsel - 1
    /\ ppc' = IF nsel - 1 = 0 THEN "select" ELSE "scan"
    /\ UNCHANGED <<rset, navail, i, child_status, child_count, backlog, down, up,
                   reset, children, arrived, faults>>

\* Mutant: a forgotten navail++.
ReleaseKeepsNavail(k) ==
    /\ child_status' = [child_status EXCEPT ![k] = 0]
    /\ UNCHANGED navail

Release(k) ==
    /\ child_status' = [child_status EXCEPT ![k] = 0]
    /\ navail' = navail + 1

\* read returns 0: the child is dead and nothing is left in the pipe.
ReadsEof(k) == up[k] = 0 /\ ~reset[k]

\* One turn of the loop over the pipes: a byte, or the error of a pipe closed
\* under unread data, frees the child; end of file is fatal.
Skip ==
    /\ ppc = "scan" /\ i \in Children \ rset
    /\ i' = i + 1
    /\ ppc' = IF i + 1 = nchildren THEN "select" ELSE "scan"
    /\ UNCHANGED <<rset, nsel, navail, connfd, child_status, child_count, backlog,
                   down, up, reset, children, arrived, faults>>

ReadByte ==
    /\ ppc = "scan" /\ i \in Children \cap rset
    /\ ~ReadsEof(i)
    /\ Release(i)
    /\ up' = [up EXCEPT ![i] = IF @ > 0 THEN @ - 1 ELSE @]
    /\ reset' = [reset EXCEPT ![i] = IF up[i] > 0 THEN @ ELSE FALSE]
    /\ i' = i + 1
    /\ nsel' = nsel - 1
    /\ ppc' = IF nsel - 1 = 0 \/ i + 1 = nchildren THEN "select" ELSE "scan"
    /\ UNCHANGED <<rset, connfd, child_count, backlog, down, children, arrived,
                   faults>>

\* err_quit("child %d terminated unexpectedly")
ChildTerminated ==
    /\ ppc = "scan" /\ i \in Children \cap rset
    /\ ReadsEof(i)
    /\ End("child_died")
    /\ UNCHANGED <<rset, nsel, navail, i, child_status, child_count, down, up,
                   reset, children, arrived, faults>>

Parent ==
    \/ Select \/ CloseConn \/ Skip \/ ReadByte
    \/ NoneAvailable \/ ChildTerminated
    \/ \E k \in Children : Dispatch(k) \/ AcceptFails(k)

-----------------------------------------------------------------------------
(* The children *)

\* A child is gone: what it holds closes, a descriptor in flight to it is
\* discarded and turns the parent's next read into an error.
Die(k) ==
    /\ cpc' = [cpc EXCEPT ![k] = "dead"]
    /\ serving' = [serving EXCEPT ![k] = None]
    /\ reset' = [reset EXCEPT ![k] = down[k] # <<>>]
    /\ down' = [down EXCEPT ![k] = <<>>]

Receive(k) ==
    /\ cpc[k] = "recv" /\ down[k] # <<>>
    /\ serving' = [serving EXCEPT ![k] = Head(down[k])]
    /\ down' = [down EXCEPT ![k] = Tail(@)]
    /\ cpc' = [cpc EXCEPT ![k] = "serve"]
    /\ UNCHANGED <<parent, backlog, up, reset, served, arrived, faults>>

\* read_fd returns 0: nobody holds the other end.
Orphaned(k) ==
    /\ cpc[k] = "recv" /\ down[k] = <<>>
    /\ ParentEndClosed(k) /\ up[k] = 0
    /\ Die(k)
    /\ UNCHANGED <<parent, backlog, up, served, arrived, faults>>

\* The other end closed with bytes unread: read_fd returns -1 and leaves connfd
\* as it was, a descriptor already closed or, the first time, anything.
OrphanReset(k) ==
    /\ cpc[k] = "recv" /\ down[k] = <<>>
    /\ ParentEndClosed(k) /\ up[k] > 0
    /\ \/ Die(k)
       \/ /\ cpc' = [cpc EXCEPT ![k] = "serve"]
          /\ UNCHANGED <<serving, down, reset>>
    /\ UNCHANGED <<parent, backlog, up, served, arrived, faults>>

\* web_child(connfd); close(connfd)
Serve(k) ==
    /\ cpc[k] = "serve"
    /\ served' = served \cup ({serving[k]} \ {None})
    /\ serving' = [serving EXCEPT ![k] = None]
    /\ cpc' = [cpc EXCEPT ![k] = "notify"]
    /\ UNCHANGED <<parent, backlog, down, up, reset, arrived, faults>>

\* Write(STDERR_FILENO, "", 1), by SIGPIPE the end of an orphan.
Notify(k) ==
    /\ cpc[k] = "notify"
    /\ IF ParentEndClosed(k)
         THEN Die(k) /\ UNCHANGED up
         ELSE /\ up' = [up EXCEPT ![k] = @ + 1]
              /\ cpc' = [cpc EXCEPT ![k] = "recv"]
              /\ UNCHANGED <<serving, down, reset>>
    /\ UNCHANGED <<parent, backlog, served, arrived, faults>>

\* A wrapper called by web_child fails: err_sys prints on stderr, then exits.
Error(k) ==
    /\ cpc[k] = "serve"
    /\ faults.error < MaxError
    /\ faults' = [faults EXCEPT !.error = @ + 1]
    /\ up' = [up EXCEPT ![k] = @ + ErrText]
    /\ cpc' = [cpc EXCEPT ![k] = "exit"]
    /\ UNCHANGED <<parent, backlog, down, reset, serving, served, arrived>>

Exit(k) ==
    /\ cpc[k] = "exit"
    /\ Die(k)
    /\ UNCHANGED <<parent, backlog, up, served, arrived, faults>>

\* The child is killed anywhere.
Crash(k) ==
    /\ cpc[k] # "dead"
    /\ faults.crash < MaxCrash
    /\ faults' = [faults EXCEPT !.crash = @ + 1]
    /\ Die(k)
    /\ UNCHANGED <<parent, backlog, up, served, arrived>>

Child(k) ==
    Receive(k) \/ Orphaned(k) \/ OrphanReset(k) \/ Serve(k) \/ Notify(k) \/ Exit(k)

Next ==
    \/ \E c \in Conns : Arrive(c)
    \/ Parent
    \/ \E k \in Children : Child(k) \/ Error(k) \/ Crash(k)

\* Every process that can run eventually runs, and web_child returns.
Spec ==
    /\ Init /\ [][Next]_vars
    /\ WF_vars(Parent)
    /\ \A k \in Children : WF_vars(Child(k))

-----------------------------------------------------------------------------
(* Properties *)

Elems(q) == Range(q)

ParentTypeOK ==
    /\ ppc \in {"select", "accept", "close", "scan"} \cup Ended
    /\ rset \subseteq Children \cup {Listen}
    /\ nsel \in Int /\ navail \in Int /\ i \in 0 .. nchildren
    /\ connfd \in Conns \cup {None}
    /\ child_status \in [Children -> {0, 1}]
    /\ child_count \in [Children -> Nat]

PipesTypeOK ==
    /\ down \in [Children -> Seq(Conns)]
    /\ up \in [Children -> Nat]
    /\ reset \in [Children -> BOOLEAN]

ChildrenTypeOK ==
    /\ cpc \in [Children -> {"recv", "serve", "notify", "exit", "dead"}]
    /\ serving \in [Children -> Conns \cup {None}]
    /\ served \subseteq Conns

EnvTypeOK ==
    /\ backlog \in Seq(Conns)
    /\ arrived \subseteq Conns
    /\ faults \in [crash : Nat, error : Nat, accept : Nat]

\* The types of the state.
TypeOK == ParentTypeOK /\ PipesTypeOK /\ ChildrenTypeOK /\ EnvTypeOK

Held(k)   == IF cpc[k] \in {"serve", "notify", "exit"} THEN 1 ELSE 0
Failed(k) == IF reset[k] THEN 1 ELSE 0

\* What is under way with child k: a descriptor on its way, a connection being
\* served, a byte or an error its parent has not read.
Tokens(k) == Len(down[k]) + Held(k) + up[k] + Failed(k)

NoDiagnostic == faults.error = 0 \/ ErrText = 0

TokensBounded == \A k \in Children : Tokens(k) <= child_status[k]

NavailCounts == navail = Cardinality(Idle)

\* What select is told and whom a connection is given never go wrong, whatever
\* children die and whatever accepts fail: a child marked available has nothing
\* under way and a busy one has one thing at most, so a byte on a pipe always
\* means that one connection is done; and navail counts the available ones.
\* (It takes children that print nothing: their standard error is the pipe.)
AvailabilityOK == NoDiagnostic /\ ParentUp => TokensBounded /\ NavailCounts

\* The assertion err_quit("no available children") of the parent.
NoChildNever == ppc # "no_child"

\* That assertion is never reached unless a child prints a diagnostic.
NoChildWithoutDiagnostic == NoDiagnostic => NoChildNever

Open(c) ==
    \/ c \in Elems(backlog) \cup {connfd}
    \/ \E k \in Children : c = serving[k] \/ c \in Elems(down[k])

NoFault == faults.crash + faults.error + faults.accept = 0

\* A connection closes only after web_child is done with it, as long as no
\* process dies and accept works: the parent's close(connfd) never takes the
\* client's last descriptor away.
ClosedAfterServed ==
    NoFault => \A c \in arrived : ~Open(c) => c \in served

\* Without faults every client is served, however many wait for few children.
EveryClientServed == \A c \in Conns : c \in arrived ~> c \in served \/ ~NoFault

\* Each accept that fails leaves a child marked busy that has nothing to report.
AllForgotten == \A k \in Children : child_status[k] = 1 /\ Tokens(k) = 0

\* Whatever fails, no client is left with a connection that stays open: it is
\* served, or closed with the process that held it; unless as many accepts failed
\* as there are children, after which the listening descriptor is not watched.
EveryConnectionCloses == \A c \in Conns : c \in arrived ~> ~Open(c) \/ AllForgotten

\* The parent notices that a child died and stops, even if the child dies with
\* a descriptor in flight, with bytes unread, or when no child is available.
DeathDetected == (\E k \in Children : cpc[k] = "dead") ~> ~ParentUp

\* When the parent is gone every child leaves, although the later children
\* still hold the parent's ends of the earlier pipes.
OrphansLeave == ~ParentUp ~> \A k \in Children : cpc[k] = "dead"

\* The connection child k answers for, from write_fd to the child's close.
Job(k) ==
    IF serving[k] = None /\ down[k] # <<>> THEN Head(down[k]) ELSE serving[k]

Service == INSTANCE ConnService WITH
    Workers <- Children,
    queue <- backlog,
    job <- [k \in Children |-> Job(k)],
    past <- {c \in arrived : c \notin Elems(backlog)
                             /\ \A k \in Children : c # Job(k)}

\* The server keeps the promise of ConnService: arrival order, one connection
\* at a time and one owner, across accept, write_fd, read_fd and close, also when
\* children die and accept fails, until a child prints a diagnostic.
ImplementsService ==
    Service!Init /\ [][NoDiagnostic' => [Service!Next]_(Service!vars)]_vars
=============================================================================
