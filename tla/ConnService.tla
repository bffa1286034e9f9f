---------------------------- MODULE ConnService ----------------------------
(***************************************************************************)
(* What every pre-created-worker server of unit30_design_paradigm promises *)
(* to its clients, whatever the mechanism that hands a connection to a     *)
(* worker: connections are taken in the order they arrived, each by one    *)
(* worker, and a worker holds one connection at a time.  A worker may die  *)
(* with the connection it holds, an accept that fails may lose one, and a  *)
(* server that stops drops its queue.                                      *)
(***************************************************************************)
EXTENDS Naturals, Sequences

CONSTANTS Conns,     \* the connections clients open
          Workers,   \* the processes or threads that serve them
          None       \* no connection (not one of Conns)

VARIABLES queue,     \* connections that wait to be taken, oldest first
          job,       \* job[w]: the connection worker w holds, or None
          past       \* connections no longer waiting or held

vars == <<queue, job, past>>

Waiting == {queue[k] : k \in DOMAIN queue}
Held    == {job[w] : w \in Workers} \ {None}

Init ==
    /\ queue = <<>>
    /\ job = [w \in Workers |-> None]
    /\ past = {}

Arrive(c) ==
    /\ c \notin Waiting \cup Held \cup past
    /\ queue' = Append(queue, c)
    /\ UNCHANGED <<job, past>>

Start(w) ==
    /\ queue # <<>>
    /\ job[w] = None
    /\ job' = [job EXCEPT ![w] = Head(queue)]
    /\ queue' = Tail(queue)
    /\ UNCHANGED past

\* Connections end: one that has been served, or those of workers that die
\* together.
Finish(W) ==
    /\ past' = past \cup {job[w] : w \in W}
    /\ job' = [w \in Workers |-> IF w \in W THEN None ELSE job[w]]
    /\ UNCHANGED queue

\* accept takes a connection and returns an error.
Lose ==
    /\ queue # <<>>
    /\ past' = past \cup {Head(queue)}
    /\ queue' = Tail(queue)
    /\ UNCHANGED job

\* The server stops: the kernel resets what still waits; workers may go on.
Stop ==
    /\ queue # <<>>
    /\ past' = past \cup Waiting
    /\ queue' = <<>>
    /\ UNCHANGED job

Next ==
    \/ \E c \in Conns : Arrive(c)
    \/ \E w \in Workers : Start(w)
    \/ \E W \in SUBSET {w \in Workers : job[w] # None} : Finish(W)
    \/ Lose \/ Stop

Spec == Init /\ [][Next]_vars
=============================================================================
