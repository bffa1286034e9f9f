# A verification project for `my_unp_study`

The repository holds about eighty small C programs written while working through *UNIX Network
Programming*: clients and servers for TCP and UDP, each showing one way to wait for several
things at once (select, nonblocking sockets, threads, signals, pre-forked processes, descriptor
passing). There are no tests. What is hard in it is concurrency: processes that share a
listening socket, handlers that interrupt loops, buffers that are full, peers that die.

The TLA+ modules here model ten of these subsystems from their source. TLC checks small
instances; TLAPS proves every invariant that holds, and two refinements, for every value of the
constants.

    cd tla
    tlc -config DescriptorPassing.cfg MCDescriptorPassing   # one of the runs below
    tlapm DescriptorPassing_proof.tla                       # one of the proof modules

`PROJECT.json` lists the components, the runs, one mutant of the code per property, the source
lines behind every definition, findings, hazards and theorems.

## 1. Inventory

Paths are relative to `src/`. "Hard" names what no test would reach.

| component | state | operations | interacts through | hard |
|---|---|---|---|---|
| descriptor-passing server, `unit30_design_paradigm/descriptor_passing` | `cptr[]` (status, count), `navail`, `nsel`, `connfd`; one stream pipe per child | select, accept, `write_fd`, close, scan of the pipes; `read_fd`, `web_child`, report | descriptors sent over a pipe; the child's report byte on the same pipe, which is also its standard error | deaths with a descriptor in flight, diagnostics read as reports, failed accept, orphans behind inherited pipe ends |
| pre-forked servers, locks, thread pool, `unit30_design_paradigm/prepararoty_fork_serv*`, `pthread_pool1` | `pids[]`, counters, the lock | make workers, lock, accept, unlock, serve, SIGINT/SIGTERM/wait | one listening socket, one lock | a holder that dies, a lock that wakes nobody, fork failing, shutdown meeting sleepers |
| web clients, `unit26_thread/webcli01.c`, `webcli02.c`, `unit16_not_block_io/parallel_web.c` | `file[]` flags and descriptors, `nconn`, `nlefttoconn`, `nlefttoread`, `ndone` | start, read, announce, join, select | `ndone_mutex`, `ndone_cond`, descriptor numbers of one process | lost wake-ups, join under a mutex, threads that fall off their end, descriptors used again |
| select echo server and clients, `unit6_select_and_pool` | `client[]`, `allset`, `maxi`, `maxfd`, `nready` | accept, read, echo, close; half-close | blocking TCP connections | stale `rset`, slots used again, accept failing unseen, both sides blocked in write, resets |
| fork-per-connection echo, `unit5_echoserver`, `unit8_baseudpp/tcp_and_udpselectserver.c`, `unit15_unix_domain_protocol/unixstr*.c` | the process table, open descriptors, `read_buf` of `my_read` | accept, fork, close, `str_echo`, SIGCHLD; `str_cli`, `readline` | connections, one child each; datagrams in the same loop | zombies that use up the process table, `fork` = -1, a buffer behind select, a wrong loop test |
| nonblocking client, `unit16_not_block_io/strclinonb.c` | two buffers with two pointers each, `stdineof` | read, write, shutdown | a blocking echo server | partial writes, full buffers, when to half-close |
| signal-driven UDP server, `unit25_signal_driver_io/dgecho_signal.c` | ring `dg[]`, `iget`, `iput`, `nqueue` | `dg_echo`, `sig_io` | SIGIO and its mask | a handler on top of the loop, lost signals, overflow |
| UDP clients, `unit22_advanced_udp_programing`, `unit8_baseudpp/udpcli01.c`, `unit14_advanced_io/SO_RCV_ggclitimeout.c`, `unit20_broadcast` | `rttinfo`, `sendhdr`, `recvhdr`, `pipefd` | send, retransmit, receive, give up; alarms | datagrams | loss, delay, late replies, timers that outlive a call |
| heartbeat, `unit24_out_of_data/heartbeat*.c` | `nprobes` on both sides | `sig_urg`, `sig_alrm`, the echo loops | urgent data, SIGURG, SIGALRM | nested handlers, torn `++nprobes`, silent peers |
| out-of-band samples, `unit24_out_of_data/tcpsend01.c`, `tcpserv01.c`, `tcpserv_select.c` | `justreadoob`, the kernel's urgent mark | send, `MSG_OOB`, read, `sig_urg`, select | one connection | marks announced early, replaced, or read too soon |
| wrappers, `myunp.c`, `unpthread.c` | none but `my_read`'s buffer | one call each | used by all | a few do not check what they mean to check |
| the rest | | | | see section 7 |

What makes each of them correct:

- **Descriptor passing**: every client is served, in arrival order, by one child; the parent's
  view of its children agrees with what they do; every death is noticed; nobody stays behind.
- **Accept pool**: one worker in accept under a lock; service as long as a worker is left;
  SIGINT ends everything.
- **Web clients**: counters agree with the fetches, threads use their own connection, main ends.
- **Select server**: its four tables describe the same connections; the only process never
  blocks in `read`; the half-close loses nothing.
- **Forking servers**: a client in step with its echoes, no service refused without a cause,
  and no datagram kept waiting by a connection.
- **Nonblocking client**: all input is sent before shutdown, all output is printed, and it ends.
- **SIGIO server**: the counter is changed by one side at a time; no signal is lost; no datagram is
  overwritten (which the code gets wrong).
- **UDP clients**: calls return, timeouts stay in bounds, and a wrong answer has a cause.
- **Heartbeat**: a live peer is not given up, a dead one is.
- **Out-of-band**: every byte is printed once, as what it is, or there is a reason why not.

## 2. Modules

| module | models | checked in | proved in |
|---|---|---|---|
| `ConnService` | abstract: what any server with pre-created workers promises (arrival order, one owner, one connection per worker) | implemented by the next two | |
| `DescriptorPassing` | `descriptor_passing_serv.c`, `descriptor_passing_child.c`, `write_fd`, `read_fd`, `err_doit` | `MCDescriptorPassing` | `DescriptorPassing_proof` |
| `AcceptPool` | `prepararoty_fork_serv.c`, `process_lock_accpet.c` with either lock, `pthread_pool1` | `MCAcceptPool` | `AcceptPool_proof` |
| `WebClients` | `webcli01.c`, `webcli02.c`, `parallel_web.c`, `tcp_connect` | `MCWebClients` | `WebClients_proof` |
| `EchoSelect` | `tcpserverselect01.c`, `strcliselect02.c`, the early return of `strcliselect01.c` | `MCEchoSelect` | `EchoSelect_proof` |
| `ForkEcho` | the servers `unit5_echoserver/tcpserv01.c`, `tcp_and_udpselectserver.c`, `unixstrserv.c`; the clients `tcpcli01.c`, `unixstrcli.c`, `strcliselect01.c`; `readline` and `my_read` | `MCForkEcho` | `ForkEcho_proof` |
| `SigioQueue` | `dgecho_signal.c` | `MCSigioQueue` | `Udp_proof` |
| `StrCliNonb` | `strclinonb.c` against `str_echo` of `unit5_echoserver/tcpserv01.c` | itself | `StrCliNonb_proof` |
| `DgSendRecv` | `rtt_udp_cli.c`, `dg_send_recv.c`, `unprtt.c` | through `DgClients` | `Udp_proof` |
| `DgClients` | extends it by `udpcli01.c`, `SO_RCV_ggclitimeout.c`, `dgclicast1.c`, `dgclibcast6.c` | itself | `Udp_proof` |
| `HeartBeat` | `heartbeatcli.c`, `heartbeatserv.c` | `MCHeartBeat` | `UrgentData_proof` |
| `OutOfBand` | `tcpsend01.c`, `unit24_out_of_data/tcpserv01.c`, `tcpserv_select.c` | `MCOutOfBand` | `UrgentData_proof` |

State and actions follow the code by name: a C variable is a TLA+ variable of that name, a
program counter (`pc`, `ppc`, `cpc[k]`, ...) says where a process is, and an action is the code
between two kernel calls that another process, thread or handler could notice. Definitions
whose comment starts with "Mutant" are the deliberate bugs that show each property can fail;
no specification uses them.

**DescriptorPassing.** `down[k]` and `up[k]` are the two directions of the pipe of child k:
connections in flight, and bytes to be read. `Dispatch` is accept, the search for an idle child,
the bookkeeping and `write_fd`; `CloseConn` the close and the early way back; `Skip`, `ReadByte`
and `ChildTerminated` the turns of the scan. `Receive`, `Serve`, `Notify` are the child's loop;
`Error` is a wrapper failing inside `web_child`, whose message goes down the pipe. A pipe closed
under unread data gives one ECONNRESET (`reset`) before end of file. `ParentEndClosed` knows that
child j inherits the parent's ends of the pipes of all earlier children.

**AcceptPool.** The variable `server` picks one of four programs. `WakeChoices` is where the locks
differ: an fcntl lock wakes all sleepers, a mutex one thread, and the mutex of `lock_pthread.c`
(which is never made PROCESS_SHARED, `lock_pthread.c:15`) nobody in another process. `Die`
releases an fcntl lock and nothing else. `ForkFails` turns the parent into a worker.

**WebClients.** The variable `prog` picks the client. `tpc[f]` is the thread of file f, `sock[d]` the
owner of descriptor d: `tcp_connect` (`myunp.c:587`) does not notice a refusal and returns a
closed descriptor, which the next `socket` call may hand to another thread.

**EchoSelect.** A byte stream is a count. Connections hold `Cap` bytes each way, so reads are
partial and writes block. A client that leaves may cause a reset, at the next write or later.
Delivery is at once, but what a client has sent and the server not read when it dies is lost: the
server's FIN then may come first (`Echo`, its set `fin`) or a reset. `AcceptFails` is the accept nobody
checks: -1 goes into a slot that stays free, `maxi` and `nready` move on, and `FD_SET(-1)` sets the bit
`NegBit`, 63 in sets of 64-bit words. While that is no open descriptor and at most `maxfd`, select fails
(`BadBit`, `SelectFails`): `rset` is left as it was, so the loop calls accept, connection or not.

**ForkEcho.** The variable `server` picks the accept loop, `Selects(c)` the client. Here streams are
sequences of bytes and newlines, because `readline` looks for one: `buf[c]` is what `my_read` holds
behind the last line. `strcliselect01` sends `sizeof(sendline)` bytes for each line, so that the ends of
older lines travel behind it (`Written`). `Procs` counts the children alive or not waited for,
against `NPROC`; `kept` the connections the parent never closes, against `NFILE`. `AcceptFails` is a failing
accept: it ends `tcpserv01` with its queue unserved (`NeverAccepted`), makes `tcp_and_udpselectserver` fork a
child without a connection (`ForkIdle`), and changes nothing in `unixstrserv`. Two of the servers have a
handler for SIGCHLD and reap (`HasSigChld`). The child of `unixstrserv` echoes once and then spins
(`"spin"`): `errno = EINTR` is an assignment.

**SigioQueue.** `Blocked` says where SIGIO is masked; a blocked SIGIO is one pending bit. `Setup` is three steps:
from FIOASYNC (`:44`) to SIG_BLOCK (`:52`) the handler may interrupt it, and before FIONBIO (`:45`) its
`recvfrom` waits for one more datagram (`Blocks`). `Test` is `while (nqueue = 0)`, an assignment that never
suspends.

**StrCliNonb.** Each part of the loop is a step, with select's sets as they were computed. Every read and write
may come short (`UpTo`), so that input is read behind bytes that are not sent yet. `shared`
tells whether standard output became nonblocking with standard input (`:17` passes F_GETFL).

**DgSendRecv, DgClients.** The request carries `recvhdr`, the reply lands in `sendhdr`: the headers
are swapped in the code, so that the number in a datagram says nothing. `rtt_stop` leaves any value its
clamp allows in `rtt_rto`. A datagram is the number of the call whose line it echoes, 0 for one
from elsewhere; strays (`Stray`) and doubled datagrams (`Duplicate`) reach all five programs. `DgClients` adds the clients without numbers: they take the first datagram
(`RecvFrom`), wait for a time (`TimedOut`), or read until an alarm (`RecvfromAlarm`, `Break`).

**HeartBeat.** `stack[p]` holds the running handlers of side p. `Tick` is one second of both clocks.
`urg` is the kernel's one urgent byte, which may be announced before it arrives and pushed into
the data by a newer one.

**OutOfBand.** `mark` and `urgdata` are the urgent pointer of Linux and the state of its byte (coming,
valid, read). `Segment` brings any part of what was sent and may announce a later mark with it.

## 3. Runs and what they show

| run | instance | states | shows |
|---|---|---|---|
| `descriptor_passing` | 2 children, 3 clients, one crash, one diagnostic of 3 bytes, two failed accepts | 134,871 | service in order, bookkeeping, refinement, the end of all processes |
| `passing_no_child` | 2 children, 4 clients, one diagnostic | violation | the parent's assertion fails with the other child alive (finding 1) |
| `accept_pool` | 4 programs, 3 workers, 2 clients, each fault once | 196,776 | exclusion, service, SIGINT, refinement |
| `web_clients` | 3 programs, 4 files, 2 at a time | 34,027 | nobody stuck, counters, own connections, the end |
| `echo_select` | 3 clients (one leaves early, one has nothing to send), up to 4 bytes, reads and connections of 1 byte, one failed accept, `NegBit` = 5 | 831,677 | tables, no blocking read, echo complete, only two ways to hang |
| `fork_echo` | 3 servers, 2 clients (one selects), 2 lines, 1 datagram, 2 processes, one kill, one failed accept | 602,484 | in step, causes of a premature end, everybody ends, datagrams answered |
| `sigio_queue` | 4 datagrams, 3 slots | 136,787 | indices, no lost signal, every datagram answered or accounted for |
| `sigio_overflow` | the same | violation | overwritten datagrams (finding 2) |
| `str_cli_nonb` | 7 bytes, buffers of 3, connection of 2, short reads and writes | 129,356 | shutdown last, output complete, ends |
| `heart_beat` | limit of 2 seconds, 1 line, 2 faults of one kind or of slow and torn together | 336,043 | no false alarm, dead peer noticed |
| `dg_clients` | 5 programs, 3 calls, 1 retransmission, timeouts of 2 and 3, one stray or doubled datagram | 157,834 | timeouts, wrong answers, calls return |
| `out_of_band` | the calls of `tcpsend01` and one more: 10 bytes, the 4th, 5th and 8th urgent; 2 receivers | 21,550 | every byte accounted for, no blocking read |

Some properties need a word.

- `AvailabilityOK` relates the parent's flags to what is under way on each pipe. It and
  `ImplementsService` stop at the first diagnostic, because after it they are false: that is
  finding 1. `ClosedAfterServed` and `EveryClientServed` are about runs without faults
  (`NoFault`): a child that is killed takes its connection along. `DeathDetected` and `OrphansLeave`
  hold with all of them. `EveryConnectionCloses` has one exception, which the run reaches: a failed
  accept leaves a child marked busy for ever, and after as many failures as children (`AllForgotten`)
  the listening descriptor is watched no more, so what is queued stays open.
- `OneAcceptor` holds for the private mutex too, since its memory is shared: what is lost is the
  wake-up, and `NoWorkerNoService` says how far that matters (not at all until somebody dies).
- `Terminates` of `WebClients` excepts threads that fell off the end of `do_get_read`: main then
  waits for ever for an announcement that does not come. `NobodyStuck` is the safety behind it: while
  main is blocked some thread can go on without it, or all it has not collected fell off.
- `OwnConnection` is about threads whose `tcp_connect` was not refused. After a refusal two threads may share a
  descriptor (`myunp.c:587`), which the model does and the property does not judge.
- `EchoComplete` asks for all of the echo while the server lives. When it has died (of an EPIPE that another
  client caused), `strcliselect02` may take the end of file for the answer to its half-close
  (`:34`) and return without a word; then exactly what the server had not read is missing. `OutputComplete`
  of `StrCliNonb` is silent about the output in that case (`:63`).
- `AllFinish` of `EchoSelect` excepts two states by name. `Deadlocked`: server and client blocked in
  writes to each other, the known weakness of blocking sockets. `Stranded`: behind a select that fails
  because of the bit of a failed accept, the server waits in accept for one more client, and serves nobody.
  `OnlyWritesMeet` is the safety behind
  it: as long as a client has not ended, the server's next call or one of a client returns, in
  any other state, and the second exists only after a failed accept. `CanMove`, `ServerMoves` and `ClientMoves` say when a call returns, without ENABLED.
- `AllFinish` of `ForkEcho` excepts two. `WaitsForItself`: select said that the socket is readable,
  and `readline` waits for the newline of a line that the client has yet to read from its input,
  because the bytes behind the last line came in a piece of their own. `Abandoned`: the child of
  `unixstrserv` has echoed once and spins, or the connection got none. So neither of these two is
  checked to be harmless: both are hazards without a property.
- `PrematureHasCause` knows three causes: `fork` failed for the client, its child was killed, or a failing accept
  ended `tcpserv01` before it was accepted.
- `EveryDatagramAnswered` excepts what the code leaves open: a datagram that came before FIOASYNC and no
  other behind it, one that is overwritten (finding 2) or that the overflow stop meets, and a handler that was
  entered before FIONBIO and waits in `recvfrom`.
- `OutOfStepBounded` bounds the damage of the swapped headers: without a timeout, a stray or a doubled datagram every
  answer is right, and an alarm ends the call it was set for. `CallReturns` excepts `udpcli01`,
  which waits for a lost reply for ever, and `dgclicast1`, whose `recvfrom` is restarted after
  the alarm that is meant to interrupt it.
- `Accounted` names the four causes for which an urgent byte is not printed as one. The fourth is
  about `tcpserv_select` alone: a byte right behind another urgent one is stepped over, because
  `justreadoob` is reset only by the read of an ordinary byte, and there is none between them.
  `tcpsend01` does not send two in a row, but the receiver does not know that.

`CHECK_DEADLOCK FALSE` everywhere: clients stop coming and programs end, so that the model may
stop; that processes do not hang is stated by the liveness properties instead.

### Bounds

- Children, workers: two or three are enough for a first, a middle and a last in every scan and
  in the chain of inherited pipe ends; more clients than children, so that the listening
  descriptor is left out of select.
- `ErrText = 3` stands for any diagnostic of more than one byte. Faults are counted per kind; any
  order and place of them is explored.
- Four files and two connections: a slot becomes free while others run and one file is left.
- `Input` is what the server, both directions of the connection and one write of the client hold together, or
  more, so that every queue gets full. In `str_cli_nonb` a buffer of 3 and a connection of 2 leave a rest in the
  buffer behind each full write, behind which more is read.
- `NegBit = 5` stands for 63: it is the number of the second of three descriptors, so that it is out of range,
  in range without a connection, and the number of a connection, as clients come and go.
- `MaxAcceptFail = 2` of `descriptor_passing` is the number of children: all of them can be forgotten.
- `NPROC = 2`: the parent and one child, so that with two clients the limit is reached. `NFILE = 2` is not
  reached with two clients: a failing accept for want of a descriptor is `AcceptFails`, in `unixstrserv` a
  loop that changes nothing. `Lines = 2`: the second line carries the end of the first.
- `QSIZE = 3` of 8, with more datagrams than slots. `MaxProbes = 2` of 5: at 2 the difference between
  one too early and one too late shows. `RXTMIN`..`RXTMAX` of 2..3 instead of 2..60,
  `MAXNREXMT = 1` of 3: a retransmission, then the end.
- `out_of_band` adds one urgent byte to the calls of `tcpsend01`, right behind its first, so that two marks
  are adjacent.
- The three calls of `dg_clients` let a late reply answer the next call and the one behind it.
- `MaxFails`, `MaxKill`, `MaxStrays`, `Datagrams`, `MaxSpurious`, `MaxSlow`, `MaxAhead`, `MaxTorn`, `MaxCrash`,
  `MaxError`, `MaxAcceptFail`, `MaxFaults` and `Mixes` bound the faults of the environment and nothing of the
  programs.

### Fairness

Weak fairness of each process or thread: the operating system schedules it, and `web_child`,
servers and datagrams in flight take finite time. In `DgClients` and `ForkEcho` the timers that are
set go off and the input comes until it ends; in `EchoSelect` likewise. Nothing is assumed of
clients that arrive, faults, lost datagrams, spurious wake-ups. Two strong assumptions: an
unblocked pending SIGIO is delivered although the main loop blocks and unblocks it for ever
(`SF_sigiovars(Handler)`), which is what the kernel does at each unblocking; and a terminal takes output
now and then when a nonblocking `write` may be refused in between (`SF_vars(Stdout)`). In
`HeartBeat` time passes (`WF_vars(Tick)`). `OutOfBand` states safety only and no fairness.

## 4. Findings

Two runs refute what the code asserts of itself:

1. `descriptor_passing_serv.c:52`: `err_quit("no available children")` is reached. The pipe is the
   child's standard error, so each byte of a message is taken for "done".
2. `dgecho_signal.c:54`: `while (nqueue = 0)` forgets what is queued; the overflow check at `:77` then lets
   unsent datagrams be overwritten. It also makes the loop spin.

Met while reading, and part of the models:

- `dg_send_recv.c:32`, `:41`: the headers are swapped. Replies are not told apart, and the round-trip
  time at `:70` is measured from the start of the program, for `recvhdr` is never written.
- `dgclicast1.c:41`: the loop ends on EINTR, but `signal` asks for system calls to be restarted.
  `dgclibcast6.c:23`: `sizeof(pservaddr)` is the size of a pointer, and `sendto` fails.
- `strcliselect01.c:44`: `sizeof(sendline)` sends the whole array behind each line; `:33`: `readline`
  reads ahead of select.
- `unixstrserv.c:26`: `errno = EINTR` takes every failure of accept for an interruption, also in the
  child, which has closed `listenfd` and never leaves the loop.
- `unit5_echoserver/tcpserv01.c`: nobody waits for the children, and `fork` = -1 passes for the
  parent, which closes the connection.
- `tcpserverselect01.c:31`: accept is not checked.
- `tcpserv_select.c:31`, `:43`: while `justreadoob` is set, the mark of an urgent byte that comes next
  is not looked at; right behind another one it is never printed.
- `myunp.c:587` (`res = NULL`), `myunp.c:623` (the length is never stored), `lock_pthread.c:15`
  (`setprioceiling` for `setpshared`), `strclinonb.c:17` and `parallel_web.c:54` (F_GETFL for F_SETFL).

Some files do not compile or link as they are (`Frok`, `sizoef`, `tcp_Listen`,
`rtt_d_flag`/`rtt_d_falg`, `res->family`): they are modelled as what is evidently meant there.

## 5. What is proved

For every value of the constants, from the named assumptions of the modules only (at least one
child, `None` not a connection, finite sets of clients, sizes and bounds that are natural numbers):

| theorem | module | says |
|---|---|---|
| `TypeCorrect` | `DescriptorPassing_proof` | `Spec => []TypeOK` (no run checks it) |
| `Availability` | | `Spec => []AvailabilityOK` |
| `NoChildUnreachable` | | `Spec => []NoChildWithoutDiagnostic` (no run checks this one) |
| `PassingImplementsService` | | `Spec => ImplementsService`, the refinement of `ConnService` |
| `NotClosedTooSoon` | | `Spec => []ClosedAfterServed` |
| `TypeCorrect`, `MutualExclusion` | `AcceptPool_proof` | `TypeOK`, `OneAcceptor` |
| `PoolImplementsService` | | `Spec => ImplementsService`, the refinement of `ConnService` |
| `JoinDoesNotBlock`, `CountersAgree`, `OwnConnections` | `WebClients_proof` | `JoinNeverBlocks` (a part of `NobodyStuck`), `CountsAgree`, `OwnConnection` |
| `SomebodyMoves` | | `NobodyStuck` |
| `TablesAlwaysAgree`, `NeverBlocksInRead`, `EchoIsComplete` | `EchoSelect_proof` | `TablesAgree`, `ReadNeverBlocks`, `EchoComplete` |
| `NoOtherHang` | | `OnlyWritesMeet` |
| `PrematureOnlyWithCause`, `OneLineAtATime` | `ForkEcho_proof` | `PrematureHasCause`, `InStep` |
| `TypeCorrect`, `Exclusive`, `SignalNotLost` | `Udp_proof` | `SigioTypeOK`, `NqueueExclusive` (no run checks it), `NoLostSignal` |
| `TypeCorrect`, `ShutdownAfterAll`, `OutputIsComplete` | `StrCliNonb_proof` | `TypeOK`, `ShutdownLast`, `OutputComplete` |
| `TimeoutClamped`, `OutOfStepIsBounded` | `Udp_proof` | `RtoClamped`, `OutOfStepBounded` |
| `HeartBeatTypes`, `FalseAlarms` | `UrgentData_proof` | `TypeOK`, `NoFalseAlarm` |
| `PromptHeartbeats` | | `PromptUnconfused`, for a limit of two or more |
| `BytesAccounted`, `SelectedReads` | | `Accounted`, `ReadNeverBlocks` of `OutOfBand` |

`Udp_proof` and `UrgentData_proof` extend two components each, which is why those have specifications of
their own name (`AllSpec` and `SigioSpec`, `Spec` and `OobSpec`).

*Descriptor passing.* `AvailabilityOK` by itself is not inductive: the parent accepts in one step
what select reported in an earlier one, and `navail > 0` must still be true then. The invariant
(`AvailInv`) adds that the parent at `accept` has an idle child; it holds because only `Select` leads
there, with `navail > 0`, and nothing frees or takes a child in between. The heart is a count: every
child has `Tokens(k) <= child_status[k]`, where a descriptor in flight, a connection in service, an
unread byte and a pending ECONNRESET are one token each. Every action of a child moves a token;
`Dispatch` makes one and sets the flag; `ReadByte` takes one and clears it; death can only lose
some. `NavailCounts` needs that the idle children are a finite set whose size changes by one, from
the library's theorems on cardinality. `NoChildUnreachable` follows: at `accept` an idle child exists
(no diagnostic so far), so the step to `no_child` cannot be taken; afterwards the state stays ended.

The refinement takes two facts more (`PlacesOK`): a child has its connection in its pipe while it
waits for one or in its hands, never both (`OneJob`), and a connection is in one place, once in the
queue or with one child (`OnePlace`). With the tokens they give that `Dispatch` finds a child without
a job, so it is the abstract assignment of the head of the queue; `Receive` moves the job inside the
mapping and is a stutter; `Serve` and deaths are the abstract end of a job. `NotClosedTooSoon` adds
that without faults nobody ends and no pipe select reported goes dry (`Calm`), and that the
descriptor the parent closes is with its child or was served (`HandedOver`).

*Accept pool.* `OneAcceptor` is inductive with the types: a step into the section sets `owner`, the
only step that clears it leaves the section, and a death that releases the lock takes its holder out.
The refinement rests on `OnePlace`, as above, and on workers that are not made yet having none
(`NotMade`), whichever of the four programs makes them.

*Web clients.* The counters are the sizes of sets of files (`Counts`), and the flags say where each
thread can be (`FlagsOK`). `JoinNeverBlocks` follows from `MutexOK`: a thread announces itself under the mutex, so
when main holds it, none it finds DONE still has it. `err_quit` and empty rounds are excluded by
`LoopsOK`. `OwnConnection` needs that `socket` finds a free number (a pigeonhole argument: fewer than
all threads hold one) and that the descriptor a thread knows is its own (`SocketsOK`). `NobodyStuck` takes
three facts more (`WaitInv`): who holds the mutex is about to release it (`Held`), main sleeps only while
nothing is announced, and every thread that ended announced itself (`Asleep`), and main starts to wait only with
a fetch under way (`UnderWay`). A lost wake-up would be a sleeping main with `ndone > 0`.

*Select server.* `FdsOK` says that a descriptor is one connection, `QueueOK` that a connection waits once and
before it has one; pigeonhole arguments then give accept its free descriptor, while a connection waits, and its
free slot in any case. `BytesOK` is
conservation: what is left, on its way, inside the server and printed is the input, or less for a
client that left. `EndsOK` is what the two ends know of each other: while it lives the server closes only behind the
client's FIN, with nothing unread; then a client that is done has everything, and one that is done with a dead server
all but what is still on its way there.
`LoopOK` is the loop: `nready` is the number of slots it will still stop at, each with a connection whose read
returns (`AllReady`), because only the loop itself takes bytes, resets or descriptors away, at its own slot; or select
has failed, `nready` is -1, and the turn ends behind accept. The bit of a failed accept is never in `rset` after a
select that succeeds, unless it is the number of a connection. That
select reports one descriptor for each such slot is a bijection between the slots and `rset`.
`OnlyWritesMeet` needs one fact more: a connection that was made waits for accept, has a descriptor or was
closed, and a write that blocks has bytes left (`Tracked`). A client that can do nothing has sent its FIN or filled
its connection, so select reports it or, when it is still queued, the listening descriptor (`Watched`,
`Listening`), and the server does not sleep there; if the server sleeps in a write, that client is not reading,
so it is blocked in its own.

*Forking servers.* A connection waits, is held by the parent, got a child, or fork failed for it
(`Tracked`), and a child ends because its client did or because it was killed (`ChildrenOK`).
The server that a failing accept ends takes nothing from its queue any more, so that what was there
stays `NeverAccepted`.
`InStep` needs the bytes themselves. `Flow(c)` is what the client has buffered, what is on its way to it
and what is on its way to the child, in this order. `Streams` says that for a client that waits it is
exactly one line, in whatever pieces, and for one that does not it is nothing: echoing moves bytes from one
part of `Flow` to the next and leaves the whole alone, which is associativity of concatenation. A killed
child cuts the flow; what it had not read then stays where it is, the client can only come to the end of
its input (`CutOff`), and that is why the property asks for complete output only of a client that
ended well. `Fresh` keeps a second connection or child from appearing for a client under way.

*SIGIO.* `nqueue` is wrong after every reset, so the bound of the ring does not follow from it in
the obvious way. The strengthening `CountsOK` relates `nread` to `nqueue` while the handler runs,
and bounds `nqueue` by where the main loop is, the set-up included, where the handler may already have filled
slots; then no index leaves its array, whatever was lost. `NoLostSignal` is
inductive with it: an arrival sets the pending bit, and the handler ends only on an empty socket.

*Nonblocking client.* Again conservation (`Conserved`), with the order of the ends (`EndsInOrder`): the FIN
comes behind an empty buffer, the server's behind an empty connection. `RoomToRead` says that a set
computed by select still tells the truth when the loop gets to it; `Emptied`, that a blocking
output is emptied in each turn.

*Heartbeat.* The limit is on `nprobes`, which both sides count up each second and `sig_urg` resets, each
in a handler that the other may interrupt. The invariant `Beats` accounts for every second: between two
live processes the client is about to send a probe (`Waits`), or one is on its way in some form
(`Tok`: in the stream, announced, a pending SIGURG, a `sig_urg` that runs), or `Missed`, the count as it will be
when the waiting alarm is done, is at most the number of late and torn heartbeats so far; on the side
of the server at most one more, since its alarm may go off before the probe of the same second. Each
action moves the token on, and only a fault loses it. `GivenUp` keeps what this gives at the step that
gives up. Without faults at most one heartbeat exists (`Single`, `InTime`), so no mark is replaced,
no `recv` comes too early, and nothing strays (`NoStray`). `PromptHeartbeats` asks for a limit of two or more: with
a limit of one the server gives up on a punctual client when its alarm wins the race. Both programs
use five (`heartbeatcli.c:29`, `heartbeatserv.c:42`). `Form` has the types, how the two handlers can nest
(`Stacks`, `Quiet`), and that nothing but a reset follows the end of a stream (`Fins`).

*Out-of-band.* `Marks` says where the one urgent pointer of the kernel can be: ahead of the read point while its byte
is to be read, ahead of what arrived while it is only announced, with every urgent byte in between
replaced. `Fetched` says that the signal of an unread byte is pending or its handler runs. `Selected` is what
`ReadNeverBlocks` needs: what select reported is still readable at the test of `rset` after `recv`, and
while `justreadoob` is set no ordinary byte was read since. Here the proof failed first, on two urgent
bytes in a row: the property as it then stood had three causes, and TLC, given such a sender, showed
the byte that `tcpserv_select` skips. The fourth cause and the instance of the run come from there.

*UDP clients.* `FlightBounded` counts: a call puts one datagram into the network and takes one out, and each
timeout or stray excuses one more. Before the first of them every datagram is of this call
(`InStep`). `RtoKept` says that a doubled timeout does not outlive its call, and `AlarmsOK` that an alarm,
or its byte in the pipe, does not either.

Only model-checked: everything about liveness, since fairness and ENABLED are outside the prover
(`EveryClientServed`, `DeathDetected`, `OrphansLeave`, `EveryConnectionCloses`, `NoWorkerNoService`, `SigIntEnds`, `Terminates`,
`AllFinish`, `DatagramsAnswered`, `EveryDatagramAnswered`, `DeadPeerNoticed`, `CallReturns`). Every invariant of a passing run has a theorem.

## 6. Plan

Done: the modules above, in the order of the table, with the abstract service and both its
refinements proved, and every invariant. What is left, in this order:

1. Safety behind the liveness of `ForkEcho`: that `AllFinish` has no other stuck states than those it
   names, as `OnlyWritesMeet` says of `EchoSelect`.
2. What of the service holds after a diagnostic (`DescriptorPassing`), as a weaker abstract module.
3. Datagrams of `tcp_and_udpselectserver.c` with their length.

## 7. Not modelled

- `unit26_thread/tcpserv01.c`: `doit` uses the freed pointer as its descriptor, so every connection
  ends in an error at once; the per-thread buffer of `unit26_thread/readline.c` is called by nobody.
- `unit14_advanced_io` but for `SO_RCV_ggclitimeout.c`, and `unit16_not_block_io/non_block_connect.c`: functions
  no program calls; `connect_nonb` returns -1 in the case it is for, `kqueue_str_cli.c` needs kqueue.
- `unit24_out_of_data/tcpserv_sockatmark.c` calls a `print` that does not exist and does not link.
- `unit28_original_socket`: `icmpd` quits whatever its arguments are, its client uses a datagram socket
  for a stream, `ping` asks for protocol 0 on a raw socket, which fails.
- `unit8_baseudpp/udpecho01.c` passes the address of a pointer and its size to `sendto` (`:26`), which
  fails for every datagram; `recvfromflags.c` is called by nobody.
- `unit15_unix_domain_protocol`: `mycat.c` and `openfile.c` are one descriptor handed over once by a
  child that has exited before it is read, `unixdgserv.c` a stateless echo loop.
- `unit1`, `unit2`, `unit7`, `unit11`, `unit13`, `unit17`, `public_files`: sequential utilities.
- Inside the modelled parts: the heartbeat's set-up between accept and F_SETOWN or alarm (`heartbeatserv.c:70`),
  where a SIGURG would go to nobody; the abort of an optimized glibc at `FD_SET(-1)`; the contents of requests and lines, the floating-point estimator and
  the time stamps of `unprtt.c`, printing, address handling, `sig_hup`, `EINTR` (`signal` asks for system calls
  to be restarted, and the select of `heartbeatcli.c` is simply called again), a full pipe between
  parent and child (it holds one descriptor and few bytes at a time), failures of `socket`, `fork` in
  `DescriptorPassing`, and out-of-range arguments. `dg_send_recv.c:53` arms the alarm before
  `sigsetjmp` fills `jmpbuf`; the timeout is two seconds at least, so it takes a process stopped that
  long between two calls, and what follows is a jump into a frame that is gone.
