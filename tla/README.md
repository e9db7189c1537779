# linuxapi: a TLA+ model of the samples that are hard to test

The repository holds three C programs, `LinuxAPI`, `LinuxAPI2` and `api3`. Each
is a collection of sample functions about one part of the Linux programming
interface, and a `main.c` that calls one of them (the other calls are commented
out). Many samples are sequential: call, print, return. The ones worth a model
are those where several processes, threads, signal handlers or programs share
kernel objects, and where the sample's comments explain why a certain order of
calls is needed. Those orders are what this project states and checks.

`PROJECT.json` lists the components, the runs, the source lines behind every
definition, the hazards and the theorems. This file explains them.

## 1. Inventory

| Component | State | Operations | What is hard |
|---|---|---|---|
| System V semaphore (`LinuxAPI2/ipc_systemv_sem.c`) | set, `sem_otime`, value; per process position and tries | create or open, initialise, poll, acquire, release | initialisation in several calls by one of many processes; kills; uninitialised read |
| System V shared memory (`ipc_systemv_shm_writer.c`, `..._reader.c`) | two semaphores, segment, both programs' positions | set-up, hand-over, clean-up | who may touch the segment; start in any order; leftovers of a killed run |
| POSIX message queue (`ipc_posix_mq.c`) | queue, registration, pending signal, notification threads | send, receive, `mq_notify`, drain, unlink | one-shot registration; re-registration racing new messages |
| Locked sums (`pthread_sync.c`, `ipc_posix_unnamed_sem.c`, `api3/pthread_lock.c`) | lock, sum, each thread's loaded value | add under a lock, create, join | load and store; error-checking unlock; printing after the last join |
| Condition variables (`pthread_condition_variable.c`, `api3/pthread_lock.c`, `api3/timer_example.c`) | mutex, waiters, work | produce and signal after unlock, wait, consume | lost and spurious wake-ups |
| Waiting for children (`LinuxAPI/process_wait*.c`) | children, pending SIGCHLD, handler, counter | fork, exit, handler, sigsuspend, wait, waitpid | signals are not queued; test and sleep must be atomic |
| Echo server and client (`LinuxAPI2/socket_echo_*`) | connections, descriptors of each process, messages | accept, fork, echo, half-close, reap | descriptor inheritance; handler at any point; a child falling back into the accept loop |
| Daemon (`LinuxAPI/process_daemonize.c`) | session, descriptor table, log, flag | two forks, setsid, close all, log, reopen on SIGHUP | handler racing the main loop; failing calls |
| One child (`LinuxAPI/process_func.c`, `process_exec.c`, `api3/process_manage.c`) | as above | fork, exec, waitpid with and without `WNOHANG` | a child that ends before, during or after the look at it |
| Signals (`LinuxAPI/signal_*.c`, `process_sync_by_signal.c`, `api3/signal_example.c`) | mask, pending signals, dispositions, flag and counter of each process | block, `sigaction`, `kill`, `sigsuspend`, `sigwaitinfo`, `pause`, `siglongjmp` | a signal between a test and a wait; signals merged; handlers that change dispositions |
| Timers and sleeping (`LinuxAPI/timer_*.c`, `api3/timer_example.c`, `time_sleep.c`) | timers, and the above | `setitimer`, `alarm`, `timer_settime`, sleeps | expiries outside `pause`, merged expiries |
| Threads (`LinuxAPI2/pthread_introduce.c`, `pthread_cancellation.c`, `pthread_safe.c`, `pthread_signal.c`, `api3/pthread_example.c`) | position, pending cancellation, handler, blocks and buffer of each thread | create, join, cancel, clean up, `pthread_once`, `sigwait` | cancellation at any cancellation point; shared buffers; a mask that is inherited |
| Pipes, FIFOs, sockets (`LinuxAPI2/ipc_pipe.c`, `ipc_fifo_*`, `socket_unix_domain.c`, `socket_inet_domain.c`) | open ends, what is under way, connections, datagrams | open, close, read, write, accept, `sendto`, `recvfrom` | ends left open; clients killed; datagrams lost |
| Event I/O (`LinuxAPI2/alt_io_sample.c`, `api3/fileio_epoll.c`, `fileio_select_poll.c`) | inputs, the set watched, flag | `select`, `poll`, `epoll`, SIGIO | writers that hang up and come back; edge-triggered readiness |
| System V messages (`LinuxAPI2/ipc_systemv_msg_*`) | queues, key, id file | remove, create, publish, send, receive | rival servers; an id that is out of date |
| File locks (`LinuxAPI2/file_lock.c`) | locks, what each run believes | `flock`, `F_GETLK`, `F_SETLK(W)` | an answer that is out of date |
| POSIX semaphores, shared memory, mappings (`LinuxAPI2/ipc_posix_sem.c`, `ipc_posix_shm.c`, `mmap_func.c`) | names, objects, cells | create, size, fill, unlink, wait, post | names unlinked and created again; half-filled memory |
| File, directory, memory, user, time and compiler samples; error helpers; menus | none of their own | query, print | not modelled, section 8 |

Components interact through the kernel alone: a semaphore set, a segment, a
queue, a socket, a signal. No sample calls another one. Therefore the modules
are independent, except that the echo server shares the SIGCHLD machinery of
`Children`, and that samples of a kind are checked in one run: `Samples` holds a
variable `sample`, the function `main` calls, and a module moves only when the
sample is one of its own (two samples of the same name in different programs are
told apart by a prefix or suffix). State spaces then add up instead of multiplying.

What would make each component correct:

- semaphore: at most two processes in the job; no unit created or lost; nobody
  locked out except by a process that died at the wrong moment;
- shared memory: the output is the input; both programs end;
- message queue: no message is slept on; a registration is never lost or doubled;
- sums and queues: nothing added is lost; nobody sleeps on work;
- children: each is reaped, and the parent ends when the last one has;
- echo server: each client gets back all it sent and sees its end of file;
- daemon: no terminal, a log that is open, and a log that is reopened on request;
- signals and timers: no wake-up lost, a request to end honoured whenever it
  comes, loops over expiries that end;
- threads: what a thread owns is freed once, however it ends;
- channels: what is written is read, in order and to the end; nobody waits for an
  end of file that cannot come; an answer goes to the one who asked;
- locks, names and queues: used by those they belong to.

## 2. Modules

| Module | Kind | Models |
|---|---|---|
| `SlotLock` | abstract | a lock with places, some of which die with their holders |
| `Stream` | abstract | items out once, in order, at most `Capacity` under way |
| `SysVSem` | component | `ipc_systemv_sem()` in any number of processes; implements `SlotLock` |
| `ShmTransfer` | component | writer and reader; implements `Stream` with capacity 1 |
| `PosixMq` | component | all functions of `ipc_posix_mq.c` around one queue |
| `Samples` | shared | which sample runs |
| `LockedSum` | component | four samples that add under a lock; implements `SlotLock` |
| `CondQueue` | component | condition-variable samples and the timer thread |
| `Children` | component | SIGCHLD, handler, `wait`, `waitpid` |
| `EchoServer` | composition | server and clients on top of `Children` |
| `Daemon` | component | `become_daemon`, the log and the main loop |
| `ThreadLife` | component | creation, cancellation, thread-local data, `sigwait` |
| `SignalPrograms`, `TimerPrograms` | programs | each signal or timer sample as a sequence of calls, and its handlers |
| `Signals` | component | what these calls do: masks, pending signals, interruption, timers |
| `ChannelPrograms` | programs | each pipe, FIFO or socket sample, one sequence of calls per process |
| `Channels` | component | what these calls do: ends, end of file, connections, datagrams, kills |
| `EventIO` | component | level- and edge-triggered waiting |
| `SysVMsg` | component | message-queue servers and clients |
| `FileLock` | component | `flock` and region locks by several runs of the program |
| `PosixIpc` | component | named semaphore, shared memory, mappings |
| `MC*` | instances | constants for TLC; `MCThreads`, `MCProcesses` and `MCChannels` compose modules |
| `*Proofs` | proofs | one per component for the first three, `CondQueue` and `EchoServer`; `ThreadProofs`, `ProcessProofs` and `ChannelProofs` for the composed specifications |

How state and steps correspond to the code:

- **One action is one system call** (or one load or store of shared memory),
  with the local code up to the next one. A variable named `pc`, `wpc`, `mpc`,
  `dpc` is the call the actor makes next.
- `errExit` and `fatal` end the process: a final position of that name. Calls
  whose failure can only happen for want of memory or permission before the
  interesting part begins are not given a failing branch; the component notes in
  `PROJECT.json` say which.
- Data is reduced to what can be told apart: a chunk is its number and its size,
  a message a count or a sender, a log file a generation.
- Definitions whose name begins with `Mut` are plausible bugs, put in the place
  of the definition that follows them to see that a property notices.

`SysVSem`. `semget` with `IPC_EXCL` elects the creator. It sets the value to 0,
does a `semop` of 0 that stamps `sem_otime`, sets the value to `Slots` and goes
on. The others poll `sem_otime` at most `MaxTries` times, then `semop(-1)`, work,
`semop(+1)`. `Kill(p)` may end a process between any two calls. The creator tests
`ds.sem_otime`, which it never filled in: the model lets that read return
anything.

`ShmTransfer`. The writer's and the reader's positions, the semaphore pair, and
the segment as `buf` and `cnt`, which are stored by different steps. The set may
exist before, with any values a killed run left (`Leftovers`). `WriterFirst` says
whether the reader waits for the set-up, as the sample's instructions ask.

`PosixMq`. `queue` is a set of messages; `owner` the program registered for
notification. `mq_send` into an empty queue with nobody blocked in `mq_receive`
consumes the registration and makes a signal pending or starts a thread.
`started` (either notified program, or both) and `order` (before or after the
writers) are chosen initially. A stray SIGUSR1 may come `MaxStrays` times.

`LockedSum` and `CondQueue`. Every `gsum += i` and `work++` is a load into a
thread's own register and a store. A condition variable is the set of waiters; a
signal wakes one of them or is lost; a waiter may also wake by itself.

`Children`. A child is none, running, stopped, zombie or reaped. `pending` is
one bit. The handler runs only when SIGCHLD is not blocked, that is inside
`sigsuspend`, or at any moment in the echo server, where `SA_RESTART` decides
what becomes of an interrupted `accept`.

`EchoServer`. `fds[c]` is the set of processes that have the server's end of
client `c` open, and `lfd` the processes that have the listening socket; a fork
copies both. End of file reaches a client when its set is empty. A child's
`break` leads back to the loop around `accept`, where its closed listening
socket makes it exit. An `accept` or a fork that fails ends the server: its connection and
the backlog are reset, and the children finish their clients.

`Daemon`. The process that survives each fork, its session, and its descriptor
table; `open` takes the lowest free number. `hup_signaled` is set by the handler
between any two steps, before `become_daemon` too: it is installed first. The user moves the log away and then sends SIGHUP.
`make_daemon` uses the same steps up to its own way of opening `/dev/null`.

`Signals`. Twenty-two samples differ only in the order of a dozen calls.
Each is therefore a sequence of calls (`SignalPrograms`, `TimerPrograms`), and
`Signals` has one action per call. A process is a record: status, position,
whether it is between calls, in a call or leaving it interrupted, mask, kept
mask, pending signals in order of arrival, dispositions, and the sample's flag
and counter. A call that waits is entered in one step and left in another, so
that a signal may come before, in and after it; `sigsuspend` changes the mask in
the step that enters it. A handler is one step: its signal is blocked
(`Caught`) until it returns (`Return`), and one that jumps instead leaves the mask
to `siglongjmp`, which restores what `sigsetjmp` was asked to save. Standard signals are pending
once, realtime signals are queued. Durations are left out: a timer may expire and
a sleep end at any time after it was set.

`ThreadLife`. In the same way a thread is a sequence of calls and a record with
its position, request to cancel, handler, blocks allocated and freed, buffer and
message printed. A request is acted on only at a cancellation point.

`Channels`. A process is a sequence of calls; the kernel knows who holds which
end of which channel. A read finds data, waits, or sees the end of file when no
writing end is left; a FIFO opens when both ends are there, and a client may find
none before the server has made it; a socket connection waits to be accepted, and
`accept` may refuse the unset length of the Internet servers (`AcceptInvalid`); datagrams of the Internet domain may be lost. Any process
but the first may be killed, and its ends are closed.

`EventIO`. An input has a writer that comes, writes and hangs up `MaxOpens`
times. `select`, `poll` and `epoll` look at the state of the inputs; SIGIO sets a
flag at the moment something arrives.

`SysVMsg`, `FileLock`, `PosixIpc`. Kernel objects as sets and functions, one step
per call, any number of actors, each of which may be killed where the code has
something to lose by it. `file_lock.c` ignores what `fcntl` returns; a waiting run
holds nothing and handles no signal, so that neither EDEADLK nor EINTR can occur.

## 3. Runs

| Run | Bounds | Distinct states |
|---|---|---|
| `sysvsem` | 3 processes, 2 slots, 2 polls, any kills | 15 003 |
| `shm` | 3 chunks, 2 failing reads, fresh system or leftovers | 345 |
| `mq` | 2 writers, 1 blocking reader, 3 notification threads, queue of 2, 1 stray signal | 555 308 |
| `threads` | sums of 3 additions per thread; 2 producers, 2 rounds; 3 threads, 2 turns | 7 132 |
| `processes` | 3 children; 2 clients, 2 messages each, backlog 1; daemon with 6 descriptors, 3 SIGHUPs, 2 moves, 2 failures; 4 signals from outside, 2 ticks | 38 214 |
| `channels` | 2 messages per process, 1 kill; 2 chunks, 2 writers in turn; 2 servers and 2 clients; 2 runs that lock 2 bytes; 3 users of a name | 97 513 |
| `sysvsem_fatal`, `shm_race`, `daemon_hup`, `signals_fourth`, `timer_turns`, `channels_sigio` | as above | one property each, violated |

Why the bounds are enough: the code treats processes, threads, clients and
children alike, and every hazard needs at most two of them beside the one that
suffers it. Three processes for two slots make one wait; two polls let the poll
both succeed and give up; a queue of two is full and empty in turn; a backlog of
one keeps the second client out; three SIGHUPs allow one before, one during and
one after a reopening; four signals from outside reach past the third SIGINT of
`signal_basic`; two chunks and two writers let a second writer come between a
hang-up and what the reader does about it; three users of a name allow one to
unlink it and one to create it again while a third has the old object open. The theorems of section 5 remove the bounds where they
apply. `AtMostSlots` and `OutputFaithful` are stated and proved only: the runs
check the refinements, which say more.

What the passing runs show:

- `sysvsem`: units are conserved (`UnitsConserved`; in particular the creator's
  second SETVAL, which comes after the followers have been let through, overwrites
  nothing), the processes in the job behave as in a two-slot lock
  (`ImplementsLock`), and a blocked process gets in unless the creator died half way or both slots died
  with their holders (`BlockedGetsIn`).
- `shm`: the segment belongs to one place at a time (`OneToken`), the output is
  the input (`ImplementsStream`), no `semop` of the reader hits
  a removed set, and both programs end (`AllDelivered`).
- `mq`: a notified program that is alone is registered or about to register
  (`OneRegistration`), no message is slept on (`NoLostWakeup`), and everything
  sent is read and the notified program told of it (`AllRead`).
- `threads`: sums are exact when printed (`ResultExact`), the locks implement
  `SlotLock` (`ImplementsSlotLock`), no `work++` is lost (`WorkConserved`),
  signalling after the unlock leaves nobody asleep on work (`NoWorkSleptOn`,
  `AllConsumed`; the latter also says that the timer sample, which waits without
  a predicate, ends because the timer fires again), and a thread that returns or
  is canceled frees what it owns once, prints only its own message, and leaves
  SIGINT to the thread in `sigwait` (`EndsClean`).
- `processes`, children: one bit of SIGCHLD is enough because the handler loops
  (`NoZombieForgotten`), and parents end (`ParentEnds`).
- `processes`, echo server: each client gets back what it sent (`EchoComplete`),
  descriptors do not leak into other children and only the parent accepts
  (`DescriptorsPrivate`), everybody comes to an end (`AllServed`).
- `processes`, daemon: no terminal, an open log, and descriptors leaked only by
  failing calls (`Detached`); a SIGHUP that it notices is honoured
  (`HupHonoured`).
- `processes`, signals: the parent that waits for its child's signal gets it
  (`WaiterWakes`), a request to end is honoured at whatever moment it comes
  (`QuitHonoured`), the signal whose handler is left by `siglongjmp` can be taken
  again (`JumpUnblocks`), the loops over expiries reach their end, with every tick
  counted or the timer deleted (`TicksEnd`).
- `channels`: what is written to a pipe or a socket pair is read, and the FIFO
  server never sees an end of file (`PipeDelivers`); everybody who is not killed,
  and whose datagrams are not lost, gets through unless `accept` refuses the length
  that the Internet servers never set (`GetThrough`); input that is
  there is read (`LevelTriggered`) and none is forgotten (`NothingForgotten`)
  except for the case of `channels_sigio`; rival message servers never share a
  queue (`OwnQueue`) and a message sent to a server that lives is received
  (`SentIsReceived`); runs that think they hold a lock are not in each other's
  way, though `F_GETLK` may be out of date (`BeliefsAgree`); what was finished
  before is seen whole, and a reader that comes before shared memory has its size
  or its contents never reaches beyond what there is (`SeenWhole`).

Composed runs check one type invariant, `TypesOK`, for all their modules.
Deadlock checking is off in every run: the samples end, or wait for ever for a
user or a client, by design. Liveness properties take its place.

### Disagreements between the code and what is said of it

- `sysvsem_fatal`: `ds.sem_otime` is tested at line 88 on a path that never
  filled `ds`. The creator may give up with "Semaphore not initialized yet."
  after it has itself initialised it.
- `shm_race`: the reader checks none of the ids it gets; started between the
  writer's `semget` and `shmget` it uses the address `shmat` failed to give.
- `daemon_hup`: `hup_signaled` is cleared after `log_open`, so a SIGHUP that
  comes between the two is forgotten and the daemon writes on to the moved file.
- `signals_fourth`: the third SIGINT sets the default action and, under the same
  condition, SIG_IGN; the fourth is ignored where the comment expects the end.
- `timer_turns`: the handler of `timer_example_setitimer` follows
  `si_value.sival_ptr`, which is null for an interval timer (SI_KERNEL): the first
  expiry ends the program where the comment expects five turns.
- `channels_sigio`: the edge-triggered loop stops at a buffer that begins with a
  newline and leaves the rest unread until there is another signal, against the
  comment three lines above it.

Three more were met and are not runs. `socket_inet_domain.c:53` and `:285` pass
`accept` a length that nothing has set; no text says what should become of it, so
`GetThrough` names the case instead. `pthread_signal.c:45` speaks of ending the
worker threads; SIGKILL sent to a thread ends the whole process, so that none of
the joins returns. And the comment at `ipc_systemv_sem.c:104-105`
says that a process killed while blocked in `semop` locks the others out. Such a
process holds no unit and the others still get in (`BlockedGetsIn`); only one
killed in the job takes a unit with it.

## 4. Fairness

- A process or thread that can run does run: weak fairness on its steps.
- Strong fairness only where a lock is contended and the code relies on the
  kernel to hand it over: `semop(-1)` in `SysVSem` (waiters are served in order)
  and mutex and condition variable in `CondQueue`.
- A pending, unblocked signal is delivered; children that sleep and exit do so.
- `Signals`: processes go on, unblocked signals are delivered, timers that are set
  expire (all weak). `Channels`: every process that is alive goes on. `EventIO`:
  the reader goes on; the open of a FIFO waits for a writer that need not come.
  `SysVMsg`: servers go on; clients need not.
- No fairness for what nobody has to do: kills, stray signals, spurious
  wake-ups, a failing `fork`, `accept`, `read` or `write`, SIGHUP, moving the log, the
  signal to the first child of `process_waitpid`, the end of a program started
  with `execve`, input typed, writers and clients that come. The disjunct of a program step
  that fails is never forced, since the successful one is enabled beside it, and
  the liveness properties hold whichever is taken.

## 5. Theorems

Every safety invariant, action property and refinement of the passing runs is
stated by a theorem. The theorems are about the very specification TLC runs:
`ThreadProofs`, `ProcessProofs` and `ChannelProofs` prove the invariants of the
composed `Spec` of `MCThreads`, `MCProcesses` and `MCChannels`, in which a step
of one module leaves the variables of the others alone.

They hold for every value of the constants that meets the assumptions of the
modules, all of them facts of the code:

- what is counted is a number, and positive where the code does the thing at
  least once (`NumChildrenAssumption`, `CountAssumption`, `NumTurnsAssumption`,
  `TicksAssumption`, `NumMsgsAssumption`, `EventAssumption`, `ConstantsOK`);
- what may happen from outside is bounded by some number, zero included
  (`MaxKillsAssumption`, `MaxSentAssumption`, `DaemonAssumption`, `MqAssumption`,
  `InputOK`, `ClientsAssumption`: no more clients than children to serve them);
- the daemon's table has at least the descriptors 0 to 4 (`DaemonAssumption`):
  the standard three, the log and one more;
- sets of servers are finite, and the values that stand for nobody, for main or
  for an earlier run are not members of the sets of actors (`ServersAssumption`,
  `UsersAssumption`, `ProducersAssumption`).

A proof has the same shape everywhere: one lemma for the initial states, one per
action or group of actions, one that a step preserves the invariant
(`...Kept`), one that the invariant implies the property, and the theorem.
Where the samples are tables of calls, a lemma first computes what all programs
have in common (`Programs`, `ProgSound`, `LifePrograms`), and the steps use only
that.

**`SysVSemProofs`** (`TypeCorrect`, `Conservation`, `JobIsBounded`,
`Refinement`). The invariant is the type, `UnitsConserved`,
`OneCreator`, that nobody is past `semget` before the set exists, and that a
polling process has turns left. Conservation is inductive only with
`OneCreator`: a second creator would reset a value others hold units of.
`Refinement` maps the processes in the job, and those killed in it, to `SlotLock`.

**`ShmTransferProofs`** (`TypeCorrect`, `HandOver`, `Faithful`, `Undisturbed`,
`Refinement`, all for `WriterFirst`). `OneToken` alone does not say what the
segment holds; `Ledger` adds, for every place the token can be in, whether the
buffer holds a chunk the reader has yet to write, and `EndOfFile` that a count of
zero stays until both are done. `Objects` records what exists at each position.

**`PosixMqProofs`** (`TypeCorrect`, `NeverBusy`, `NothingSleptOn`).
`OneRegistration` is nearly inductive; `Quiet` says what a program that has not
begun cannot have, and `WritersWait` that nothing is queued before the first
registration when the notified program was started first.

**`CondQueueProofs`** (`Invariance` and its consequences) and
**`EchoServerProofs`** (`EsInvariant`, `ZombiesFound`, `ParentAccepts` and
others) prove their components alone. `Excluded` ties positions to the owner of
the mutex and says that a value loaded under it is still current at the store;
conservation of work follows. `NoZombieForgotten` is inductive with the type of
`kid`. For the connections, `Held` follows each one from the backlog through the
parent to its child, `Flow` orders the message counts and says that a child that
has left `echo` has read and written everything, and `ParentInv` that the
connection last accepted has no child before the fork and one after it. The end
of file needs an empty `fds[c]`, which `Held` allows only when the child is gone
or was never forked.

**`ThreadProofs`**, on the specification of the `threads` run.

- `SumInvariance`, `ResultExactHolds`, `SumImplementsSlotLock`. What a recursive
  sum computes cannot be proved here, so `Additions` says in closed form
  (`Gauss`) what each thread has added after `i` turns; the sum is what its
  threads have added so far, and a loaded value (`reg`) is still the sum because
  `Exclusive` gives the lock to whoever is between lock and unlock. `InOrder` says
  that a thread not created has not moved and one that was joined has finished,
  which makes the sum exact when it is printed. The threads inside, for the
  datum two of them share, map to the holder of a `SlotLock` with one place.
- `LifeInvariance`, `EndsCleanHolds`. `Counted` and `Guarded` say of every
  position of a thread function how many blocks are allocated and not yet freed,
  and whether the clean-up handler is pushed; a cancellation is acted on only
  where the two agree. `OneKey` says that at most one thread is creating the
  key, and only while `pthread_once` is under way. `Masked` says that
  SIGINT is blocked in main before the first `pthread_create`, so that each
  thread inherits it.
- `CondInvariance`, `WorkConservedHolds`, `NoWorkSleptOnHolds`, `TypesOKHolds`.

**`ProcessProofs`**, on the specification of the `processes` run.

- `ChInvariance`: `child_cnt` is the number of children that are not reaped, at
  every moment and whatever the handler found, and the parent is at `fork` only
  while there are children left to create. `NoZombieForgottenHolds`,
  `EsInvariance`, `DescriptorsPrivateHolds` and `EchoCompleteHolds` carry
  the results of `EchoServerProofs` over.
- `DmInvariance`, `DetachedHolds`. `NoTerminal` gives session and leadership at
  each step of `become_daemon`, `Table` what the lowest descriptors hold after
  each of its calls (`OpenSlotLowest` says what `open` returns), `LogOpen` that
  the log is open wherever the loop writes to it, and `LogsCounted` that
  descriptors of log files beyond the current one are at most the failed calls.
- `SigInvariance`. Every process of the twenty-two programs is at a call of its
  program; a standard signal is queued once per origin, also when a handler
  raises the signal it handles, because it has set the default action before;
  the counter stays within its bound because the counting handler is removed at
  the third SIGINT and because the tick loop ends; and each disposition is a
  handler that the program installs.

**`ChannelProofs`**, on the specification of the `channels` run.

- `LockInvariance`, `BeliefsAgreeHolds`, for any number of runs and any regions:
  a run that holds a lock is `Registered` with the type and region it asked for,
  and any two locks held are `Compatible`. What `F_GETLK` told is no part of it.
- `ShareInvariance`, `MappedInvariance`, `SeenWholeHolds`. `Created` says that a name and an open
  object lead to a user who created it, `WrittenBy` which of the two cells its
  writer has filled at each position, `ReadFrom` that a reader that came after the
  writer had ended has read the writer's cells, `Mapped` that nobody has more
  mapped than the object holds, which never shrinks, `Family` what parent and child
  of a shared mapping see.
- `MsgInvariance`, `OwnQueueHolds`. At most the queue of the key exists
  (`OneQueue`); servers that are past the creation of their queue, or have
  received something, have different ids, none of them that of an earlier run
  (`OwnIds`);
  this needs `AllBacked`: an id is known only if it is the first or some server
  created it, hence there is always a fresh one (`SpareId`, by counting). A
  message in a queue was sent to that id or is left from before (`Addressed`).
- `EventInvariance`, `NothingForgottenHolds`. An event still to be handled tells
  the truth about its input (`EventsTrue`), an input is closed only when nothing
  of its first writer is left in it or can still come (`ClosedEmpty`), and the
  SIGIO loop that sleeps without its flag has read everything unless it stopped at
  a newline (`Typed`), the case of `channels_sigio`.
- `ChanInvariance`, `PipeInvariance`, `PipeDeliversHolds`. `ChanInv` says that
  each process is at a call of its program, within its limit, and that the ends
  open belong to processes that live. `PipeInv` adds `Flow`: what was read
  followed by what is in the pipe is what was written, in order; `Open`: who has
  the writing end open at each position; and, as long as nobody was killed,
  `AllRead` and `InTime`: the reader sees the end of file after the last
  message and not before. `FifoInv` is the reason the server never sees an end of
  file: it keeps a writing end open itself.

## 6. Only model-checked

Liveness under fairness (`BlockedGetsIn`, `AllDelivered`, `AllRead`,
`AllConsumed`, `ParentEnds`, `AllServed`, `HupHonoured`, `WaiterWakes`,
`QuitHonoured`, `JumpUnblocks`, `TicksEnd`, `GetThrough`, `LevelTriggered`, `SentIsReceived`) is
beyond the prover. So are the violations of section 3: they are
counterexamples, and hold for the instances that show them.

## 7. Plan

All components that share state are modelled and all safety properties of the
runs are proved. What is left:

1. The safety half of liveness properties: for `QuitHonoured`, that a
   signal asked for is pending, handled or has ended the process; for
   `AllConsumed`, that a waiter with work to do has a signal under way.
2. Pipes as a `Stream`: `Flow` is already the refinement mapping.
3. Datagrams and connections: that an answer goes to the one who asked, which
   `GetThrough` now covers together with progress.

## 8. Not modelled

`timer_advanced_fd` reads eight bytes into an int, `timer_advanced_thread` waits
a second time on a condition variable without holding the mutex, and the
completion thread of `fileio_aio.c` reads a control block on the stack of a
function that may have returned: what these do is undefined and says nothing
about the samples' protocols. `mmap_file_privated` and `mmap_ops` share nothing.
`process_clone` and `process_setpgid` are two processes in one fixed order.

File, directory, memory, user, capability, limit, option, time-formatting,
logging and dynamic-loading samples call the library and print the answer; they
keep no state that a later step depends on. The compiler samples have no
behaviour over time. The error helpers are a book's library, of which the models
keep the one fact that matters: `errExit` ends the process. The menus are the
variable of `Samples`. What the samples print is left out everywhere.
