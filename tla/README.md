# MPI-Stages: a TLA+ model

MPI-Stages (ExaMPI) is an MPI implementation whose processes survive the failure of
others. An application divides its work into *epochs*, each ended by
`MPIX_Checkpoint_write`. When a process exits with `MPIX_TRY_RELOAD` (101), three kinds
of daemons signal the surviving processes, agree on the smallest epoch, restart the
failed process in it and let everybody continue from there.

This directory specifies three layers of it in TLA+: the *recovery runtime* of a job (the
daemons and the processes as they see them), the *progress engine* inside one process
(the user's thread, the signal handler on top of it, the progress thread), and the
*calls* of all ranks (collectives, messages, checkpoints) over transport, matcher and
communicators. The modules are translated from the
sources in `runtime/`, `src/` and `include/`; nothing is taken from the papers on
MPI-Stages.

## 1. The system

| component | source | state | operations |
|---|---|---|---|
| application process: stages interface | `src/interfaces/mpistages.cc`, `src/universe.cc` | epoch, checkpoint files, epoch file | `MPI_Init`, `MPI_Finalize`, `MPIX_Checkpoint_write`, `MPIX_Checkpoint_read` |
| application process: daemon client | `src/daemon.cc` | one TCP socket to the head | `barrier`, `send_clean_up`, `wait_commit` |
| application process: fault handler | `src/faulthandler.cc`, `include/stages.h` | `is_errSet` | SIGUSR2 handler `setErr` |
| fault daemon, one per rank | `runtime/exampi_fault_daemon` | the child process, the epoch to launch it in | launch, wait, report, restart or shut down |
| head daemon, one per node | `runtime/exampi_head_daemon` | registered ranks, terminated ranks, four counters, minimum epoch | eight packet handlers and a stateless rank lookup |
| controller, one per job | `runtime/exampi_controller_daemon` | head daemons, four counters, minimum epoch | five packet handlers |
| progress engine, matcher, requests | `src/engines/`, `src/matchers/`, `src/request.cc` | outbox, posted receives, received headers | progress thread, post, match, release, cleanup |
| UDP transport | `src/transports/udptransport.cc`, `third-party/pool.h` | receive pools, payload table, endpoint cache | send, receive, fill, save, load |
| checkpoint content | `src/interfaces/mpistages.cc` | files, registered handlers | save, load, register, serialize, deserialize |
| protocol decider | `src/deciders/simpledecider.cc` | none | choice of protocol for a send |
| communicators and contexts | `src/communicator.cc`, `src/context.cc`, `src/group.cc` | groups, communicators, context counter | dup, next context, rank, size |
| collectives | `src/interfaces/interface.cc`, `src/mpi_ops.cc` | none | barrier, bcast, reduce, allreduce |
| point to point interface | `src/interfaces/interface.cc` | request pool | send in four modes, receive, wait, waitall, sendrecv |

How they interact:

```
 application process  --barrier, cleanup-->         head daemon  --node_barrier, node_epoch,
    ^   |  ^          <--release, commit--           of its node     node_success, process_exit,
    |   |  |                                         |   |   ^       node_shutdown-->  controller
    |   |  +--SIGUSR2 (kill by pid)------------------+   |   |
    |   v                                                |   |  <--release, error, commit,
    |  checkpoint files, epoch file                      |   |     shutdown--
    |   |                                                v   |
  fault daemon  (launches and waits for the process) <--restart, shutdown--
                                                     --termination, shutdown_ack-->
```

What is hard about it:

* four processes take part in each decision, and packets of different connections are
  served in any order;
* counters of one round (barrier, cleanups, successes) live in the head daemons and the
  controller, are reset at different times, and are compared with sizes that change;
* a signal may interrupt a process between any two of its steps, also before the
  handler exists;
* a process may die between the two files of a checkpoint, or while one of them is open;
* a process blocked in `recv` takes the next packet, whatever it is;
* inside a process, the user thread, the progress thread and the signal handler share the
  matcher's queues and the error flag;
* a failure cuts a collective short on every rank at another place, and what it has already
  sent, posted or queued meets the calls that are made again after the recovery;
* a checkpoint is one file to which two calls write, and the epoch is committed by the
  first.

What makes each component correct:

* *runtime as a whole*: nobody leaves a barrier before all have entered; the committed
  epoch is one everybody can go back to, and everybody goes there; the job ends when and
  only when all have succeeded; no daemon dies on a legal packet sequence;
* *fault daemon*: one process per rank; what it reports is durable;
* *progress engine*: a posted receive completes at most once, with the first matching
  message of its source; after a failure every waiting receive is released; a request is
  not returned to the pool while somebody holds it;
* *UDP transport*: pool buffers are neither leaked nor used after release;
* *checkpoint content*: after a recovery survivors and restarted process hold communicators
  with the same contexts, and can reach each other;
* *contexts*: live communicators have different contexts, equal on all ranks;
* *collectives*: each computes its result on all ranks, whatever the relative speed.

## 2. The modules

| module | what it is |
|---|---|
| `RuntimeNet` | layout (which node hosts which rank), the packets, the connections, the process table |
| `RankProcess` | the application process as the runtime sees it |
| `FaultDaemon` | the monitor of one rank |
| `HeadDaemon` | the daemon of a node |
| `ControllerDaemon` | the daemon of the job |
| `GlobalBarrier` | abstract specification: a reusable barrier |
| `Recovery` | the composition of all of them, fairness, and the properties |
| `MCRecovery` | layouts of small jobs and their symmetry |
| `RecoveryProofs` | theorems about `Recovery`: types, crash consistency, one process per rank; and about one recovery with one rank on each node: one report per node, one decision, which finds the fault daemons waiting and names an epoch that all have reached |
| `QuietProofs` | theorems about the whole job with any number of ranks per node, when it synchronises and one process fails between checkpoints: the barrier's refinement, no exception in a daemon, the shutdown |
| `SimpleMatcher` | what matches, and the order in which matches are found: operators for the two layers below |
| `ProgressEngine` | one process: requests, queues, guards, condition variable, handler, progress thread |
| `MCProgressEngine` | its receives |
| `MatcherLemmas` | what the operators on queues and `FirstMatch` do, for the proofs of both layers |
| `EngineProofs` | theorems about `ProgressEngine`: types, who holds a request, the order in which receives and messages meet, and what a failure may not do to a receive |
| `Universe` | the size of a job |
| `MemoryPool` | the pool of `third-party/pool.h`: operators |
| `UDPTransport` | datagrams, header and payload pools, payload table, endpoint cache of all ranks |
| `SimpleDecider` | the protocol of a send |
| `ReductionOps` | the reduction operators and the reference they are compared with |
| `Communicators` | groups, contexts, registration, handles, rank and size |
| `Checkpoint` | the files of all ranks: what save and load keep, serialize handlers; over `UDPTransport` and `Communicators` |
| `Collectives` | the calls of all ranks, and failures among them; composed of all the above and `SimpleMatcher` |
| `MCCollectives` | the programs of small applications |
| `PoolProofs` | theorems about the pools of the transport |
| `CallProofs` | theorems about successive calls on `MPI_COMM_WORLD`: they do not mix, the barrier synchronises, no payload is lost |
| `DataProofs` | theorems about what these calls leave in the user's buffer |
| `CommunicatorProofs` | theorems about communicators and the state around them: types, and the contexts that `MPI_Comm_dup` draws |

The three layers are separate specifications. `Recovery` hides messages between ranks,
`ProgressEngine` hides the other ranks behind the messages they send and the runtime behind
a signal, `Collectives` hides the threads of a process and the daemons. They meet in
`SimpleMatcher`, in the error flag, in the message of cleanup, and in the order of checkpoint
and recovery: `Collectives` takes a recovery as one step in the epoch that `Recovery` shows
to be agreed on for ranks of separate nodes, the minimum.

### The recovery runtime

Names are the sources' names. Each handler of a daemon is one action: a Python handler
runs to completion before the select loop takes the next packet. In `HeadDaemon` these are
`process_barrier`, `process_cleanup`, `process_termination`, `process_shutdown_ack` (from
local ranks and fault daemons) and `process_release`, `process_error`, `process_commit`,
`process_shutdown` (from the controller); in `ControllerDaemon` `node_barrier`,
`node_success`, `node_shutdown`, `process_exit`, `node_epoch`. A fault daemon has three:
`inform_head` (the wait has returned, the report goes out), `restart` and `shutdown_ack`
(the two decisions).

An application process is split wherever another process can come in between:
`MPI_Init` up to the barrier's packet, `recv_barrier_release` (the return from the
blocked `recv`), `MPI_Comm_set_errhandler` (the handler exists from here on), the
five steps of `checkpoint_write` (the checkpoint file is opened, which empties it; it is
written and closed; the second look at the error flag; the epoch is counted and the epoch
file opened, which empties it; it is written and closed), `MPIX_Checkpoint_read` up to the
wait, `wait_commit` with the barrier's packet, `MPI_Finalize` and exit. `setErr` is the
signal handler and may run between any two of them. `checkpoint_read_throws` is the uncaught
exception of a missing checkpoint. A checkpoint file that was emptied and not completed is in
`torn`: a process that loads it goes on with what it finds, or throws.

`Fail` and the choice when to checkpoint, to reload or to finish belong to the
application, which is not part of the repository. It exits with 101 while it computes, or
is stopped inside `checkpoint_write`, before any of its steps, at most `MaxFaults` times.
Inside a recovery or a barrier no process fails. `Lockstep` says whether it synchronises
all ranks before a checkpoint and before `MPI_Finalize`, `FailWhen` whether it fails at any
such point or only while all ranks compute in the same epoch (`"quiet"`).

### What is abstracted

* *Connections* are FIFO sequences of 64 byte packets. A packet is a record with the words
  the receiver looks at; rank and host names are the index of the connection. The
  connections of a rank's old and new process are one sequence towards the head, which
  keeps the old packets before the new; towards the rank, `Launch` starts with an
  empty one.
* *Exit statuses* are success, 101, and all the rest, for which the controller raises
  `NotImplementedError`.
* *A counter that Python keeps as `None`* until its first packet is 0: `None` and then 1
  is the same sequence of values. `node_minimum_epoch` and `global_minimum_epoch` keep
  their `None`: taking it for a number is a mutant.
* *Exceptions.* A handler that raises ends its daemon, which becomes `"raised"`. The model
  stops there (`Intact`): what the orphaned processes do afterwards is not followed.
  Sending to a process that has exited may raise or lose the packet.
* *Signals.* A pending SIGUSR2 is a flag: it does not queue. Without a handler it
  terminates the process. A pid is not used again during the job.
* *Files.* What a process had written to an open file when it died does not count: the
  checkpoint is torn, the epoch file empty. Opening a file never fails.
* Logging, the configuration file, rank lookup and the launch of the daemons are left out;
  the initial state is a job whose daemons are up and whose processes are started.

### The progress engine

*Actors.* The user's frame; the frame of the SIGUSR2 handler, which runs on top of it
(Linux gives a signal sent to a process to its main thread, which is the user's here,
unless that thread blocks it); the progress thread. While the handler runs, the
user's frame does not. `pc` holds a place for each frame, `progress.pc` that of the thread.

*Locks* are holder variables: `matcher_guard`, `outbox_guard`, and one per request. A call
is split where a lock is taken or released and where the error flag is read. Steps under
one lock that touch nothing else are one action. `MPI_Wait` reads `complete` before it
takes the lock, as the code does. `thr_request_condition` is thread local and therefore
shared by the two frames: `notified` is the set of frames that have been notified, and
`notify_one` picks one of the sleepers. `Request::release` is two steps, because the
waiter may run between the notification and the unlock.

*MPI_Waitall* is a flag on the user's frame: while it is set, the user goes from one
`MPI_Wait` to the next in the order of the array, and the first error ends it.

*Requests* are objects of a pool, of which any free one serves; `post_header` is split into its
lock, the walk of `halt` over the posted receives, and the queueing of the header.
`matcher_progress` finds one match, as the code leaves its loop with each.

*Abstractions.* Datagrams are FIFO and not lost. There is one communicator. A message of
length zero has no payload: when the cleanup message is matched by a wildcard, the code
follows a null pointer, and the progress thread is `"raised"`. The configurations name their
sources, and `CleanupNotReceived` says that this does not happen then. Persistent requests are not reachable from the C bindings; `MPI_Test` takes
the handle itself for the request, which leaves nothing to model. Synchronous sends are in
`Collectives`. Request errors, statuses and the thread's shutdown are left out. `recoveries` and
`old_messages` are history variables.

### The collectives

All ranks run the same program, one of `Programs`, each at its own pace. A call is
translated into a `plan`: the list of sends and receives that the rank makes in it, in the
order of the code's loops and branches, with the variable that each reads or writes.
`Enter` is the call's beginning (the operand goes to the buffer; rank 0 draws the contexts
of a dup), `MPI_Send` and `MPI_Recv` are one element of the plan, `Return` is its end
(the communicator is registered; the checkpoint is on disk).

* `MPI_Send` puts the datagram on the network in one step with the user's call: without a
  failure the two wait for each other, and what may interleave between them is the subject of
  `ProgressEngine`. `MPI_Recv` posts, matches and fills in one step: when a receive was posted
  makes no difference before it meets its message, because a rank never has two receives
  posted for one peer. With a failure both differences show, and are made explicit (below). `post_header` is the receiver's progress thread; it may run at any time,
  so a message may wait in the socket, in the queue, or meet a receive that waits.
* A header carries the number of the call it was sent in. It is used by `CallsDoNotMix`
  only; the code has no such field.
* The transport keeps headers and payloads in pools of items, by address, and
  `payload_buffer` under a header's address. Its entries are never erased, as in the code.
* A send has one of four modes. `decide` makes the synchronous one `EAGER_ACK`; the answer is
  sent with the envelope of the receive, and so to the receiver itself, under the name of the
  sender (`handle_match`). It stays in the receiver's queue until a receive from that sender
  takes it for a message, and is complete without data (section 4). `AnswersUnclaimed` is the
  hypothesis that a program has no such receive.
* `MPI_Sendrecv` posts its receive before the send and waits for it after the send. The plan
  is the order of waiting; `ReceiveOf` is the receive that is or may be posted meanwhile.
* `MPI_Comm_dup` passes the context of the communicator to `MPI_Bcast` as a handle. That is
  right for `MPI_COMM_WORLD` only (context 0, handle 0); programs dup no other.

*Checkpoints.* `MPIX_Checkpoint_write` replaces the file of the current epoch and counts the
epoch; `MPIX_Serialize_handles`, the application's next call, appends the contexts of its
handles to it. Between the two calls a failure leaves a file without them. After a restart the
handlers cannot be registered again, as no path sets the recovery code that
`MPIX_Serialize_handler_register` asks for: the restarted process keeps the numbers of its
handles, which the application saved, and survivors look their contexts up.

*Failures.* `Fail` stops one rank at any point, with its call half done. Each survivor is told
by `setErr`, at any point of its own, and `caught` says where its thread was with the receive of
its call: before or after it (`"outside"`), between the flag's test in `MPI_Start` and the queue
(`"in_start"`), or behind the queue (`"posted"`: the receive is now in `posted_request_queue`). If
that queue is not empty, a message of cleanup to itself is sent, which ends what it finds there
when it arrives (`halt`, `EndsPosted`). The call returns an error when it next looks at the flag
(`Abort`). Three things may stay behind then, because `MPI_Wait` and `MPI_Request_free` return at
their own tests of the flag:

* a receive that was caught in `MPI_Start` is posted now, after cleanup has looked: nothing ends it;
* a receive that was posted, as long as the message of cleanup is on its way;
* a send that was caught in `MPI_Start` is in the `outbox` now.

When all survivors are out of their calls, `Recover` puts all ranks into the committed epoch: the
failed one with a new transport, an empty socket, and groups, communicators and endpoints of its
checkpoint; the survivors with what they have. That is what they have received, the datagrams on
their way to them, the receives that are still posted, and the outbox. The progress thread goes on
with both: `match_abandoned` gives a message to a receive that was left, before the receive of the
current call may have it (`Wanted`), and `handle_request` sends what is in the outbox, to the new
socket if it is for the restarted rank. The application returns to what it saved with its epoch.

A receive that was left writes to a variable of a call that has returned. What becomes of such
buffers is not followed; the application saves and restores its own.

*What a failure may spoil.* Five things follow a recovery into the calls after it: messages of
the interrupted calls that are not older than the committed epoch (finding 5), receives that are
still posted (section 4), sends in the outbox, the epoch of a restarted process that was
ahead (finding 2), and handles that were not yet serialized. `disturbed` records that one of them
was met; the properties about calls are stated for recoveries that were not, and so say nothing
of those. It belongs to the properties: no action of the model reads it. `PoolsIntact`, and
`TypeOK` but for the range of the handles, are stated for all recoveries.

* Empty buffers and floating point types are left out.

## 3. What TLC checks

| run | instance | question |
|---|---|---|
| `recovery_quiet` | 3 ranks, 2 nodes (one shared), 2 checkpoints, 1 failure, lockstep, quiet | does the case the runtime is built for work, up to the job's end? |
| `recovery_any` | 3 ranks on 3 nodes, 2 checkpoints, 1 failure at any step, no synchronisation | what holds without any help from the application? |
| `commit_minimum` | 2 ranks, 1 node, a failure while one is ahead | violation of `CommitReachedByAll` |
| `restart_epoch` | 2 ranks, 2 nodes, a rank fails ahead | violation of `RestartInAgreedEpoch` |
| `second_recovery` | 2 ranks, 1 node, 2 separate failures | violation of `RestartOnlyTerminated` |
| `late_failure` | 2 ranks, 1 node, a failure after the other's end | violation of `ShutdownOnlyAfterSuccess` |
| `engine_matching` | 3 requests, 2 messages, 2 tags and a wildcard, waits for one request or all | does matching keep MPI's order, under every interleaving? |
| `engine_failure` | 3 requests, 1 message, a signal at any place of the user's thread | what survives an interruption? |
| `stale_message` | the same, a receive after the recovery | violation of `OnlyNewMessages` |
| `stolen_wakeup` | a signal while the user sleeps | violation of `WaiterIsNotified` |
| `collectives` | 3 ranks: every pair of collectives and roots, every operator, every mode of a send; 5 ranks: every reduction; 2 and 3 ranks: a failure at any point of calls around a checkpoint | are results right whatever the relative speed, and again after a failure? |
| `restarted_contexts` | 2 ranks, rank 0 fails between two dups | violation of `DupReturnsNew` |

Properties of `Recovery`, with the code they are about:

* `TypeOK` — also that no daemon ever sends `None` for an epoch.
* `NoDaemonRaises` — the handlers never meet an unknown rank, a dead pid or an exit status
  they do not expect.
* `ReportedEpochIsDurable` — "needed in case process dies": crash consistency of
  `checkpoint_write`, whose two files are emptied, written and closed one after the other, and the
  report, wherever the process dies. With a second failure it is false (section 4).
* `RecoveryEpochsAgree` — restarted and surviving processes in the recovery's barrier are
  in one epoch.
* `CommitReachedByAll` — "find minimum all nodes have".
* `RestartInAgreedEpoch` — "agreed epoch to restart from".
* `RestartOnlyTerminated` — "send restart to active fault daemons".
* `ShutdownOnlyAfterSuccess` — "once all have succeeded".
* `OneProcessPerRank` — a rank's process is replaced only after it was waited for.
* `ImplementsBarrier` — refinement of `GlobalBarrier`. A rank is in `entered` from its
  packet to the controller's release, in `released` from there to its return. It covers
  the first barrier of `MPI_Init` and that of each recovery, the counters' resets
  between them, and failures in between.
* `JobCompletes` — the job is shut down in the end, whatever fails.

Properties of `ProgressEngine`:

* `TypeOK`.
* `NonOvertaking` — MPI's order of messages and of receives (`SimpleMatcher::progress`).
* `ReceivesOneMessage` — a filled buffer is not written again.
* `MatcherCatchesUp` — no matching pair stays in the two queues, as long as handlers return.
* `RequestInUse` — no request is in the pool while a queue, a thread or the user can reach
  it (`MPI_Request_free` against `Request::release` and `halt`).
* `CleanupNotReceived` — no receive takes the message of cleanup, which has no payload
  (`UDPTransport::fill` would follow a null pointer), if it names its peer.
* `SuccessHasMessage` — a receive that a failure ended does not pass for a success.
* `FailureEndsWait` — after the handler's cleanup no user sleeps for ever on a receive.
* `OnlyNewMessages` — "clear all queues".
* `WaiterIsNotified` — "check if anyone is waiting on it".

Properties of `Collectives`:

* `TypeOK`.
* `CallsDoNotMix` — a receive finds a message of its own call, also among those that are made
  again after a failure that left nothing behind.
* `BarrierSynchronises` — nobody leaves `MPI_Barrier` before all have entered, a failure or not.
* `ResultsCorrect` — what a call leaves in the buffer is `Reduction` of all operands, or the
  root's operand. `Reduction` is defined over the set of operands, without tree and order.
* `PoolsIntact` — an item of a pool is never free and in use, or given out twice; no header is
  lost; no two queued headers share a payload, although entries of `payload_buffer` outlive
  their headers, headers are dropped for their epoch and a restart makes new pools.
* `NothingLeaks` — without a failure no payload is lost either. Two drops lose one, and are
  excluded: messages of an older epoch after a failure, and the answer to a synchronous
  send, which nobody receives, when a checkpoint comes before its arrival.
* `DupReturnsNew` — the communicators an application holds differ in their contexts, and
  ranks agree, with handles from `MPI_Comm_dup`, from the serialize handlers or from a file.
* `ProgramCompletes` — nobody waits for a message that nobody sends, and after a failure
  that left nothing behind everybody comes to the end of the program.

### Bounds

`LastEpoch` (checkpoints taken) and `MaxFaults` (failures) bound the exploration in
guards of `checkpoint_write_open`, `MPI_Finalize` and `Fail`; all other values follow.
Two checkpoints allow a rank to be ahead of, level with or behind the failed one, and
a restart in an epoch above 0 whose checkpoint is not the newest; with 3 ranks on
2 nodes one node keeps a survivor and one may lose all its processes; with 3 nodes
the controller's counters pass through values that are neither first nor last.
`recovery_any` has one rank per node and uses that the ranks may be exchanged
together with their nodes (symmetry; it checks no liveness).

Sizes of the largest runs: `recovery_any` 630,000 distinct states, `engine_matching` 460,000,
`engine_failure` 690,000, `collectives` 230,000, each in about a minute.

Two overlapping failures are not part of a passing run: exploration shows that the
counting of cleanups does not cope with them (section 6).

`ProgressEngine`: `MaxRequests` 3 leaves two for the user and one for the handler, which is
enough for two receives in either order with two messages; `MaxMessages`, `MaxEpoch` and
`MaxSignals` bound the environment. One peer is enough, as matching compares messages of
one source. One signal is enough for an interruption at any place (`SignalPoints`); a
recovery may follow it. A second signal while the flag is set, which `RaiseSignal` allows, needs
`MaxSignals` above 1: it is part of what `EngineProofs` covers, and of no run.

`Collectives`: two calls show what a rank that runs ahead does to the next call; three ranks
with every root, and five ranks, make the tree of `MPI_Reduce` incomplete in different
places. One failure (`MaxRestarts`) of rank 1, at any of its steps; programs of two ranks put a dup, a broadcast or a barrier before and
after one or two checkpoints, those of three a tree. The rank that hands out contexts fails in
`restarted_contexts`. `ArenaSize` 1 makes the pools grow; `Width` 8 is wide enough for the sums of
the operands, so that a wrapped sum is not mistaken for a right one.

`recovery_quiet` checks deadlock: only the end of the job stops it. The other runs
switch it off: an application without synchronisation can leave a rank waiting for
ever (it may finish while the others recover), and a daemon may have raised.
`engine_matching` checks deadlock. `engine_failure` does not: the handler may interrupt a
user that holds the guard of the matcher or of the outbox, wait for the progress thread,
which waits for that guard (a hazard in the list; no document claims otherwise, and the
liveness properties are stated for handlers that return). In `collectives` a program ends,
and `ProgramCompletes` says that it does not stop before.

### Fairness

`FairSpec` has weak fairness of every process: the operating system schedules the
processes and delivers signals, and select serves each ready connection in each turn of
its loop. It is stated per process, not per action: a daemon is not promised to take a
certain connection first. No fairness makes a process fail. With `Lockstep`, a rank that
waits for the others in an application's collective call is disabled until they come.

In `ProgressEngine` the user's steps inside a call, the delivery of a signal, the handler and
the progress thread are weakly fair: threads are scheduled. The user's next call, messages
of peers and failures are not. In `Collectives` it is enough that as long as some
thread can go on, one does.

## 4. Findings

1. **The failed rank's epoch is missing from the minimum** (`commit_minimum`). On a node
   with survivors the head reports the minimum of the survivors; a failed rank one
   checkpoint behind is restarted in an epoch it never wrote a checkpoint for, and
   `checkpoint_read` throws. With one rank per node, the failed epoch does enter the
   minimum, and `recovery_any` shows the property.
2. **The agreed epoch is overwritten** (`restart_epoch`). The restarted process reads
   its epoch from its own file after the barrier. Ahead of the minimum, it leaves the
   barrier in another epoch than the survivors.
3. **Restart goes to running processes' fault daemons** (`second_recovery`). Entries
   are never removed from `fault_daemons`, as the TODO at that place says.
4. **Exits before a recovery stay counted** (`late_failure`). The job is shut down while
   a restarted rank runs.
5. **Received headers survive a recovery** (`stale_message`). `halt` clears the posted
   receives only. After a rollback the epoch of a queued header is current again, and a
   receive takes the old message.
6. **The handler shares the condition variable of the call it interrupts**
   (`stolen_wakeup`). The two notifications reach the wrong frames, and both sleep.
7. **The counter of contexts is not restored** (`restarted_contexts`). After rank 0
   restarts, `MPI_Comm_dup` gives the contexts of live communicators again, and returns the
   handle of the older one. When another rank restarts, `collectives` shows the property.
Three more disagreements have no run of their own: the properties of the passing runs are stated
without the case, and each is found in seconds when it is let in.

* *A checkpoint is emptied that the epoch file names.* A survivor that goes back to an older epoch
  (`wait_commit`) keeps its epoch file, which is "needed in case process dies"
  (`mpistages.cc:335`). When it writes that epoch's checkpoint again, line 309 empties the one that the
  epoch file names, and if it dies before line 330, its fault daemon reports an epoch whose
  checkpoint is gone. Two ranks on two nodes with `LastEpoch = 1`, `MaxFaults = 2`,
  `FailWhen = "any"`, under `Spec`: `ReportedEpochIsDurable` is violated. This is why the theorem about it
  has the hypothesis `MaxFaults <= 1`, and `recovery_any` one failure.
* *The answer to a synchronous send comes back to the receiver.* "return ACK message"
  (`blockingprogress.cc:193`) sends it with the receive's own request: to the receiver, with the
  sender's name, tag and context. The next receive from that sender may take it for its message, and is
  complete without data. Two messages of mode `"Ssend"` from rank 0 to rank 1, no failure:
  `CallsDoNotMix` and `ResultsCorrect` without the hypothesis `AnswersUnclaimed` are violated.
* *A receive survives the failure that should end it.* "invalidate all requests"
  (`simplematcher.cc:150`) covers those that are posted when cleanup looks (line 136). A signal in `MPI_Start`,
  between the flag's test and `push_back`, comes before the receive, which is posted behind the look.
  `MPI_Wait` returns at its own test of the flag, `MPIX_Checkpoint_read` clears nothing, and after the
  recovery the receive takes the first message of a repeated call; the receive of that call takes
  the next one, or waits for ever. One `MPI_Bcast` from rank 0 on three ranks, a failure of rank 1:
  `ProgramCompletes` is violated when `Leftovers` does not count posted receives.

## 5. What is proved

`RecoveryProofs` holds for every layout that satisfies `LayoutAssumption` (finite sets,
every node hosts a rank), every number of checkpoints and failures, with or without
synchronisation (`ApplicationAssumption`).

* `TypeCorrect`: `Spec => []TypeOK`. Two lemmas about the connections (a packet of the
  right kind keeps a channel typed, and so does taking one), then one lemma per component,
  one step per action.
* `Durable`: `Spec => []ReportedEpochIsDurable`, if `MaxFaults <= 1`. The property speaks of
  processes that have died, and is not inductive. The strengthening `DurableInv` has two parts.
  `FileAt` says of every step of `checkpoint_write` what is in the two files: the epoch file names an
  epoch whose checkpoint is complete, or is empty; the exception is a process that writes this very
  checkpoint again, after a failure. `Fresh` says that the exception does not come earlier: before
  the first failure nobody has been told to go back, so that no process is behind its epoch file
  and each opens a checkpoint that is not named yet; no packet or signal of a recovery
  exists (`AllClean`, `Untouched`). After the one failure processes may go back and write old
  checkpoints again, but none exits with 101 any more. Section 4 shows the second failure.
* `OneProcess`: `Spec => OneProcessPerRank`. The invariant is that a fault daemon
  that waits for a decision has reaped its process (`DecisionAfterWait`): then the
  stale `restart` packets of finding 3 are harmless for this property.

The rest of `RecoveryProofs` holds for every number of nodes with one rank each
(`OneRankPerNode`), every number of checkpoints, with or without synchronisation, and at most one
exit with status 101 (`MaxFaults <= 1`), at any point of its own and of the other processes' work:
the case of `recovery_any`, without its bounds. The assumptions are hypotheses of the three
theorems. The argument needs both: with several ranks on a node the head counts their reports,
and a second failure may come in between two of them.

* `RecoveriesAgree`: `Spec => []RecoveryEpochsAgree`. The property compares two processes that
  were told to recover over different paths, one over its head daemon, the other over its fault
  daemon and the environment of a new process. `AgreementInv` follows the recovery from its cause.
  A failure is in one place: the exited process, the packet of its fault daemon, that of its head
  (`OneFailure`). Until it arrives nobody reports and nothing is decided (`Idle`). Each node has one
  report to make, which is a request, a signal, the packet of the handler, or that of the head
  (`OneReport`), and so the reports that the controller has counted and those still to come are no
  more than the nodes (`ReportInv`). Hence the commit is sent when no report is outstanding, and
  no second one follows: every place an epoch of the decision can be in, from the commit over
  both paths to the barrier, holds the same one (`DecisionInv`). One lemma per action; those that
  add nothing to a stage follow from `Fewer`, which says so of the connections.
* `RestartsFindTerminated`: `Spec => []RestartOnlyTerminated`. Entries of `fault_daemons` outlive
  the process they are about, so that an entry does not mean that a fault daemon waits.
  `RestartInv` says that it does (`Told`), or that the commit is past and no other comes
  (`NoneToCome`), which stays true because `AgreementInv` keeps a recovery that is `Over` over.
* `CommitsAreReached`: `Spec => []CommitReachedByAll`. `ReachInv` follows an epoch from the files to
  the commit. A process is never ahead of its epoch file (`FilesAt`). What a failure reports is in
  the file of the one process that failed, and no node that has to report is told another epoch
  (`FailuresReached`). A report is of an epoch that the process of the node has reached
  (`ReportReached`), the minimum so far is one that all counted nodes have reached
  (`CountReached`), and the commit is made when all nodes are counted (`DecisionsReached`). A process only goes back to a
  decision (`LimitMoves`), and then nobody reports any more. The hard case is a head daemon that has
  no process and repeats the epoch it is told: its process failed itself, or had finished, or has
  been asked before (`EndAt`), but it may not be one that has not yet registered. That one would
  still be in the first barrier, which opens to nobody before all are registered, so that none can
  have failed: this is `StartInv`, an invariant of its own.

`QuietProofs` holds for every layout, with any number of ranks on each node, and every number of
checkpoints, for an application that synchronises and at most one exit with status 101 while every
rank computes in one epoch (`QuietCase`: the case of `recovery_quiet`, without its bounds). The
other runs and findings 1 to 3 show what becomes of these properties without it.

The strengthening is a description of the whole job, `QuietInv`: the epoch of every process is that of its file
and, before its barrier, that of its fault daemon (`EpochsInOrder`), and the job is in one of seven
phases (`Phase`). A phase says of every rank in which of eleven states it is, the connections to
both daemons included (`Launching`, `Knocking`, `Inside`, ..., `Settled`), and of every daemon what its counters are:
the cardinality of a set of ranks, or of nodes, that have been counted. `Starting(W, D)` and
`Returning(f, e, W, D)` fill the barrier (the ranks `W` have been counted by their heads, the nodes
`D` by the controller), `Open(e)` is left by the ranks and is where they compute, `Failing(f, e)` and
`Reporting(f, e, C, D)` take the failure of `f` to the controller and the epochs of the survivors `C`
and nodes `D` back, `Finishing(E, D)` counts successes, `Stopping` stops the daemons. One lemma per
phase proves that a step leads to the same phase or to the next one (`StartingStep`, ...,
`StoppingStep`), over lemmas about what a step of one rank in one state does (`LaunchingMoves`,
..., `SettledMoves`) and about what each counter of a daemon does (`FillingCounts`,
`ReportingCounts`, `FinishingCounts`, ...). That a count is complete exactly when the set is rests
on `OneMore`, a lemma about cardinalities.

* `DaemonsNeverRaise`: `Spec => []NoDaemonRaises`. In every phase each packet finds the entry, the pid
  and the exit status that its handler asks for.
* `ShutdownAfterSuccess`: `Spec => []ShutdownOnlyAfterSuccess`: "shutdown" is only under way in
  `Stopping`, and the only way there is a count of all successes.
* `QuietRecoveriesAgree`, `QuietCommitsAreReached`, `QuietRestartsFindTerminated`: the three properties
  that `RecoveryProofs` proves for one rank per node, here for any layout.
* `RestartsInAgreedEpoch`: `Spec => RestartInAgreedEpoch`. A restarted process takes its epoch from the
  checkpoint and again from the epoch file; both are the epoch of the decision, because every
  decision names the epoch of the rank it reaches (`PhaseDecided`).
* `BarrierImplemented`: `Spec => ImplementsBarrier`, the refinement of `GlobalBarrier`. In `Open` all that wait
  have their "release" under way and nobody enters (`Opened`); in the other phases there is no
  "release" and who waits stays (`Closed`). `BarrierStep` is the step simulation: enter, open with
  all inside, leave, or none of them.

`EngineProofs` holds for every number of peers, requests,
messages and signals, every set of tags and of receives, wildcards included. It uses
`EngineAssumption`, and one theorem one assumption more, named there.

* `EngineInvariant`, with `EngineTypeOK` and `RequestsInUse`: `Spec => []RequestInUse`, no use
  after free of a request. The property speaks of the moment of the free only, and is not
  inductive. `EngineInv` is types, a count of recoveries, and `Ownership`: a request has one
  owner at a time, which is the frame that makes it, then a queue (`OneQueue`), then the
  progress thread (`ProgressPlaces`), then the frame that waits for it (`FramePlace`,
  `FramesApart`, since the handler has frames of its own). Once a request is complete,
  only the progress thread may still know it, while it holds its guard (`Completed`); one that
  is free is in no queue (`NotFree`). The hand over is the hard
  part: the waiter's fast path reads `complete` without the lock, while `release` holds it.
* `MessagesDoNotOvertake`: `Spec => []NonOvertaking`. Matching keeps the order because both queues
  are in the order of posting and arrival (`Order`, which the append of each preserves, and the
  removal from the middle), the progress thread takes the least match (`TakesOldest`, from the
  lemma `FirstMatchFits`), and so what has been taken is older than what is queued and fits
  (`PostedInOrder`, `OldestTakes`). One lemma per action; those that leave the matcher alone follow
  from `MatchKept`.
* `MessagesStay`: `Spec => ReceivesOneMessage`, because a posted receive has no message yet
  (`FreshEmpty`), and only posted receives are matched.
* `SuccessIsDelivered`: `Spec => []SuccessHasMessage`, if the application does not use the tag of
  cleanup. `DeliveryInv` says that a receive that `progress` has matched has its message when it
  is released, and that in a process that no failure has disturbed there is no message of
  cleanup and every completed receive has its message (`NoCleanup`). It holds before the first recovery only, because a late message of cleanup
  ends receives of the next epoch; the property says so.
* `CleanupStaysQueued`: `Spec => []CleanupNotReceived`, if besides every receive names a peer or
  a tag: the message of cleanup comes from the process itself, with a tag nobody asks for.

`PoolProofs` holds for every program, every number of ranks, of failures and of checkpoints, and
every `ArenaSize`.

* `PoolsStayIntact`: `Spec => []PoolsIntact`. Lemmas about the pool first: what `allocate`
  gives out is not free any more and was not in use, also when it adds an arena, and what
  `deallocate` takes back is. Then what queueing, dropping and releasing a header do to a pool
  and its queue (`HeadersGood`), and storing and freeing a payload to `payload_buffer`
  (`PayloadsGood`). The invariant adds that datagrams without payload are of cleanup
  (`NetworkGood`), and the proof needs that a receive, whose tag is 0, takes none of them.

`CallProofs` holds for every program of calls on `MPI_COMM_WORLD`, every number of ranks, of
checkpoints, and of failures at any point of the calls. Its theorems
about `Collectives` have one hypothesis, `WorldCalls`: each call is on that communicator, and its
schedules *fit* (`Fits`), which means that every rank receives from every other as many messages
as that one sends to it.

* `SchedulesFit`: `Fits` holds of barriers, broadcasts from any root, duplications, shifts and single
  messages, for any number of ranks. What a tree of `MPI_Reduce` sends depends on the bits of the
  ranks, through two filters of a sequence of powers; that it fits is `ReductionsFit` in `MCCollectives`, evaluated
  for every root and up to nine ranks. The synchronous mode does not fit, as its answer goes back
  to its receiver, and a call on a duplicate takes its size and its context from `communicators`:
  both are in the programs that TLC runs, and not in these theorems.
* `WorldCallsDoNotMix`: `Spec => [](WorldCalls => CallsDoNotMix)`. The invariant, `CallInv`, sees the
  messages from one rank to another as a pipeline. In each call, what the sender has sent by now is
  what the receiver has taken in that call, and what is queued or on its way and carries the call's
  number (`PairAt`), and queue and channel hold the messages in the order of their calls
  (`OrderInv`). The receiver cannot take a message of a later call: an older one would have to be
  missing, and the counts say that it is there (`FoundOwn`). It cannot find one of an earlier call
  either: it has taken as many as were sent, because the schedules fit.

  Failures are what makes it hard. Receives and sends that an interrupted call has left are only in
  ranks that have been told of a failure, until a recovery, and after one that is not disturbed
  there is none (`LeftInv`): before and after, a receive meets only messages that nobody else
  wants. Of a rank that is told the theorem says nothing, and it takes no part in the counts. A rank that has failed, or whose call has ended with an error
  (`Stopped`), takes no part in the pipeline any more, but what it had sent is still there. A recovery takes all ranks
  back to the checkpoint of one epoch, and must not find a message of that epoch or a later one;
  what it leaves is older, and a receiver may drop it or not (`Live`). So the invariant also says which
  call a file belongs to (`FilesInv`), that a rank's epoch is the number of checkpoints among its calls
  (`EpochOf`), and that the message of cleanup is on its way only in a rank that has been told of a
  failure (`WireInv`). TLC checked it on small programs before it was proved. One lemma per action,
  `RecoveryKeeps` among them.
* `WorldBarrierSynchronises`: `Spec => [](WorldCalls => BarrierSynchronises)`. A rank that has returned has
  taken two messages from its left neighbour; that neighbour has sent them, and so on around the ring.
  By `CallInv` what a rank has taken is bounded by what its neighbour has sent, and by the code's order what a
  rank other than 0 has sent is bounded by what it has taken (`BarrierCounts`). Hence counts do not
  grow along the ring (`NeverGrows`, by the first rank where they would),
  and rank 0 has sent its second message only after its first one came around.
* `WorldCallsLeakNothing`: `Spec => [](WorldCalls => NothingLeaks)`. A header that is dropped takes its
  payload with it; the only header that can be dropped without a failure is one that comes to a rank of a
  later epoch, and there is none (`ArrivesInTime`): by `CallInv` a rank has taken every
  message of the calls it has finished. So each payload is free or belongs to a queued header (`LeakInv`).

`DataProofs` holds for the same programs.

* `WorldCallsMoveData`: `Spec => [](WorldCalls => MovedCorrectly)`, and `PlainResultsCorrect`, the same for
  programs without reductions in the words of `ResultsCorrect`. Three facts make it up. What a rank
  sends in a broadcast, a shift or a message is what it began the call with, because in each of these
  schedules the only receive is the last step (`Carries`, one lemma per call). What is on its way from
  one rank to another (`WireData`) or queued there (`QueueData`) carries what its sender had in its buffer
  (`Told`); for the queue the proof needs that the pool gives out no payload twice, so that storing or freeing one
  leaves those of the other headers as they are (`PostedPayloads`, `MessagesKept`, from `PoolsStayIntact`).
  And what a receive finds is of its own call (`FoundOwn`), so that it brings the operand of the right sender.
  The attempt to prove it for a failed rank failed for a good reason: the variables of a rank that
  has failed belong to the call that it was in, so the property does not speak of that rank until
  it is restarted.

`CommunicatorProofs` has a theorem for more programs and one for fewer failures.

* `WorldTypesOK`: `Spec => [](AddressedCalls => TypeOK)`. `AddressedCalls` asks of a program only that its calls
  are on the world and that their steps name ranks that exist: the counts need not fit, synchronous
  messages are allowed, and the theorem also holds after a recovery that was disturbed. What makes it more than bookkeeping
  is the failures. An epoch is at most the number of checkpoints among the completed calls
  (`CountTypes`), and it must stay so when a recovery takes the count from one file and the epoch
  from another: files of all earlier epochs exist, and the one of epoch `k` is of checkpoint `k + 1`
  (`FileTypes`). The headers in memory are those queued, dropped ones and those of a restarted
  process included (`MessageTypes`). Handles stay within the table of communicators because that only grows
  while a process lives, and a restarted one finds in its file the table of the epoch that all
  return to (`RangeInv`); a disturbed recovery breaks exactly this, and the property says so.
* `WorldDupReturnsNew`: `Spec => [](WorldCalls /\ 0 \notin MayFail(calls) => DupReturnsNew)`. Rank 0 draws
  the contexts from a counter in its memory, which starts again when its process does: with its failure the
  property is false (finding 7), and it is the one rank that the theorem excepts. The invariant, `DupState`, is
  about one sequence, `Numbers`: the contexts of the communicators that rank 0 holds, and the one that it
  has drawn in the call that it is in. It ascends and never passes the counter (`Ascending`). Every rank
  holds one communicator for each duplication that it has completed (`Lens`, over `Held`, a cardinality of calls), and its `i`-th
  has the `i`-th number (`HandlesAgree`). A step of one rank can break this in several places, so the
  invariant says more. The number of a call that a rank has yet to finish is on its way: the
  first message from rank 0 in that call brings it, whether it is in the channel or queued (`Coming`, over
  `Comes`), and a rank that has taken it still has it (`Has`); that it cannot be confused with the
  second message of the same call, which brings the other context, follows from the order of messages
  in `CallInv`. A recovery takes handles from files, the surviving ranks by looking up the serialized contexts, the
  restarted one with the table of its file: so the handles of every file have these numbers too, in the table
  of the process and in that of every later file (`FilesAlike`, `Noted`), and a recovery that is not disturbed
  takes all ranks back to one call (`RecoverRestores`), so to equally many communicators. And rank 0 is
  not behind: a rank completes a duplication only with a number that was drawn (`Behind`, from
  the counts of `CallInv`). A rank that gives up a call, or is taken back, forgets numbers but never
  gets another one for the same place: the number that rank 0 draws when it makes the call again is
  larger, and no message and no handle of the first attempt is left (`NobodyHasNext`, `RestoredMessages`).
  A receive that an interrupted duplication has left posted takes a number away, but from a rank that
  has been told of the failure and reads nothing before the recovery (`Reads`, `AbandonedDup`).

Model-checked only: liveness under fairness (`JobCompletes`, `FailureEndsWait`,
`MatcherCatchesUp`, `ProgramCompletes`), for which the prover has no rules. Of `Collectives`
also `ResultsCorrect` for
reductions, whose values a fold computes over a tree of any depth. And the
properties of `CallProofs` for calls on duplicates and for synchronous messages. No module
declares a recursive operator, so that the safety properties are all open to proof.

## 6. What is not modelled, and what is left

Not modelled for good: the TCP transport (compiled, but never constructed), `mpiexec`, `mpicc`,
`exampi_clean` (process creation without protocol state), the C bindings (forwarders),
datatype tables, argument checks, configuration and debug output, vendored code.

Left out of modelled components, with the reason:

* *Lost and reordered datagrams*: no code reacts to them. There is nothing to retry or to
  acknowledge, and a receive waits for ever.
* *The copy of a buffered send*, `MPI_Get_count`, statuses: data that no property tells apart.
* *`MPI_Test`* casts the handle to a request, which it is not; the result is undefined.
* *Persistent requests*: no C binding reaches them. *Group handles*: no call makes a group.
* *The application's tag 1* ends receives like the cleanup message, and a handler may wait for a
  guard of the frame it interrupts: both are in the list of hazards without a property, as no
  document of the repository claims otherwise. The same holds for the duplicate of a duplicate
  (which throws) and for a barrier interrupted between its queries of rank and size.

Left to do:

1. *Overlapping failures.* A second process that fails during a recovery: exploration shows that
   the counting of cleanups and epoch packets does not cope with it. What is missing is a claim
   that the code can keep, and an abstract specification of recovery (all ranks leave epoch `e`
   or later and meet in the minimum), implemented by `Recovery` for one rank per node.
2. *Proofs of one failure at any point*: `QuietProofs` asks that the ranks compute when one of them
   fails, the theorems of `RecoveryProofs` about agreement that each has a node of its own. The barrier for the latter is left to `recovery_any`.
3. *Proofs of the reductions*: the operators are commutative and associative, so that the order of
   the tree does not matter.
4. *Proofs of calls on duplicates*: `CallProofs` without `WorldCalls`. `WorldDupReturnsNew` gives the contexts
   of the communicators that such calls would name.
