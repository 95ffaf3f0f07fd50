------------------------------ MODULE RankProcess ------------------------------
(***************************************************************************)
(* An application process linked with the MPI-Stages library, as far as    *)
(* the recovery protocol is concerned: StagesInterface (MPI_Init,          *)
(* MPIX_Checkpoint_write, MPIX_Checkpoint_read, checkpoint_read), the      *)
(* library's Daemon client and FaultHandler's SIGUSR2 handler.             *)
(*                                                                         *)
(* The application is external to the repository. It takes LastEpoch       *)
(* checkpoints, calls MPIX_Checkpoint_read when a call returned            *)
(* MPIX_TRY_RELOAD, and may exit with MPIX_TRY_RELOAD (101), the one       *)
(* status the runtime recovers from. Lockstep says whether it synchronises *)
(* all ranks before a checkpoint and before MPI_Finalize.                  *)
(***************************************************************************)
EXTENDS RuntimeNet

CONSTANTS
    LastEpoch,  \* the checkpoints the application takes
    MaxFaults,  \* how many exits with status 101 a behaviour may have
    Lockstep,   \* the application synchronises around its checkpoints
    FailWhen    \* when a process may exit with status 101

ASSUME ApplicationAssumption ==
    /\ LastEpoch \in Nat
    /\ MaxFaults \in Nat
    /\ Lockstep \in BOOLEAN
    /\ FailWhen \in {"any", "quiet"}

VARIABLES
    pc,             \* where the process is
    epoch,          \* Universe::epoch
    is_errSet,      \* FaultHandler::is_errSet
    handler,        \* the SIGUSR2 handler is installed
    checkpoints,    \* the k for which the file k.rank.cp is complete
    torn,           \* the k whose file was opened, and so emptied, but not completed
    epoch_file,     \* what the epoch file holds, None when it is empty
    faults          \* exits with status 101 so far (bounds the exploration)

rankVars == <<pc, epoch, is_errSet, handler, checkpoints, torn, epoch_file, faults>>

\* Blocked in Daemon::recv_barrier_release, called from MPI_Init in epoch 0,
\* from checkpoint_read and from MPIX_Checkpoint_read.
InBarrier == {"init_barrier", "restore_barrier", "reload_barrier"}
\* In MPIX_Checkpoint_write: while the checkpoint file is open, after it is closed, after
\* the flag was found unset, and while the epoch file is open.
InCheckpoint == {"saving", "written", "counting", "naming"}
Locations == {"launched", "initialized", "run", "wait_commit"} \cup InCheckpoint \cup InBarrier

RankTypeOK ==
    /\ pc \in [Ranks -> Locations]
    /\ epoch \in [Ranks -> Nat]
    /\ is_errSet \in [Ranks -> BOOLEAN]
    /\ handler \in [Ranks -> BOOLEAN]
    /\ checkpoints \in [Ranks -> SUBSET Nat]
    /\ torn \in [Ranks -> SUBSET Nat]
    /\ epoch_file \in [Ranks -> Nat \cup {None}]
    /\ faults \in Nat

RankInit ==
    /\ pc = [r \in Ranks |-> "launched"]
    /\ epoch = [r \in Ranks |-> 0]
    /\ is_errSet = [r \in Ranks |-> FALSE]
    /\ handler = [r \in Ranks |-> FALSE]
    /\ checkpoints = [r \in Ranks |-> {}]
    /\ torn = [r \in Ranks |-> {}]
    /\ epoch_file = [r \in Ranks |-> None]
    /\ faults = 0

At(r, l) == proc[r] = "alive" /\ pc[r] = l
Goto(r, l) == pc' = [pc EXCEPT ![r] = l]

\* A fault daemon starts a new process for rank r in epoch e: fresh memory, a
\* new connection to the head, the files of the previous process.
Launch(r, e) ==
    /\ pid' = [pid EXCEPT ![r] = @ + 1]
    /\ proc' = [proc EXCEPT ![r] = "alive"]
    /\ pending' = [pending EXCEPT ![r] = FALSE]
    /\ rank_in' = [rank_in EXCEPT ![r] = <<>>]
    /\ Goto(r, "launched")
    /\ epoch' = [epoch EXCEPT ![r] = e]
    /\ is_errSet' = [is_errSet EXCEPT ![r] = FALSE]
    /\ handler' = [handler EXCEPT ![r] = FALSE]
    /\ UNCHANGED <<exit_code, rank_out, checkpoints, torn, epoch_file, faults>>

--------------------------------------------------------------------------------
(***************************************************************************)
(* MPI_Init and the daemon barrier.                                        *)
(***************************************************************************)
BarrierPacket(r) == [type |-> "barrier", pid |-> pid[r]]

\* MPI_Init: in epoch 0 the world is built, otherwise checkpoint_read loads the
\* checkpoint of the previous epoch, whatever is in a file that was not completed; both
\* send "barrier" and wait.
MPI_Init(r) ==
    /\ At(r, "launched")
    /\ \/ epoch[r] = 0 /\ Goto(r, "init_barrier")
       \/ /\ epoch[r] > 0 /\ epoch[r] - 1 \in checkpoints[r] \cup torn[r]
          /\ Goto(r, "restore_barrier")
    /\ rank_out' = Push(rank_out, r, BarrierPacket(r))
    /\ UNCHANGED <<rank_in, fdNet, headNet, osVars,
                   epoch, is_errSet, handler, checkpoints, torn, epoch_file, faults>>

\* checkpoint_read throws when the checkpoint file cannot be opened, and nothing
\* catches it. What is loaded of a file that was not completed is undefined and may end
\* the process as well.
checkpoint_read_throws(r) ==
    /\ At(r, "launched")
    /\ epoch[r] > 0 /\ epoch[r] - 1 \notin checkpoints[r]
    /\ Exit(r, OtherExit)
    /\ UNCHANGED <<rankNet, fdNet, headNet, rankVars>>

\* checkpoint_read reads Universe::epoch from the epoch file after the barrier; an
\* empty file leaves it as it is. (A mutant takes the number of the file it loaded.)
EpochOfLoadedCheckpoint(r) ==
    IF pc[r] = "restore_barrier" THEN epoch[r] - 1 ELSE epoch[r]
EpochAfterBarrier(r) ==
    IF pc[r] = "restore_barrier" /\ epoch_file[r] # None THEN epoch_file[r] ELSE epoch[r]

\* Daemon::recv_barrier_release takes the next packet, whatever it is: a packet
\* other than "release" makes it return 1, which no caller looks at.
recv_barrier_release(r) ==
    /\ proc[r] = "alive" /\ pc[r] \in InBarrier
    /\ rank_in[r] # <<>>
    /\ rank_in' = Pop(rank_in, r)
    /\ epoch' = [epoch EXCEPT ![r] = EpochAfterBarrier(r)]
    /\ Goto(r, IF pc[r] = "reload_barrier" THEN "run" ELSE "initialized")
    /\ UNCHANGED <<rank_out, fdNet, headNet, osVars,
                   is_errSet, handler, checkpoints, torn, epoch_file, faults>>

\* The application installs the handler after MPI_Init. (A mutant does not.)
set_errhandler_without_handler(r) ==
    /\ At(r, "initialized")
    /\ Goto(r, "run")
    /\ UNCHANGED <<rankNet, fdNet, headNet, osVars,
                   epoch, is_errSet, handler, checkpoints, torn, epoch_file, faults>>
MPI_Comm_set_errhandler(r) ==
    /\ At(r, "initialized")
    /\ handler' = [handler EXCEPT ![r] = TRUE]
    /\ Goto(r, "run")
    /\ UNCHANGED <<rankNet, fdNet, headNet, osVars,
                   epoch, is_errSet, checkpoints, torn, epoch_file, faults>>

--------------------------------------------------------------------------------
(***************************************************************************)
(* Checkpoints. MPIX_Checkpoint_write checks the error flag on entry and   *)
(* again after the file is written. To open a file for writing empties it. *)
(* A signal may arrive, and the process may die, between any two of the    *)
(* steps.                                                                  *)
(***************************************************************************)
\* A rank that synchronises in MPI finds every other rank at least as far.
Synchronised(r) ==
    Lockstep => /\ ~is_errSet[r]
                /\ \A q \in Ranks :
                     /\ epoch[q] >= epoch[r]
                     /\ proc[q] # "alive" => exit_code[q] = Success
                     /\ pc[q] \in {"run"} \cup InCheckpoint

\* The file is named after the epoch that it ends.
WrittenCheckpoint(r) == epoch[r]

\* Opens and empties the checkpoint file. (A mutant names the epoch before its checkpoint
\* is written.)
name_epoch_first(r) ==
    /\ At(r, "run")
    /\ ~is_errSet[r]
    /\ epoch[r] < LastEpoch
    /\ Synchronised(r)
    /\ epoch_file' = [epoch_file EXCEPT ![r] = epoch[r] + 1]
    /\ checkpoints' = [checkpoints EXCEPT ![r] = @ \ {WrittenCheckpoint(r)}]
    /\ torn' = [torn EXCEPT ![r] = @ \cup {WrittenCheckpoint(r)}]
    /\ Goto(r, "saving")
    /\ UNCHANGED <<rankNet, fdNet, headNet, osVars, epoch, is_errSet, handler, faults>>
checkpoint_write_open(r) ==
    /\ At(r, "run")
    /\ ~is_errSet[r]
    /\ epoch[r] < LastEpoch
    /\ Synchronised(r)
    /\ checkpoints' = [checkpoints EXCEPT ![r] = @ \ {WrittenCheckpoint(r)}]
    /\ torn' = [torn EXCEPT ![r] = @ \cup {WrittenCheckpoint(r)}]
    /\ Goto(r, "saving")
    /\ UNCHANGED <<rankNet, fdNet, headNet, osVars,
                   epoch, is_errSet, handler, epoch_file, faults>>

\* Writes and closes it.
checkpoint_write_file(r) ==
    /\ At(r, "saving")
    /\ checkpoints' = [checkpoints EXCEPT ![r] = @ \cup {WrittenCheckpoint(r)}]
    /\ torn' = [torn EXCEPT ![r] = @ \ {WrittenCheckpoint(r)}]
    /\ Goto(r, "written")
    /\ UNCHANGED <<rankNet, fdNet, headNet, osVars,
                   epoch, is_errSet, handler, epoch_file, faults>>

checkpoint_write_check(r) ==
    /\ At(r, "written")
    /\ Goto(r, IF is_errSet[r] THEN "run" ELSE "counting")
    /\ UNCHANGED <<rankNet, fdNet, headNet, osVars,
                   epoch, is_errSet, handler, checkpoints, torn, epoch_file, faults>>

\* Counts the epoch, and opens and empties the epoch file.
checkpoint_write_epoch(r) ==
    /\ At(r, "counting")
    /\ epoch' = [epoch EXCEPT ![r] = @ + 1]
    /\ epoch_file' = [epoch_file EXCEPT ![r] = None]
    /\ Goto(r, "naming")
    /\ UNCHANGED <<rankNet, fdNet, headNet, osVars,
                   is_errSet, handler, checkpoints, torn, faults>>

\* Writes and closes it.
checkpoint_write_close(r) ==
    /\ At(r, "naming")
    /\ epoch_file' = [epoch_file EXCEPT ![r] = epoch[r]]
    /\ Goto(r, "run")
    /\ UNCHANGED <<rankNet, fdNet, headNet, osVars,
                   epoch, is_errSet, handler, checkpoints, torn, faults>>

--------------------------------------------------------------------------------
(***************************************************************************)
(* Recovery on the side of a surviving process.                            *)
(***************************************************************************)
\* FaultHandler::setErr runs when SIGUSR2 is delivered and reports the epoch of
\* the process; without a handler the signal's default action terminates it.
setErr(r) ==
    /\ proc[r] = "alive" /\ pending[r]
    /\ IF handler[r]
         THEN /\ is_errSet' = [is_errSet EXCEPT ![r] = TRUE]
              /\ rank_out' = Push(rank_out, r, [type |-> "cleanup", epoch |-> epoch[r]])
              /\ pending' = [pending EXCEPT ![r] = FALSE]
              /\ UNCHANGED <<pid, proc, exit_code>>
         ELSE Exit(r, OtherExit) /\ UNCHANGED <<is_errSet, rank_out>>
    /\ UNCHANGED <<rank_in, fdNet, headNet,
                   pc, epoch, handler, checkpoints, torn, epoch_file, faults>>

\* A call returned MPIX_TRY_RELOAD and the application calls MPIX_Checkpoint_read,
\* which clears the flag and waits for the commit.
MPIX_Checkpoint_read(r) ==
    /\ At(r, "run")
    /\ is_errSet[r]
    /\ is_errSet' = [is_errSet EXCEPT ![r] = FALSE]
    /\ Goto(r, "wait_commit")
    /\ UNCHANGED <<rankNet, fdNet, headNet, osVars,
                   epoch, handler, checkpoints, torn, epoch_file, faults>>

\* The epoch that wait_commit assigns. (A mutant keeps the process's own.)
OwnEpoch(r) == epoch[r]
CommittedEpoch(r) == Head(rank_in[r]).epoch

\* Daemon::wait_commit adopts the epoch of the packet and MPIX_Checkpoint_read
\* enters the barrier; on "release" stoi throws and the process aborts.
wait_commit(r) ==
    /\ At(r, "wait_commit")
    /\ rank_in[r] # <<>>
    /\ rank_in' = Pop(rank_in, r)
    /\ IF Head(rank_in[r]).type = "commit"
         THEN /\ epoch' = [epoch EXCEPT ![r] = CommittedEpoch(r)]
              /\ rank_out' = Push(rank_out, r, BarrierPacket(r))
              /\ Goto(r, "reload_barrier")
              /\ UNCHANGED osVars
         ELSE Exit(r, OtherExit) /\ UNCHANGED <<pc, epoch, rank_out>>
    /\ UNCHANGED <<fdNet, headNet, is_errSet, handler, checkpoints, torn, epoch_file, faults>>

--------------------------------------------------------------------------------
(***************************************************************************)
(* The ends of a process.                                                  *)
(***************************************************************************)
\* MPI_Finalize does not look at the error flag: only an application that
\* synchronises before it notices an error here.
MPI_Finalize(r) ==
    /\ At(r, "run")
    /\ epoch[r] >= LastEpoch
    /\ Synchronised(r)
    /\ Exit(r, Success)
    /\ UNCHANGED <<rankNet, fdNet, headNet, rankVars>>

\* Under FailWhen = "quiet" a process only fails while every rank computes in the
\* same epoch, no checkpoint and no recovery being under way.
MayFail(r) ==
    FailWhen = "quiet" =>
        \A q \in Ranks : /\ At(q, "run") /\ epoch[q] = epoch[r]
                         /\ ~is_errSet[q] /\ ~pending[q]

\* The application process dies with the status the runtime recovers from, while it
\* computes or while it writes a checkpoint. (A process that is in a recovery or in the
\* barrier does not.)
Fail(r) ==
    /\ proc[r] = "alive" /\ pc[r] \in {"run"} \cup InCheckpoint
    /\ faults < MaxFaults
    /\ MayFail(r)
    /\ faults' = faults + 1
    /\ Exit(r, TryReload)
    /\ UNCHANGED <<rankNet, fdNet, headNet,
                   pc, epoch, is_errSet, handler, checkpoints, torn, epoch_file>>

\* The steps a live process takes by itself.
RankStep(r) ==
    \/ MPI_Init(r)
    \/ checkpoint_read_throws(r)
    \/ recv_barrier_release(r)
    \/ MPI_Comm_set_errhandler(r)
    \/ checkpoint_write_open(r)
    \/ checkpoint_write_file(r)
    \/ checkpoint_write_check(r)
    \/ checkpoint_write_epoch(r)
    \/ checkpoint_write_close(r)
    \/ MPIX_Checkpoint_read(r)
    \/ wait_commit(r)
    \/ MPI_Finalize(r)

RankNext == \E r \in Ranks : RankStep(r) \/ setErr(r) \/ Fail(r)
================================================================================
