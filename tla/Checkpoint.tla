------------------------------- MODULE Checkpoint -------------------------------
(***************************************************************************)
(* The content of a rank's checkpoints (src/interfaces/mpistages.cc): what *)
(* save and load keep of groups, communicators and endpoints, and the      *)
(* contexts that the serialize handlers append. The application's own part *)
(* of a checkpoint is how far it has come and the handles it holds; it is  *)
(* written together with the library's.                                    *)
(***************************************************************************)
EXTENDS UDPTransport, Communicators

VARIABLES
    files,          \* of each rank: its checkpoint files, by the epoch in their name
    registered      \* of each rank: its process has registered serialize handlers

checkpointVars == <<files, registered>>

CheckpointInit ==
    /\ files = [r \in Ranks |-> [k \in {} |-> 0]]
    /\ registered = [r \in Ranks |-> TRUE]

NotSerialized == <<>>
File(r, count) ==
    [groups |-> groups[r], communicators |-> communicators[r], cache |-> SavedEndpoints(r),
     count |-> count, handles |-> handles[r], contexts |-> NotSerialized]

\* checkpoint_write replaces the file of its epoch.
write_file(r, epoch, count) ==
    files' = [files EXCEPT ![r] = Stored(@, epoch, File(r, count))]

\* The contexts of the handles, at the end of the file of the epoch that just ended. A
\* second call appends once more, and is never read.
MPIX_Serialize_handles(r, epoch) ==
    LET contexts == [i \in DOMAIN handles[r] |-> get_context_id_pt2pt(r, handles[r][i])]
    IN  files' = IF registered[r]
                 THEN [files EXCEPT ![r][epoch - 1].contexts = @ \o contexts]
                 ELSE files

\* The handles of the contexts that were serialized.
MPIX_Deserialize_handles(r, file) ==
    [i \in 1..Len(file.handles) |-> HandleOf(communicators[r], file.contexts[i])]

\* The handles were not written, or one of the communicators is gone: whatever the
\* handler is given is not what the application had.
HandlesLost(r, epoch) ==
    /\ epoch > 0 /\ registered[r]
    /\ LET file == files[r][epoch - 1]
       IN  \/ file.contexts = NotSerialized
           \/ \E i \in DOMAIN file.handles : ~Known(communicators[r], file.contexts[i])

\* What the application of a rank holds after a recovery in an epoch: a survivor with
\* handlers gets the handles from them, the restarted process, which cannot register any
\* after epoch 0, keeps the numbers that it wrote.
HandlesAfter(r, restarted, epoch) ==
    IF epoch = 0 THEN <<MPI_COMM_WORLD>>
    ELSE IF r = restarted \/ ~registered[r] THEN files[r][epoch - 1].handles
    ELSE IF HandlesLost(r, epoch) THEN <<>>
    ELSE MPIX_Deserialize_handles(r, files[r][epoch - 1])
CountAfter(r, epoch) == IF epoch = 0 THEN 0 ELSE files[r][epoch - 1].count

\* A recovery: survivors keep their communicators. The restarted process builds the world
\* in epoch 0, and loads groups, communicators and endpoints of the last checkpoint
\* otherwise; its counter of contexts starts anew. (The handles are the application's.)
load(restarted, epoch) ==
    LET file == files[restarted][epoch - 1]
    IN  /\ groups' = [groups EXCEPT ![restarted] =
                          IF epoch = 0 THEN <<WorldGroup>> ELSE file.groups]
        /\ communicators' = [communicators EXCEPT ![restarted] =
                          IF epoch = 0 THEN <<WorldComm(restarted)>> ELSE file.communicators]
        /\ nextID' = [nextID EXCEPT ![restarted] = 1]
        /\ registered' = [registered EXCEPT ![restarted] = (epoch = 0)]
        /\ RestartTransport(restarted, epoch, file)
        /\ UNCHANGED files
================================================================================
