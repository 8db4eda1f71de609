-------------------------------- MODULE Log ---------------------------------
(***************************************************************************)
(* The log file of the driver (src/EVhdParser/Log.c): threads append lines *)
(* to one file, whoever finds it too long rotates it, with no lock but the *)
(* flag LogRotationInProgress.  A print above PASSIVE_LEVEL is handed to a *)
(* worker thread.  Driver extends this module with the start and the       *)
(* unloading of the driver.                                                *)
(*                                                                         *)
(* A file is its generation: 1 is the first log file, and each file that   *)
(* Log_StartFileLogging creates has the next number.  Its contents are its *)
(* length.  Files outlive the driver, and the system.                      *)
(***************************************************************************)
EXTENDS Naturals, FiniteSets

CONSTANTS
    Threads,
    Deferred,       \* those that print above PASSIVE_LEVEL
    MaxFileSize,    \* lines
    MaxKepts,       \* values of MaxKeptRotatedFiles
    Limit,          \* the largest suffix that fits the three digits of a name (999)
    Generations     \* bound: nobody prints once this many files were started

ASSUME LogAssumption ==
    /\ IsFiniteSet(Threads) /\ Deferred \subseteq Threads /\ MaxKepts \subseteq Nat
    /\ MaxFileSize \in Nat /\ Limit \in Nat \ {0} /\ Generations \in Nat

VARIABLES
    phase,          \* of the driver: "up" when it is loaded, "fault" when it has brought
                    \* the system down
    maxKept,        \* LogSettings.MaxKeptRotatedFiles
    rotating,       \* LogRotationInProgress
    scheduled,      \* LogScheduledPrints
    handle,         \* LogFile: the generation it is open on; 0 is NULL
    generation, size, deletePending,    \* of the newest file
    kept,           \* the generation that is kept under a suffix, or 0
    pc,             \* of a thread that prints
    index,          \* its RotateIndex
    broken          \* history: a query or a reopening has failed

fileVars == <<handle, generation, size, deletePending, kept>>
logVars == <<maxKept, rotating, scheduled, fileVars, pc, index, broken>>

Rotation == {"query", "reopen", "restart", "oldest", "loop", "shift", "rename", "close",
             "start", "release", "failed"}

LogTypeOK ==
    /\ maxKept \in MaxKepts /\ rotating \in BOOLEAN /\ scheduled \in 0..Cardinality(Threads)
    /\ generation \in Nat /\ handle \in {0, generation} /\ size \in 0..MaxFileSize
    /\ deletePending \in BOOLEAN
    /\ kept \in [1..Limit -> Nat]
    /\ pc \in [Threads -> Rotation \cup {"idle", "queued", "line", "flag", "write", "append",
                                        "finish", "free"}]
    /\ index \in [Threads -> Nat] /\ broken \in BOOLEAN

LogInit ==
    /\ maxKept \in MaxKepts /\ rotating = FALSE /\ scheduled = 0
    /\ generation = 0 /\ handle = 0 /\ size = 0 /\ deletePending = FALSE
    /\ kept = [i \in 1..Limit |-> 0]
    /\ pc = [t \in Threads |-> "idle"]
    /\ index = [t \in Threads |-> 0] /\ broken = FALSE

Idle == \A t \in Threads : pc[t] = "idle"

Goes(t, from, to) == pc[t] = from /\ pc' = [pc EXCEPT ![t] = to]

\* Log_WriteLine returns: a worker has its count of scheduled prints to give back.
After(t) == IF t \in Deferred THEN "finish" ELSE "idle"

-----------------------------------------------------------------------------
(* Log_Print and the worker *)

\* InterlockedIncrement(&LogScheduledPrints)
Scheduled_Uncounted(n) == n             \* mutant
Scheduled(n) == n + 1

\* While the driver starts or ends, the one thread that does so prints: beside the
\* workers, when it ends.
Prints(t) ==
    \/ phase = "up"
    \/ /\ phase \in {"shim", "register", "ending"} /\ t \notin Deferred
       /\ \A u \in Threads \ Deferred : pc[u] = "idle"

\* A line is dropped here without a log file, without memory for it or when it is too
\* long; none of it changes anything.
LogPrint(t) ==
    /\ Prints(t) /\ generation < Generations /\ handle # 0
    /\ IF t \in Deferred
       THEN Goes(t, "idle", "queued") /\ scheduled' = Scheduled(scheduled)
       ELSE Goes(t, "idle", "line") /\ UNCHANGED scheduled
    /\ UNCHANGED <<phase, maxKept, rotating, fileVars, index, broken>>

\* IoAllocateWorkItem has no memory: the NULL it returns is counted and queued.
NoWorkItem(t) ==
    /\ Prints(t) /\ t \in Deferred /\ generation < Generations /\ handle # 0
    /\ Goes(t, "idle", "queued") /\ scheduled' = Scheduled(scheduled)
    /\ phase' = "fault"
    /\ UNCHANGED <<maxKept, rotating, fileVars, index, broken>>

WriteWorker(t) ==
    /\ Goes(t, "queued", "line")
    /\ UNCHANGED <<phase, maxKept, rotating, scheduled, fileVars, index, broken>>

FinishWorker(t) ==
    /\ Goes(t, "finish", "free")
    /\ scheduled' = scheduled - 1
    /\ UNCHANGED <<phase, maxKept, rotating, fileVars, index, broken>>

\* The worker no longer counts when it frees its work item and its line.
FreeWorkItem(t) ==
    /\ Goes(t, "free", "idle")
    /\ UNCHANGED <<phase, maxKept, rotating, scheduled, fileVars, index, broken>>

-----------------------------------------------------------------------------
(* Log_WriteLine *)

NoFile(t) ==
    /\ Goes(t, "line", After(t)) /\ handle = 0
    /\ UNCHANGED <<phase, maxKept, rotating, scheduled, fileVars, index, broken>>

FileOpen(t) ==
    /\ Goes(t, "line", "flag") /\ handle # 0
    /\ UNCHANGED <<phase, maxKept, rotating, scheduled, fileVars, index, broken>>

\* InterlockedCompareExchange(&LogRotationInProgress, 1, 0): by now a rotation that
\* failed may have closed the file.
MayRotate_Unchecked == TRUE             \* mutant
MayRotate == ~ rotating

StartRotation(t) ==
    /\ Goes(t, "flag", "query") /\ MayRotate
    /\ rotating' = TRUE
    /\ UNCHANGED <<phase, maxKept, scheduled, fileVars, index, broken>>

SkipRotation(t) ==
    /\ Goes(t, "flag", "write") /\ rotating
    /\ UNCHANGED <<phase, maxKept, rotating, scheduled, fileVars, index, broken>>

Query(t) ==
    /\ handle # 0
    /\ Goes(t, "query", IF deletePending THEN "reopen"
                        ELSE IF size >= MaxFileSize THEN "oldest" ELSE "release")
    /\ UNCHANGED <<phase, maxKept, rotating, scheduled, fileVars, index, broken>>

\* A failed query, of a file that is closed or of one that is open, returns at once, and
\* the flag stays set.
QueryFails(t) ==
    /\ Goes(t, "query", After(t))
    /\ broken' = TRUE
    /\ UNCHANGED <<phase, maxKept, rotating, scheduled, fileVars, index>>

\* The user has deleted the file: it goes when its handle is closed.
Reopen(t) ==
    /\ Goes(t, "reopen", "restart")
    /\ handle' = 0
    /\ UNCHANGED <<phase, maxKept, rotating, scheduled, generation, size, deletePending, kept,
                   index, broken>>

\* Is the newest file there under the name of the log file?
Exists == generation # 0 /\ ~ deletePending /\ \A i \in 1..Limit : kept[i] # generation

\* Log_StartFileLogging: FILE_OPEN_IF
StartFileLogging ==
    /\ \/ Exists /\ handle' = generation /\ UNCHANGED <<generation, size, deletePending>>
       \/ /\ ~ Exists
          /\ generation' = generation + 1 /\ handle' = generation + 1
          /\ size' = 0 /\ deletePending' = FALSE
    /\ UNCHANGED kept

Restart(t) ==
    /\ Goes(t, "restart", "release") /\ StartFileLogging
    /\ UNCHANGED <<phase, maxKept, rotating, scheduled, index, broken>>

RestartFails(t) ==
    /\ Goes(t, "restart", After(t))
    /\ broken' = TRUE
    /\ UNCHANGED <<phase, maxKept, rotating, scheduled, fileVars, index>>

\* Whatever Log_Rotate returned, the flag is reset; a failure drops the line.
Release(t) ==
    /\ Goes(t, "release", "write") \/ Goes(t, "failed", After(t))
    /\ rotating' = FALSE
    /\ UNCHANGED <<phase, maxKept, scheduled, fileVars, index, broken>>

\* LogFile is read once more.
Write(t) ==
    /\ Goes(t, "write", IF handle = 0 THEN After(t) ELSE "append")
    /\ UNCHANGED <<phase, maxKept, rotating, scheduled, fileVars, index, broken>>

\* ZwWriteFile, with the handle that was read.  A rotation may have closed it meanwhile:
\* it is then of no file, of the newest log file if that was given the same number, or of
\* whatever else was opened since, which is outside of this model.
Append(t) ==
    /\ Goes(t, "append", After(t))
    /\ size' \in {size} \cup (IF handle # 0 /\ size < MaxFileSize THEN {size + 1} ELSE {})
    /\ UNCHANGED <<phase, maxKept, rotating, scheduled, handle, generation, deletePending, kept,
                   index, broken>>

-----------------------------------------------------------------------------
(* Log_Rotate, run by the thread that has set the flag *)

Fails(t) ==
    /\ pc' = [pc EXCEPT ![t] = "failed"]
    /\ index' = [index EXCEPT ![t] = 0]

\* The name does not fit, no memory, or a call of the file system fails.
RotateFails(t) ==
    /\ \/ pc[t] \in {"oldest", "rename", "start"}
       \/ pc[t] = "shift" /\ index[t] # 0 /\ (index[t] > Limit \/ kept[index[t]] # 0)
    /\ Fails(t)
    /\ UNCHANGED <<phase, maxKept, rotating, scheduled, fileVars, broken>>

\* The oldest file goes first, if it can be deleted.
DeleteOldest(t) ==
    /\ Goes(t, "oldest", "loop") /\ maxKept <= Limit
    /\ kept' \in {kept, [i \in 1..Limit |-> IF i = maxKept THEN 0 ELSE kept[i]]}
    /\ UNCHANGED <<phase, maxKept, rotating, scheduled, handle, generation, size,
                   deletePending, index, broken>>

\* MaxKeptRotatedFiles is read again, and another thread may have set it in
\* between.  With a maximum of 0 the unsigned index starts below 0: its name does
\* not fit after a hundred rounds, in none of which a file is found.
Wraps_Never == FALSE                    \* mutant
Wraps == maxKept = 0

StartLoop(t) ==
    /\ pc[t] = "loop"
    /\ IF Wraps THEN Fails(t)
       ELSE /\ pc' = [pc EXCEPT ![t] = "shift"]
            /\ index' = [index EXCEPT ![t] = maxKept - 1]
    /\ UNCHANGED <<phase, maxKept, rotating, scheduled, fileVars, broken>>

\* A rename does not replace a file.
Free_Replaced(i) == i <= Limit          \* mutant
Free(i) == i <= Limit /\ kept[i] = 0

\* One round: a file that is not there, or cannot be opened, is passed over.
Shift(t) ==
    LET i == index[t] IN
    /\ pc[t] = "shift" /\ i \in 1..Limit
    /\ \/ UNCHANGED kept
       \/ /\ kept[i] # 0 /\ Free(i + 1)
          /\ kept' = [kept EXCEPT ![i + 1] = kept[i], ![i] = 0]
    /\ index' = [index EXCEPT ![t] = i - 1]
    /\ UNCHANGED <<phase, maxKept, rotating, scheduled, handle, generation, size,
                   deletePending, pc, broken>>

EndLoop(t) ==
    /\ Goes(t, "shift", "rename") /\ index[t] = 0
    /\ UNCHANGED <<phase, maxKept, rotating, scheduled, fileVars, index, broken>>

\* The suffix of the file that is rotated now.
Newest_Last == IF maxKept \in 1..Limit THEN maxKept ELSE 1      \* mutant
Newest == 1

Rename(t) ==
    /\ Goes(t, "rename", "close") /\ Free(Newest) /\ ~ deletePending
    /\ kept' = [kept EXCEPT ![Newest] = generation]
    /\ UNCHANGED <<phase, maxKept, rotating, scheduled, handle, generation, size,
                   deletePending, index, broken>>

CloseFile(t) ==
    /\ Goes(t, "close", "start")
    /\ handle' = 0
    /\ UNCHANGED <<phase, maxKept, rotating, scheduled, generation, size, deletePending, kept,
                   index, broken>>

StartFile(t) ==
    /\ Goes(t, "start", "release") /\ StartFileLogging
    /\ UNCHANGED <<phase, maxKept, rotating, scheduled, index, broken>>

-----------------------------------------------------------------------------
(* Settings, the user and unload *)

\* Log_SetSetting, from an IOCTL of the control device.
SetSetting ==
    /\ phase = "up"
    /\ maxKept' \in MaxKepts
    /\ UNCHANGED <<phase, rotating, scheduled, fileVars, pc, index, broken>>

\* The log file is deleted: it is open with FILE_SHARE_DELETE, and goes when its handle
\* is closed.
DeleteFile ==
    /\ phase = "up" /\ Exists
    /\ deletePending' = TRUE
    /\ UNCHANGED <<phase, maxKept, rotating, scheduled, handle, generation, size, kept, pc,
                   index, broken>>

\* Log_Cleanup
WaitForWorkers == scheduled = 0

-----------------------------------------------------------------------------
Step(t) ==
    \/ LogPrint(t) \/ NoWorkItem(t) \/ WriteWorker(t) \/ FinishWorker(t) \/ FreeWorkItem(t)
    \/ NoFile(t) \/ FileOpen(t) \/ StartRotation(t) \/ SkipRotation(t) \/ Query(t) \/ QueryFails(t)
    \/ Reopen(t) \/ Restart(t) \/ RestartFails(t) \/ Release(t) \/ Write(t) \/ Append(t)
    \/ RotateFails(t) \/ DeleteOldest(t) \/ StartLoop(t) \/ Shift(t) \/ EndLoop(t)
    \/ Rename(t) \/ CloseFile(t) \/ StartFile(t)

LogNext == (\E t \in Threads : Step(t)) \/ SetSetting \/ DeleteFile

-----------------------------------------------------------------------------
(* Properties *)

Rotators == {t \in Threads : pc[t] \in Rotation}

\* LogRotationInProgress is a lock: one thread at a time closes and renames the log
\* file.  It stays set for good only after a query or a reopening has failed: a
\* rotation that fails releases it.
RotationFlag ==
    /\ \A t, u \in Rotators : t = u
    /\ Rotators # {} => rotating
    /\ rotating /\ Rotators = {} => broken

\* A larger suffix is an older file, however rotations fail half-way, whatever the
\* maximum is set to meanwhile, and wherever in a rotation the system crashes.
RotatedInOrder ==
    /\ \A i, j \in 1..Limit : i < j /\ kept[i] # 0 /\ kept[j] # 0 => kept[i] > kept[j]
    /\ \A i \in 1..Limit : kept[i] <= generation

\* Rotation deletes the file with the largest suffix it may use, and no other.
OnlyOldestDeleted ==
    [][\A i \in 1..Limit :
          kept[i] # 0 /\ (\A j \in 1..Limit : kept'[j] # kept[i]) => i = maxKept]_<<maxKept, kept>>
=============================================================================
