---------------------------- MODULE DriverProofs ----------------------------
(***************************************************************************)
(* Driver and Log proved for any number of threads and workers, any length *)
(* of the log and any settings, and any number of loads and crashes.       *)
(***************************************************************************)
EXTENDS Driver, FiniteSetTheorems, TLAPS

-----------------------------------------------------------------------------
(* The inductive invariant *)

Pcs == Rotation \cup {"idle", "queued", "line", "flag", "write", "append", "finish", "free"}
Phases == {"out", "device", "link", "registry", "parameters", "file", "shim", "register",
           "up", "ending", "cleanup", "delete", "image", "fault"}

\* TypeOK, but for the range of LogScheduledPrints, which needs CountInv.
TypeInv ==
    /\ maxKept \in MaxKepts /\ rotating \in BOOLEAN
    /\ generation \in Nat /\ handle \in {0, generation} /\ size \in 0..MaxFileSize
    /\ deletePending \in BOOLEAN
    /\ kept \in [1..Limit -> Nat]
    /\ pc \in [Threads -> Pcs]
    /\ index \in [Threads -> Nat] /\ broken \in BOOLEAN
    /\ phase \in Phases /\ version \in {"2012", "2012R2"}
    /\ held \subseteq Things \ {"file"} /\ left \subseteq Things
    /\ loads \in 0..Loads

\* LogScheduledPrints counts the workers that are not done with the log.
Counted == {t \in Deferred : pc[t] \notin {"idle", "free"}}

CountInv ==
    /\ \A t \in Threads : pc[t] \in {"queued", "finish", "free"} => t \in Deferred
    /\ scheduled = Cardinality(Counted)

\* A thread that rotates has a file until it closes it, and no kept file is the open one.
NeedsFile == {"reopen", "oldest", "loop", "shift", "rename", "close"}

OpenInv ==
    /\ \A t \in Threads : pc[t] \in NeedsFile => handle # 0
    /\ \A i \in 1..Limit :
          kept[i] # 0 /\ kept[i] = generation => handle = 0 \/ \E t \in Threads : pc[t] = "close"

\* What the driver holds, and who is at the log, in each phase of its life.
Before == {"out", "device", "link", "registry", "parameters", "file"}
Quiet == Before \cup {"delete", "image"}

PhaseInv ==
    /\ phase \in Quiet => handle = 0 /\ Working = {}
    /\ phase = "cleanup" => Working \subseteq Deferred
    /\ phase = "link" => "device" \in held
    /\ phase \notin {"out", "device", "link", "image"} => {"device", "link"} \subseteq held
    /\ phase \notin Quiet \/ phase \in {"parameters", "file"} => "reference" \in held
    /\ phase \in {"ending", "cleanup", "delete", "image"} => "shim" \notin held
    /\ phase \in {"delete", "image"} => "reference" \notin held
    /\ phase = "image" => {"device", "link"} \cap held = {}
    /\ phase \notin {"out", "device"} => "device" \notin left
    /\ phase \notin {"out", "device", "link"} => "link" \notin left
    /\ left \subseteq {"parameters"} \/ {"device", "reference"} \subseteq left

Inv == TypeInv /\ CountInv /\ RotationFlag /\ OpenInv /\ RotatedInOrder /\ PhaseInv

-----------------------------------------------------------------------------
LEMMA InvInit == Init => Inv
<1> SUFFICES ASSUME Init PROVE Inv
  OBVIOUS
<1> USE DEF Init, LogInit
<1>1. TypeInv
  <2>1. maxKept \in MaxKepts /\ rotating \in BOOLEAN /\ deletePending \in BOOLEAN
    OBVIOUS
  <2>2. generation \in Nat /\ handle \in {0, generation} /\ size \in 0..MaxFileSize
    BY LogAssumption
  <2>3. kept \in [1..Limit -> Nat]
    OBVIOUS
  <2>4. pc \in [Threads -> Pcs]
    BY DEF Pcs
  <2>7. index \in [Threads -> Nat] /\ broken \in BOOLEAN
    OBVIOUS
  <2>5. phase \in Phases /\ held \subseteq Things \ {"file"} /\ left \subseteq Things
    BY DEF Phases
  <2>6. loads \in 0..Loads
    BY DriverAssumption
  <2> QED BY <2>1, <2>2, <2>3, <2>4, <2>7, <2>5, <2>6 DEF TypeInv
<1>2. CountInv
  <2>1. Counted = {}
    BY LogAssumption DEF Counted
  <2> QED BY <2>1, FS_EmptySet DEF CountInv
<1>3. Working = {} /\ Rotators = {}
  BY DEF Working, Rotators, Rotation
<1>4. RotationFlag /\ OpenInv /\ RotatedInOrder
  BY <1>3, LogAssumption DEF RotationFlag, OpenInv, NeedsFile, Rotators, Rotation, RotatedInOrder
<1>5. PhaseInv
  BY <1>3 DEF PhaseInv, Before, Quiet
<1> QED BY <1>1, <1>2, <1>4, <1>5 DEF Inv

-----------------------------------------------------------------------------
(* Types *)

LEMMA StartedFile ==
    ASSUME TypeInv, StartFileLogging
    PROVE  /\ generation' \in Nat /\ handle' \in {0, generation'}
           /\ size' \in 0..MaxFileSize /\ deletePending' \in BOOLEAN /\ kept' = kept
<1>1. CASE handle' = generation /\ UNCHANGED <<generation, size, deletePending>>
  BY <1>1 DEF TypeInv, StartFileLogging
<1>2. CASE generation' = generation + 1 /\ handle' = generation + 1 /\ size' = 0
           /\ deletePending' = FALSE
  <2>1. 0 \in 0..MaxFileSize
    BY LogAssumption
  <2>2. kept' = kept
    BY DEF StartFileLogging
  <2>3. generation' \in Nat
    BY <1>2 DEF TypeInv
  <2> QED BY <1>2, <2>1, <2>2, <2>3
<1> QED BY <1>1, <1>2 DEF StartFileLogging

LEMMA TypeStep ==
    ASSUME TypeInv, NEW t \in Threads, Step(t), UNCHANGED driverVars
    PROVE  TypeInv' /\ (phase' = phase \/ NoWorkItem(t))
<1> USE DEF TypeInv, driverVars, fileVars, Goes
<1>1. pc[t] \in Pcs /\ index[t] \in Nat /\ After(t) \in {"finish", "idle"}
  BY DEF After
<1>2. CASE LogPrint(t)
  BY <1>1, <1>2 DEF LogPrint, Pcs
<1>16. CASE NoWorkItem(t)
  BY <1>1, <1>16 DEF NoWorkItem, Pcs, Phases
<1>3. CASE WriteWorker(t) \/ FinishWorker(t) \/ FreeWorkItem(t)
  BY <1>1, <1>3 DEF WriteWorker, FinishWorker, FreeWorkItem, Pcs
<1>4. CASE NoFile(t) \/ QueryFails(t) \/ RestartFails(t)
  BY <1>1, <1>4 DEF NoFile, QueryFails, RestartFails, Pcs
<1>5. CASE FileOpen(t) \/ StartRotation(t) \/ SkipRotation(t) \/ Query(t)
  BY <1>1, <1>5 DEF FileOpen, StartRotation, SkipRotation, Query, Pcs, Rotation
<1>6. CASE Reopen(t) \/ CloseFile(t)
  BY <1>1, <1>6 DEF Reopen, CloseFile, Pcs, Rotation
<1>7. CASE Restart(t) \/ StartFile(t)
  <2>1. StartFileLogging
    BY <1>7 DEF Restart, StartFile
  <2>2. pc' \in [Threads -> Pcs]
    BY <1>1, <1>7 DEF Restart, StartFile, Pcs, Rotation
  <2> QED BY <1>7, <2>1, <2>2, StartedFile DEF Restart, StartFile
<1>8. CASE Release(t)
  BY <1>1, <1>8 DEF Release, Pcs
<1>9. CASE Write(t)
  BY <1>1, <1>9 DEF Write, Pcs
<1>17. CASE Append(t)
  BY <1>1, <1>17, LogAssumption DEF Append, Pcs
<1>10. CASE RotateFails(t)
  BY <1>1, <1>10 DEF RotateFails, Fails, Pcs, Rotation
<1>11. CASE DeleteOldest(t)
  BY <1>1, <1>11 DEF DeleteOldest, Pcs, Rotation
<1>12. CASE StartLoop(t)
  <2>1. index' \in [Threads -> Nat]
    BY <1>1, <1>12, LogAssumption DEF StartLoop, Wraps, Fails
  <2>2. pc' \in [Threads -> Pcs]
    BY <1>1, <1>12 DEF StartLoop, Fails, Pcs, Rotation
  <2> QED BY <1>12, <2>1, <2>2 DEF StartLoop
<1>13. CASE Shift(t)
  <2>1. index' \in [Threads -> Nat]
    BY <1>1, <1>13, LogAssumption DEF Shift
  <2>2. kept' \in [1..Limit -> Nat]
    <3> DEFINE i == index[t]
    <3>1. CASE UNCHANGED kept
      BY <3>1
    <3>2. CASE kept[i] # 0 /\ Free(i + 1) /\ kept' = [kept EXCEPT ![i + 1] = kept[i], ![i] = 0]
      <4>1. i \in 1..Limit /\ i + 1 \in 1..Limit /\ kept[i] \in Nat
        BY <1>1, <1>13, <3>2, LogAssumption DEF Shift, Free
      <4> QED BY <3>2, <4>1
    <3> QED BY <1>13, <3>1, <3>2 DEF Shift
  <2> QED BY <1>13, <2>1, <2>2 DEF Shift
<1>14. CASE EndLoop(t)
  BY <1>1, <1>14 DEF EndLoop, Pcs, Rotation
<1>15. CASE Rename(t)
  BY <1>1, <1>15, LogAssumption DEF Rename, Free, Newest, Pcs, Rotation
<1> QED
  BY <1>2, <1>3, <1>4, <1>5, <1>6, <1>7, <1>8, <1>9, <1>10, <1>11, <1>12, <1>13, <1>14, <1>15,
     <1>16, <1>17 DEF Step

LEMMA TypeNext ==
    ASSUME TypeInv, [Next]_vars
    PROVE  TypeInv'
<1> USE DEF TypeInv
<1>1. CASE UNCHANGED vars
  BY <1>1 DEF vars, driverVars, logVars, fileVars
<1>2. CASE LogNext /\ UNCHANGED driverVars
  <2>1. CASE \E t \in Threads : Step(t)
    BY <1>2, <2>1, TypeStep
  <2>2. CASE SetSetting \/ DeleteFile
    BY <1>2, <2>2 DEF SetSetting, DeleteFile, driverVars, fileVars
  <2> QED BY <1>2, <2>1, <2>2 DEF LogNext
<1> USE DEF driverVars, logVars, fileVars, Phases
<1>3. CASE LoadImage
  <2>1. loads' \in 0..Loads
    BY <1>3, DriverAssumption DEF LoadImage
  <2> QED BY <1>3, <2>1 DEF LoadImage
<1>4. ASSUME NEW name \in {"device", "link"}, NEW to \in {"link", "registry"},
             CreateName(name, to)
      PROVE  TypeInv'
  BY <1>4 DEF CreateName, DispatchFails, Things
<1>5. CASE OpenRegistry
  BY <1>5 DEF OpenRegistry, EntryFails, Things
<1>6. CASE ReadParameters
  BY <1>6 DEF ReadParameters, EntryFails, Things
<1>7. CASE OpenLogFile
  <2>1. /\ generation' \in Nat /\ handle' \in {0, generation'}
        /\ size' \in 0..MaxFileSize /\ deletePending' \in BOOLEAN /\ kept' = kept
    BY <1>7, StartedFile DEF OpenLogFile, EntryFails
  <2>2. phase' \in Phases /\ held' \subseteq Things \ {"file"} /\ left' \subseteq Things
    BY <1>7 DEF OpenLogFile, AfterLog, EntryFails, Things
  <2> QED BY <1>7, <2>1, <2>2 DEF OpenLogFile
<1>8. CASE LoadBalancer
  BY <1>8 DEF LoadBalancer, EntryFails, Things
<1>9. CASE RegisterParser
  BY <1>9 DEF RegisterParser, EntryFails, Things
<1>10. CASE Unload \/ CleanupExtension \/ DispatchCleanup \/ UnloadImage
  BY <1>10 DEF Unload, CleanupExtension, DispatchCleanup, UnloadImage, Things
<1>11. CASE LogCleanup
  BY <1>11 DEF LogCleanup
<1>12. CASE Crash
  BY <1>12 DEF Crash, Pcs
<1> QED
  BY <1>1, <1>2, <1>3, <1>4, <1>5, <1>6, <1>7, <1>8, <1>9, <1>10, <1>11, <1>12
     DEF Next, DriverNext

-----------------------------------------------------------------------------
(* LogScheduledPrints *)

LEMMA WorkStep ==
    ASSUME TypeInv, NEW t \in Threads, Step(t),
           ~ LogPrint(t), ~ NoWorkItem(t), ~ FinishWorker(t), ~ FreeWorkItem(t)
    PROVE  /\ scheduled' = scheduled
           /\ pc[t] \notin {"idle", "free"}
           /\ \E to \in Pcs : /\ pc' = [pc EXCEPT ![t] = to]
                              /\ to \notin {"free", "queued"}
                              /\ to = "idle" => t \notin Deferred
                              /\ to = "finish" => t \in Deferred
<1> USE DEF Goes, After, Pcs, Rotation
<1>1. CASE WriteWorker(t)
  BY <1>1 DEF WriteWorker
<1>2. CASE NoFile(t) \/ QueryFails(t) \/ RestartFails(t) \/ Release(t)
  BY <1>2 DEF NoFile, QueryFails, RestartFails, Release
<1>9. CASE Write(t) \/ Append(t)
  BY <1>9 DEF Write, Append
<1>3. CASE FileOpen(t) \/ StartRotation(t) \/ SkipRotation(t) \/ Query(t)
  BY <1>3 DEF FileOpen, StartRotation, SkipRotation, Query
<1>4. CASE Reopen(t) \/ CloseFile(t) \/ Restart(t) \/ StartFile(t)
  BY <1>4 DEF Reopen, CloseFile, Restart, StartFile
<1>5. CASE RotateFails(t)
  BY <1>5 DEF RotateFails, Fails
<1>6. CASE DeleteOldest(t) \/ EndLoop(t) \/ Rename(t)
  BY <1>6 DEF DeleteOldest, EndLoop, Rename
<1>7. CASE StartLoop(t)
  BY <1>7 DEF StartLoop, Fails
<1>8. CASE Shift(t)
  <2>1. pc[t] = "shift" /\ pc' = pc /\ scheduled' = scheduled
    BY <1>8 DEF Shift
  <2>2. pc' = [pc EXCEPT ![t] = "shift"]
    BY <2>1 DEF TypeInv
  <2> QED BY <2>1, <2>2
<1> QED BY <1>1, <1>2, <1>3, <1>4, <1>5, <1>6, <1>7, <1>8, <1>9 DEF Step

LEMMA CountStep ==
    ASSUME TypeInv, CountInv, NEW t \in Threads, Step(t)
    PROVE  CountInv'
<1>0. IsFiniteSet(Counted)
  BY LogAssumption, FS_Subset DEF Counted
<1>1. CASE NoWorkItem(t) \/ (LogPrint(t) /\ t \in Deferred)
  <2>1. t \notin Counted /\ Counted' = Counted \cup {t} /\ scheduled' = scheduled + 1
    BY <1>1, LogAssumption DEF LogPrint, NoWorkItem, Goes, Scheduled, Counted, TypeInv
  <2>2. Cardinality(Counted') = Cardinality(Counted) + 1
    BY <1>0, <2>1, FS_AddElement
  <2> QED BY <1>1, <2>1, <2>2 DEF CountInv, LogPrint, NoWorkItem, Goes, TypeInv
<1>2. CASE LogPrint(t) /\ t \notin Deferred
  <2>1. Counted' = Counted /\ scheduled' = scheduled
    BY <1>2, LogAssumption DEF LogPrint, Goes, Counted, TypeInv
  <2> QED BY <1>2, <2>1 DEF CountInv, LogPrint, Goes, TypeInv
<1>3. CASE FinishWorker(t)
  <2>1. t \in Counted /\ Counted' = Counted \ {t} /\ scheduled' = scheduled - 1
    BY <1>3, LogAssumption DEF FinishWorker, Goes, Counted, TypeInv, CountInv
  <2>2. Cardinality(Counted') = Cardinality(Counted) - 1
    BY <1>0, <2>1, FS_RemoveElement
  <2> QED BY <1>3, <2>1, <2>2 DEF CountInv, FinishWorker, Goes, TypeInv
<1>4. CASE FreeWorkItem(t)
  <2>1. Counted' = Counted /\ scheduled' = scheduled
    BY <1>4, LogAssumption DEF FreeWorkItem, Goes, Counted, TypeInv
  <2> QED BY <1>4, <2>1 DEF CountInv, FreeWorkItem, Goes, TypeInv
<1>5. CASE ~ LogPrint(t) /\ ~ NoWorkItem(t) /\ ~ FinishWorker(t) /\ ~ FreeWorkItem(t)
  <2>1. PICK to \in Pcs : /\ pc' = [pc EXCEPT ![t] = to]
                          /\ to \notin {"free", "queued"}
                          /\ to = "idle" => t \notin Deferred
                          /\ to = "finish" => t \in Deferred
    BY <1>5, WorkStep
  <2>2. scheduled' = scheduled /\ pc[t] \notin {"idle", "free"}
    BY <1>5, WorkStep
  <2>3. Counted' = Counted
    BY <2>1, <2>2, LogAssumption DEF Counted, TypeInv
  <2> QED BY <2>1, <2>2, <2>3 DEF CountInv, TypeInv
<1> QED BY <1>1, <1>2, <1>3, <1>4, <1>5

LEMMA CountNext ==
    ASSUME TypeInv, CountInv, [Next]_vars
    PROVE  CountInv'
<1>1. CASE UNCHANGED <<scheduled, pc>>
  BY <1>1 DEF CountInv, Counted
<1>2. CASE LogNext
  <2>1. CASE \E t \in Threads : Step(t)
    BY <2>1, CountStep
  <2>2. CASE SetSetting \/ DeleteFile
    BY <1>1, <2>2 DEF SetSetting, DeleteFile
  <2> QED BY <1>2, <2>1, <2>2 DEF LogNext
<1>3. CASE Crash
  <2>1. pc' = [t \in Threads |-> "idle"] /\ scheduled' = 0
    BY <1>3 DEF Crash
  <2>2. Counted' = {}
    BY <2>1, LogAssumption DEF Counted
  <2> QED BY <2>1, <2>2, FS_EmptySet DEF CountInv
<1>4. CASE ~ Crash /\ DriverNext
  <2>1. CASE LoadImage \/ CreateName("device", "link") \/ CreateName("link", "registry")
    BY <1>1, <2>1 DEF LoadImage, CreateName, logVars
  <2>2. CASE OpenRegistry \/ ReadParameters \/ OpenLogFile \/ LoadBalancer \/ RegisterParser
    BY <1>1, <2>2 DEF OpenRegistry, ReadParameters, OpenLogFile, LoadBalancer, RegisterParser
  <2>3. CASE Unload \/ CleanupExtension \/ LogCleanup \/ DispatchCleanup \/ UnloadImage
    BY <1>1, <2>3 DEF Unload, CleanupExtension, LogCleanup, DispatchCleanup, UnloadImage, logVars
  <2> QED BY <1>4, <2>1, <2>2, <2>3 DEF DriverNext
<1>5. CASE UNCHANGED vars
  BY <1>1, <1>5 DEF vars, logVars
<1> QED BY <1>2, <1>3, <1>4, <1>5 DEF Next

-----------------------------------------------------------------------------
(* LogRotationInProgress *)

\* What a step does to the flag and to the set of threads that rotate.
LEMMA RotatorStep ==
    ASSUME TypeInv, NEW t \in Threads, Step(t)
    PROVE  \/ Rotators' = Rotators /\ rotating' = rotating /\ broken' = broken
           \/ ~ rotating /\ rotating' = TRUE /\ Rotators' = Rotators \cup {t}
           \/ /\ Rotators' = Rotators \ {t} /\ t \in Rotators
              /\ rotating' = FALSE \/ broken' = TRUE
<1> USE DEF Goes, After, Rotators, Rotation
<1> pc \in [Threads -> Pcs]
  BY DEF TypeInv
<1>1. CASE LogPrint(t) \/ NoWorkItem(t) \/ WriteWorker(t) \/ FinishWorker(t) \/ FreeWorkItem(t)
  BY <1>1 DEF LogPrint, NoWorkItem, WriteWorker, FinishWorker, FreeWorkItem
<1>2. CASE NoFile(t) \/ FileOpen(t) \/ SkipRotation(t) \/ Write(t) \/ Append(t)
  BY <1>2 DEF NoFile, FileOpen, SkipRotation, Write, Append
<1>3. CASE StartRotation(t)
  BY <1>3 DEF StartRotation, MayRotate
<1>4. CASE QueryFails(t) \/ RestartFails(t)
  BY <1>4 DEF QueryFails, RestartFails
<1>5. CASE Release(t)
  BY <1>5 DEF Release
<1>6. CASE Query(t)
  BY <1>6 DEF Query
<1>7. CASE Reopen(t) \/ CloseFile(t) \/ Restart(t) \/ StartFile(t)
  BY <1>7 DEF Reopen, CloseFile, Restart, StartFile
<1>8. CASE RotateFails(t)
  BY <1>8 DEF RotateFails, Fails
<1>9. CASE DeleteOldest(t) \/ EndLoop(t) \/ Rename(t)
  BY <1>9 DEF DeleteOldest, EndLoop, Rename
<1>10. CASE StartLoop(t)
  BY <1>10 DEF StartLoop, Fails
<1>11. CASE Shift(t)
  BY <1>11 DEF Shift
<1> QED
  BY <1>1, <1>2, <1>3, <1>4, <1>5, <1>6, <1>7, <1>8, <1>9, <1>10, <1>11 DEF Step

\* Loading, starting and unloading the driver leave the threads alone.
LEMMA DriverKeepsThreads == DriverNext => UNCHANGED <<pc, index>>
<1>1. CASE LoadImage \/ CreateName("device", "link") \/ CreateName("link", "registry")
  BY <1>1 DEF LoadImage, CreateName, logVars
<1>2. CASE OpenRegistry \/ ReadParameters \/ OpenLogFile \/ LoadBalancer \/ RegisterParser
  BY <1>2 DEF OpenRegistry, ReadParameters, OpenLogFile, LoadBalancer, RegisterParser
<1>3. CASE Unload \/ CleanupExtension \/ LogCleanup \/ DispatchCleanup \/ UnloadImage
  BY <1>3 DEF Unload, CleanupExtension, LogCleanup, DispatchCleanup, UnloadImage, logVars
<1> QED BY <1>1, <1>2, <1>3 DEF DriverNext

LEMMA FlagNext ==
    ASSUME TypeInv, RotationFlag, PhaseInv, [Next]_vars
    PROVE  RotationFlag'
<1>1. CASE Rotators' = Rotators /\ rotating' = rotating /\ broken' = broken
  BY <1>1 DEF RotationFlag
<1>2. CASE Rotators' = {} /\ rotating' = FALSE
  BY <1>2 DEF RotationFlag
<1>3. CASE LogNext
  <2>1. ASSUME NEW t \in Threads, Step(t) PROVE RotationFlag'
    <3>1. CASE ~ rotating /\ rotating' = TRUE /\ Rotators' = Rotators \cup {t}
      BY <3>1 DEF RotationFlag
    <3>2. CASE /\ Rotators' = Rotators \ {t} /\ t \in Rotators
               /\ rotating' = FALSE \/ broken' = TRUE
      BY <3>2 DEF RotationFlag
    <3> QED BY <1>1, <2>1, <3>1, <3>2, RotatorStep
  <2>2. CASE SetSetting \/ DeleteFile
    BY <1>1, <2>2 DEF SetSetting, DeleteFile, Rotators
  <2> QED BY <1>3, <2>1, <2>2 DEF LogNext
<1>4. CASE LoadImage
  <2>1. Working = {} /\ pc' = pc /\ rotating' = FALSE
    BY <1>4 DEF LoadImage, PhaseInv, Quiet, Before
  <2>2. Rotators' = {}
    BY <2>1 DEF Working, Rotators, Rotation
  <2> QED BY <1>2, <2>1, <2>2
<1>5. CASE Crash
  BY <1>2, <1>5 DEF Crash, Rotators, Rotation
<1>6. CASE DriverNext /\ ~ LoadImage /\ ~ Crash
  <2>1. rotating' = rotating /\ broken' = broken
    <3>1. CASE CreateName("device", "link") \/ CreateName("link", "registry")
      BY <3>1 DEF CreateName, logVars
    <3>2. CASE OpenRegistry \/ ReadParameters \/ OpenLogFile \/ LoadBalancer \/ RegisterParser
      BY <3>2 DEF OpenRegistry, ReadParameters, OpenLogFile, LoadBalancer, RegisterParser
    <3>3. CASE Unload \/ CleanupExtension \/ LogCleanup \/ DispatchCleanup \/ UnloadImage
      BY <3>3 DEF Unload, CleanupExtension, LogCleanup, DispatchCleanup, UnloadImage, logVars
    <3> QED BY <1>6, <3>1, <3>2, <3>3 DEF DriverNext
  <2>2. Rotators' = Rotators
    BY <1>6, DriverKeepsThreads DEF Rotators
  <2> QED BY <1>1, <2>1, <2>2
<1>7. CASE UNCHANGED vars
  BY <1>1, <1>7 DEF vars, logVars, Rotators
<1> QED BY <1>3, <1>4, <1>5, <1>6, <1>7 DEF Next

-----------------------------------------------------------------------------
(* The open file and the kept ones *)

\* Steps of a thread that touch no file.
LEMMA NoFileTouched ==
    ASSUME TypeInv, OpenInv, RotatedInOrder, NEW t \in Threads, NEW to \in Pcs,
           pc' = [pc EXCEPT ![t] = to], pc[t] # "close", to \in NeedsFile => handle # 0,
           UNCHANGED <<handle, generation, kept>>
    PROVE  OpenInv' /\ RotatedInOrder'
<1>1. \A u \in Threads : pc'[u] \in NeedsFile => handle # 0
  BY DEF OpenInv, NeedsFile, TypeInv
<1>2. \A u \in Threads : pc[u] = "close" => pc'[u] = "close"
  BY DEF TypeInv
<1> QED BY <1>1, <1>2 DEF OpenInv, RotatedInOrder, NeedsFile

LEMMA OthersNeedNoFile ==
    ASSUME TypeInv, RotationFlag, NEW t \in Rotators, NEW u \in Threads, u # t
    PROVE  pc[u] \notin NeedsFile
BY DEF RotationFlag, Rotators, Rotation, NeedsFile

LEMMA OrderStep ==
    ASSUME TypeInv, RotationFlag, OpenInv, RotatedInOrder, NEW t \in Threads, Step(t)
    PROVE  OpenInv' /\ RotatedInOrder'
<1> USE DEF Goes, After, Pcs, Rotation, NeedsFile
<1>1. CASE LogPrint(t) \/ NoWorkItem(t) \/ WriteWorker(t) \/ FinishWorker(t) \/ FreeWorkItem(t)
  BY <1>1, NoFileTouched
     DEF LogPrint, NoWorkItem, WriteWorker, FinishWorker, FreeWorkItem, fileVars
<1>2. CASE NoFile(t) \/ FileOpen(t) \/ SkipRotation(t) \/ StartRotation(t)
  BY <1>2, NoFileTouched DEF NoFile, FileOpen, SkipRotation, StartRotation, fileVars
<1>3. CASE Query(t) \/ QueryFails(t)
  BY <1>3, NoFileTouched DEF Query, QueryFails, OpenInv, fileVars
<1>4. CASE RestartFails(t) \/ Release(t) \/ Write(t) \/ Append(t)
  BY <1>4, NoFileTouched DEF RestartFails, Release, Write, Append, fileVars
<1>5. CASE RotateFails(t)
  BY <1>5, NoFileTouched DEF RotateFails, Fails, fileVars
<1>6. CASE StartLoop(t)
  BY <1>6, NoFileTouched DEF StartLoop, Fails, OpenInv, fileVars
<1>7. CASE EndLoop(t)
  BY <1>7, NoFileTouched DEF EndLoop, OpenInv, fileVars
<1>8. CASE Reopen(t) \/ CloseFile(t)
  <2>1. t \in Rotators /\ handle' = 0 /\ UNCHANGED <<generation, kept>>
    BY <1>8 DEF Reopen, CloseFile, Rotators
  <2>2. \A u \in Threads : pc'[u] \notin NeedsFile
    BY <1>8, <2>1, OthersNeedNoFile DEF Reopen, CloseFile, TypeInv
  <2> QED BY <2>1, <2>2 DEF OpenInv, RotatedInOrder
<1>9. CASE Restart(t) \/ StartFile(t)
  <2>1. t \in Rotators /\ StartFileLogging
    BY <1>9 DEF Restart, StartFile, Rotators
  <2>2. \A u \in Threads : pc'[u] \notin NeedsFile
    BY <1>9, <2>1, OthersNeedNoFile DEF Restart, StartFile, TypeInv
  <2>3. \A i \in 1..Limit : kept'[i] # generation'
    BY <2>1, LogAssumption DEF StartFileLogging, Exists, RotatedInOrder, TypeInv
  <2>4. kept' = kept /\ generation' >= generation
    BY <2>1 DEF StartFileLogging, TypeInv
  <2>5. generation \in Nat /\ generation' \in Nat /\ \A i \in 1..Limit : kept[i] \in Nat
    BY <2>1, StartedFile DEF TypeInv
  <2>6. RotatedInOrder'
    BY <2>4, <2>5, LogAssumption DEF RotatedInOrder
  <2>7. OpenInv'
    BY <2>2, <2>3 DEF OpenInv
  <2> QED BY <2>6, <2>7
<1>10. CASE DeleteOldest(t)
  <2>1. /\ pc' = [pc EXCEPT ![t] = "loop"] /\ pc[t] = "oldest"
        /\ UNCHANGED <<handle, generation>>
    BY <1>10 DEF DeleteOldest
  <2>2. \A i \in 1..Limit : kept'[i] \in {0, kept[i]}
    BY <1>10 DEF DeleteOldest
  <2>3. RotatedInOrder'
    BY <2>1, <2>2 DEF RotatedInOrder, TypeInv
  <2>4. \A u \in Threads : (pc'[u] \in NeedsFile => handle # 0)
                           /\ (pc[u] = "close" => pc'[u] = "close")
    BY <2>1 DEF OpenInv, TypeInv
  <2> QED BY <2>1, <2>2, <2>3, <2>4 DEF OpenInv
<1>11. CASE Shift(t)
  <2> DEFINE i == index[t]
  <2>1. pc' = pc /\ UNCHANGED <<handle, generation>>
    BY <1>11 DEF Shift
  <2>2. CASE UNCHANGED kept
    BY <2>1, <2>2 DEF OpenInv, RotatedInOrder
  <2>3. CASE kept[i] # 0 /\ Free(i + 1) /\ kept' = [kept EXCEPT ![i + 1] = kept[i], ![i] = 0]
    <3>1. i \in 1..Limit /\ i + 1 \in 1..Limit /\ kept[i + 1] = 0 /\ kept[i] \in Nat
      BY <1>11, <2>3, LogAssumption DEF Shift, Free, TypeInv
    <3>2. \A j \in 1..Limit : kept'[j] = (IF j = i + 1 THEN kept[i]
                                         ELSE IF j = i THEN 0 ELSE kept[j])
      BY <2>3, <3>1 DEF TypeInv
    <3>3. RotatedInOrder'
      <4>1. \A a, b \in 1..Limit : a < b /\ kept[a] # 0 /\ kept[b] # 0 => kept[a] > kept[b]
        BY DEF RotatedInOrder
      <4>2. \A a \in 1..Limit : kept[a] <= generation /\ kept[a] \in Nat
        BY DEF RotatedInOrder, TypeInv
      <4>3. \A a \in 1..Limit : kept'[a] <= generation
        BY <3>1, <3>2, <4>2 DEF TypeInv
      <4>4. ASSUME NEW a \in 1..Limit, NEW b \in 1..Limit,
                   a < b, kept'[a] # 0, kept'[b] # 0
            PROVE  kept'[a] > kept'[b]
        <5>1. CASE b = i + 1
          <6>1. a # i /\ a # i + 1 /\ a < i
            BY <3>1, <3>2, <4>4, <5>1, LogAssumption
          <6> QED BY <3>1, <3>2, <4>1, <4>4, <5>1, <6>1
        <5>2. CASE a = i + 1
          <6>1. b # i /\ b # i + 1 /\ i < b
            BY <3>1, <4>4, <5>2, LogAssumption
          <6> QED BY <3>1, <3>2, <4>1, <4>4, <5>2, <6>1
        <5>3. CASE a # i + 1 /\ b # i + 1
          BY <3>2, <4>1, <4>4, <5>3
        <5> QED BY <5>1, <5>2, <5>3
      <4> QED BY <2>1, <4>3, <4>4 DEF RotatedInOrder
    <3>4. OpenInv'
      BY <2>1, <3>1, <3>2 DEF OpenInv
    <3> QED BY <3>3, <3>4
  <2> QED BY <1>11, <2>2, <2>3 DEF Shift
<1>12. CASE Rename(t)
  <2>1. /\ pc[t] = "rename" /\ pc' = [pc EXCEPT ![t] = "close"] /\ kept[1] = 0 /\ 1 \in 1..Limit
        /\ kept' = [kept EXCEPT ![1] = generation] /\ UNCHANGED <<handle, generation>>
    BY <1>12, LogAssumption DEF Rename, Free, Newest
  <2>2. handle # 0
    BY <2>1 DEF OpenInv
  <2>3. \A u \in Threads : pc[u] # "close"
    BY <2>1, OthersNeedNoFile DEF Rotators
  <2>4. \A j \in 1..Limit : kept[j] # 0 => kept[j] < generation
    BY <2>2, <2>3, LogAssumption DEF OpenInv, RotatedInOrder, TypeInv
  <2>5. \A j \in 1..Limit : kept'[j] = (IF j = 1 THEN generation ELSE kept[j])
    BY <2>1 DEF TypeInv
  <2>6. RotatedInOrder'
    BY <2>1, <2>4, <2>5, LogAssumption DEF RotatedInOrder, TypeInv
  <2>7. OpenInv'
    BY <2>1, <2>2 DEF OpenInv, TypeInv
  <2> QED BY <2>6, <2>7
<1> QED
  BY <1>1, <1>2, <1>3, <1>4, <1>5, <1>6, <1>7, <1>8, <1>9, <1>10, <1>11, <1>12 DEF Step

\* Nobody is at the log: its file is closed, or started.
LEMMA IdleOrder ==
    ASSUME TypeInv, OpenInv, RotatedInOrder, Working = {}, pc' = pc,
           \/ handle' \in {0, handle} /\ UNCHANGED <<generation, kept>>
           \/ StartFileLogging
    PROVE  OpenInv' /\ RotatedInOrder'
<1>1. \A t \in Threads : pc'[t] \in {"idle", "free"}
  BY DEF Working
<1>2. CASE handle' \in {0, handle} /\ UNCHANGED <<generation, kept>>
  <2>1. \A i \in 1..Limit : kept[i] # 0 /\ kept[i] = generation => handle' = 0
    BY <1>1, <1>2 DEF OpenInv
  <2> QED BY <1>1, <1>2, <2>1 DEF OpenInv, RotatedInOrder, NeedsFile
<1>3. CASE StartFileLogging
  <2>1. \A i \in 1..Limit : kept'[i] # generation'
    BY <1>3, LogAssumption DEF StartFileLogging, Exists, RotatedInOrder, TypeInv
  <2>2. kept' = kept /\ generation' >= generation
    BY <1>3 DEF StartFileLogging, TypeInv
  <2>3. generation \in Nat /\ generation' \in Nat /\ \A i \in 1..Limit : kept[i] \in Nat
    BY <1>3, StartedFile DEF TypeInv
  <2>4. RotatedInOrder'
    BY <2>2, <2>3, LogAssumption DEF RotatedInOrder
  <2> QED BY <1>1, <2>1, <2>4 DEF OpenInv, NeedsFile
<1> QED BY <1>2, <1>3

\* Log_Cleanup waits for the workers, and there is nobody else.
LEMMA CleanupAlone ==
    ASSUME CountInv, PhaseInv, LogCleanup
    PROVE  Working = {}
<1>1. Working \subseteq Counted
  BY DEF LogCleanup, PhaseInv, Working, Counted
<1>2. Counted = {}
  <2>1. IsFiniteSet(Counted)
    BY LogAssumption, FS_Subset DEF Counted
  <2> QED BY <2>1, FS_EmptySet DEF LogCleanup, WaitForWorkers, CountInv
<1> QED BY <1>1, <1>2

LEMMA OrderNext ==
    ASSUME TypeInv, CountInv, RotationFlag, OpenInv, RotatedInOrder, PhaseInv, [Next]_vars
    PROVE  OpenInv' /\ RotatedInOrder'
<1>1. CASE UNCHANGED <<pc, handle, generation, kept>>
  BY <1>1 DEF OpenInv, RotatedInOrder
<1>2. CASE LogNext
  <2>1. CASE SetSetting \/ DeleteFile
    BY <1>1, <2>1 DEF SetSetting, DeleteFile, fileVars
  <2> QED BY <1>2, <2>1, OrderStep DEF LogNext
<1>3. CASE Crash
  BY <1>3 DEF Crash, OpenInv, RotatedInOrder, NeedsFile
<1>4. CASE LoadImage \/ CreateName("device", "link") \/ CreateName("link", "registry")
  BY <1>1, <1>4 DEF LoadImage, CreateName, logVars, fileVars
<1>5. CASE Unload \/ CleanupExtension \/ DispatchCleanup \/ UnloadImage
  BY <1>1, <1>5 DEF Unload, CleanupExtension, DispatchCleanup, UnloadImage, logVars, fileVars
<1>6. CASE OpenRegistry \/ ReadParameters
  <2>1. Working = {}
    BY <1>6 DEF OpenRegistry, ReadParameters, PhaseInv, Quiet, Before
  <2> QED BY <1>6, <2>1, IdleOrder DEF OpenRegistry, ReadParameters, EntryFails
<1>7. CASE OpenLogFile
  <2>1. Working = {}
    BY <1>7 DEF OpenLogFile, PhaseInv, Quiet, Before
  <2> QED BY <1>7, <2>1, IdleOrder DEF OpenLogFile, EntryFails, fileVars
<1>8. CASE LoadBalancer \/ RegisterParser
  <2>1. Working = {}
    BY <1>8 DEF LoadBalancer, RegisterParser, Idle, Working
  <2> QED BY <1>8, <2>1, IdleOrder DEF LoadBalancer, RegisterParser, EntryFails
<1>9. CASE LogCleanup
  BY <1>9, CleanupAlone, IdleOrder DEF LogCleanup
<1>10. CASE UNCHANGED vars
  BY <1>1, <1>10 DEF vars, logVars, fileVars
<1> QED
  BY <1>2, <1>3, <1>4, <1>5, <1>6, <1>7, <1>8, <1>9, <1>10 DEF Next, DriverNext

-----------------------------------------------------------------------------
(* The phases of the driver *)

\* Nobody comes to the log but by LogPrint.
LEMMA WorkingStep ==
    ASSUME TypeInv, NEW t \in Threads, Step(t)
    PROVE  \/ (LogPrint(t) \/ NoWorkItem(t)) /\ Working' \subseteq Working \cup {t}
           \/ t \in Working /\ Working' \subseteq Working
           \/ pc[t] = "free" /\ handle' = handle /\ Working' \subseteq Working
<1> USE DEF Working, TypeInv
<1>1. CASE LogPrint(t) \/ NoWorkItem(t)
  BY <1>1 DEF LogPrint, NoWorkItem, Goes
<1>2. CASE FinishWorker(t) \/ FreeWorkItem(t)
  BY <1>2 DEF FinishWorker, FreeWorkItem, Goes, fileVars
<1>3. CASE ~ LogPrint(t) /\ ~ NoWorkItem(t) /\ ~ FinishWorker(t) /\ ~ FreeWorkItem(t)
  <2>1. pc[t] \notin {"idle", "free"} /\ \E to \in Pcs : pc' = [pc EXCEPT ![t] = to]
    BY <1>3, WorkStep
  <2> QED BY <2>1
<1> QED BY <1>1, <1>2, <1>3

LEMMA PhaseStep ==
    ASSUME TypeInv, PhaseInv, NEW t \in Threads, Step(t), UNCHANGED driverVars
    PROVE  PhaseInv'
<1>1. CASE NoWorkItem(t)
  <2>1. phase = "up" /\ phase' = "fault" /\ held' = held /\ left' = left
    BY <1>1 DEF NoWorkItem, Prints, driverVars
  <2> QED BY <2>1 DEF PhaseInv, Quiet, Before
<1>2. CASE ~ NoWorkItem(t)
  <2>1. phase' = phase /\ held' = held /\ left' = left
    BY <1>2, TypeStep DEF driverVars
  <2>2. ASSUME phase \in Quiet PROVE handle' = 0 /\ Working' = {}
    <3>1. handle = 0 /\ Working = {}
      BY <2>2 DEF PhaseInv
    <3>2. ~ LogPrint(t)
      BY <3>1 DEF LogPrint
    <3> QED BY <1>2, <3>1, <3>2, WorkingStep
  <2>3. ASSUME phase = "cleanup" PROVE Working' \subseteq Deferred
    <3>1. ~ LogPrint(t)
      BY <2>3 DEF LogPrint, Prints
    <3> QED BY <1>2, <2>3, <3>1, WorkingStep DEF PhaseInv
  <2> QED BY <2>1, <2>2, <2>3 DEF PhaseInv
<1> QED BY <1>1, <1>2

\* A start that fails after DPT_Initialize leaves the device, and Log_Initialize its
\* reference to it.
LEMMA FailedEntry ==
    ASSUME PhaseInv, Working' = {}, NEW acquired \in SUBSET Things, EntryFails(acquired),
           {"device", "reference"} \subseteq acquired
    PROVE  PhaseInv'
BY DEF EntryFails, PhaseInv, Quiet, Before

LEMMA PhaseNext ==
    ASSUME TypeInv, CountInv, PhaseInv, [Next]_vars
    PROVE  PhaseInv'
<1> USE DEF logVars, driverVars, fileVars
<1>1. CASE UNCHANGED <<phase, held, left, handle, pc>>
  BY <1>1 DEF PhaseInv, Working
<1>2. CASE LogNext /\ UNCHANGED driverVars
  <2>1. CASE SetSetting \/ DeleteFile
    BY <1>1, <1>2, <2>1 DEF SetSetting, DeleteFile
  <2> QED BY <1>2, <2>1, PhaseStep DEF LogNext
<1>3. CASE LoadImage
  <2>1. Working' = {} /\ handle' = 0
    BY <1>3 DEF LoadImage, PhaseInv, Quiet, Before, Working
  <2> QED BY <1>3, <2>1 DEF LoadImage, PhaseInv, Quiet, Before
<1>4. ASSUME CreateName("device", "link") \/ CreateName("link", "registry")
      PROVE  PhaseInv'
  <2>1. Working' = {} /\ handle' = 0
    BY <1>4 DEF CreateName, PhaseInv, Quiet, Before, Working
  <2>2. CASE DispatchFails
    BY <2>1, <2>2 DEF DispatchFails, PhaseInv, Quiet, Before
  <2>3. CASE ~ DispatchFails
    BY <1>4, <2>1, <2>3 DEF CreateName, PhaseInv, Quiet, Before
  <2> QED BY <2>2, <2>3
<1>5. CASE OpenRegistry
  <2>1. Working' = {} /\ handle = 0 /\ "device" \in held /\ held \subseteq Things
    BY <1>5 DEF OpenRegistry, PhaseInv, Quiet, Before, Working, TypeInv
  <2>2. CASE EntryFails(held \cup {"reference"})
    BY <2>1, <2>2, FailedEntry DEF Things
  <2>3. CASE ~ EntryFails(held \cup {"reference"})
    BY <1>5, <2>1, <2>3 DEF OpenRegistry, PhaseInv, Quiet, Before
  <2> QED BY <2>2, <2>3
<1>6. CASE ReadParameters \/ OpenLogFile
  <2>1. Working' = {} /\ handle = 0 /\ {"device", "reference"} \subseteq held
        /\ held \subseteq Things
    BY <1>6 DEF ReadParameters, OpenLogFile, PhaseInv, Quiet, Before, Working, TypeInv
  <2>2. CASE EntryFails(held)
    BY <2>1, <2>2, FailedEntry
  <2>3. CASE ReadParameters /\ ~ EntryFails(held)
    BY <2>1, <2>3 DEF ReadParameters, PhaseInv, Quiet, Before
  <2>4. CASE OpenLogFile /\ ~ EntryFails(held)
    BY <2>1, <2>4 DEF OpenLogFile, AfterLog, PhaseInv, Quiet, Before
  <2> QED BY <1>6, <2>2, <2>3, <2>4
<1>7. CASE LoadBalancer
  <2>1. Working' = {} /\ {"device", "reference"} \subseteq held /\ held \subseteq Things
    BY <1>7 DEF LoadBalancer, Idle, PhaseInv, Quiet, Before, Working, TypeInv
  <2>2. ASSUME NEW shim \in SUBSET {"shim"}, EntryFails(held \cup shim)
        PROVE  PhaseInv'
    BY <2>1, <2>2, FailedEntry DEF Things
  <2>3. CASE phase' = "register" /\ held' = held \cup {"shim"} /\ UNCHANGED <<left, handle>>
    BY <1>7, <2>1, <2>3 DEF LoadBalancer, PhaseInv, Quiet, Before
  <2> QED BY <1>7, <2>2, <2>3 DEF LoadBalancer
<1>8. CASE RegisterParser
  <2>1. Working' = {} /\ {"device", "reference"} \subseteq held /\ held \subseteq Things
    BY <1>8 DEF RegisterParser, Idle, PhaseInv, Quiet, Before, Working, TypeInv
  <2>2. CASE EntryFails(held)
    BY <2>1, <2>2, FailedEntry
  <2>3. CASE ~ EntryFails(held)
    BY <1>8, <2>1, <2>3 DEF RegisterParser, PhaseInv, Quiet, Before
  <2> QED BY <2>2, <2>3
<1>9. CASE Unload \/ CleanupExtension
  BY <1>9 DEF Unload, CleanupExtension, PhaseInv, Quiet, Before, Working
<1>10. CASE LogCleanup
  <2>1. Working' = {}
    BY <1>10, CleanupAlone DEF LogCleanup, Working
  <2> QED BY <1>10, <2>1 DEF LogCleanup, PhaseInv, Quiet, Before
<1>11. CASE DispatchCleanup
  BY <1>11 DEF DispatchCleanup, PhaseInv, Quiet, Before, Working
<1>12. CASE UnloadImage
  <2>1. held \subseteq {"parameters"}
    BY <1>12 DEF UnloadImage, PhaseInv, TypeInv, Things
  <2> QED BY <1>12, <2>1 DEF UnloadImage, PhaseInv, Quiet, Before, Working
<1>13. CASE Crash
  BY <1>13 DEF Crash, PhaseInv, Quiet, Before, Working
<1>14. CASE UNCHANGED vars
  BY <1>1, <1>14 DEF vars
<1> QED
  BY <1>2, <1>3, <1>4, <1>5, <1>6, <1>7, <1>8, <1>9, <1>10, <1>11, <1>12, <1>13, <1>14
     DEF Next, DriverNext

-----------------------------------------------------------------------------
LEMMA InvNext == Inv /\ [Next]_vars => Inv'
BY TypeNext, CountNext, FlagNext, OrderNext, PhaseNext DEF Inv

LEMMA InvAlways == Spec => []Inv
BY InvInit, InvNext, PTL DEF Spec

-----------------------------------------------------------------------------
(* The theorems *)

\* Every variable of the log and of the driver has its type; LogScheduledPrints, which
\* Log_Cleanup waits for, never leaves the range of its threads.
THEOREM TypeCorrect == Spec => []TypeOK
<1>1. Inv => TypeOK
  <2> SUFFICES ASSUME Inv PROVE TypeOK
    OBVIOUS
  <2>1. scheduled \in 0..Cardinality(Threads)
    <3>1. IsFiniteSet(Threads) /\ Counted \subseteq Threads
      BY LogAssumption DEF Counted
    <3>2. /\ IsFiniteSet(Counted) /\ Cardinality(Counted) \in Nat
          /\ Cardinality(Threads) \in Nat /\ Cardinality(Counted) <= Cardinality(Threads)
      BY <3>1, FS_Subset, FS_CardinalityType
    <3> QED BY <3>2 DEF Inv, CountInv
  <2> QED BY <2>1 DEF Inv, TypeInv, TypeOK, LogTypeOK, Pcs, Phases
<1> QED BY <1>1, InvAlways, PTL

\* LogRotationInProgress keeps all but one thread out of Log_Rotate, and only a query or a
\* reopening that fails in Log_WriteLine leaves it set with nobody to reset it.
THEOREM FlagIsALock == Spec => []RotationFlag
<1>1. Inv => RotationFlag
  BY DEF Inv
<1> QED BY <1>1, InvAlways, PTL

\* Log_Rotate never puts a newer file behind an older one, whatever fails or crashes.
THEOREM KeptInOrder == Spec => []RotatedInOrder
<1>1. Inv => RotatedInOrder
  BY DEF Inv
<1> QED BY <1>1, InvAlways, PTL

\* EVhdDriverUnload leaves no thread at the log and nothing acquired but the registry key,
\* and a failed DriverEntry leaves the control device with what else it leaves.
THEOREM UnloadClean == Spec => []UnloadReleases
<1>1. Inv => UnloadReleases
  <2> SUFFICES ASSUME Inv PROVE UnloadReleases
    OBVIOUS
  <2>1. PhaseInv /\ phase \in Phases
    BY DEF Inv, TypeInv
  <2>2. Working # {} => {"device", "reference"} \subseteq held
    BY <2>1 DEF PhaseInv, Quiet, Before
  <2>3. phase \in {"delete", "image", "out"} => Working = {} /\ handle = 0
    BY <2>1 DEF PhaseInv, Quiet, Before
  <2>4. phase = "up" => left \cap {"device", "link"} = {}
    BY <2>1 DEF PhaseInv
  <2> QED BY <2>1, <2>2, <2>3, <2>4 DEF UnloadReleases, PhaseInv
<1> QED BY <1>1, InvAlways, PTL

\* Log_Rotate deletes the file under the largest suffix it may use, and renaming loses none.
THEOREM OldestGoes == Spec => OnlyOldestDeleted
<1> DEFINE Lost == \A i \in 1..Limit :
                     kept[i] # 0 /\ (\A j \in 1..Limit : kept'[j] # kept[i]) => i = maxKept
<1>1. ASSUME TypeInv, [Next]_vars PROVE Lost
  <2>1. CASE UNCHANGED kept
    BY <2>1
  <2>2. ASSUME NEW t \in Threads, Step(t) PROVE Lost
    <3>1. CASE DeleteOldest(t)
      BY <3>1 DEF DeleteOldest
    <3>2. CASE Rename(t)
      <4>1. /\ 1 \in 1..Limit /\ kept[1] = 0
            /\ \A i \in 1..Limit : i # 1 => kept'[i] = kept[i]
        BY <1>1, <3>2, LogAssumption DEF Rename, Free, Newest, TypeInv
      <4> QED BY <4>1
    <3>3. CASE Shift(t) /\ kept' # kept
      <4> DEFINE n == index[t]
      <4>1. /\ n \in 1..Limit /\ n + 1 \in 1..Limit /\ n + 1 # n /\ kept[n + 1] = 0
            /\ kept' = [kept EXCEPT ![n + 1] = kept[n], ![n] = 0]
        BY <1>1, <3>3, LogAssumption DEF Shift, Free, TypeInv
      <4>2. kept'[n + 1] = kept[n]
        BY <1>1, <4>1 DEF TypeInv
      <4>3. \A i \in 1..Limit : i # n /\ i # n + 1 => kept'[i] = kept[i]
        BY <1>1, <4>1 DEF TypeInv
      <4> QED BY <4>1, <4>2, <4>3
    <3>4. CASE StartFileLogging
      BY <2>1, <3>4 DEF StartFileLogging
    <3>5. CASE RotateFails(t) \/ StartLoop(t) \/ EndLoop(t) \/ CloseFile(t)
      BY <2>1, <3>5 DEF RotateFails, StartLoop, EndLoop, CloseFile, fileVars
    <3>6. CASE \/ LogPrint(t) \/ NoWorkItem(t) \/ WriteWorker(t) \/ FinishWorker(t)
               \/ FreeWorkItem(t)
      BY <2>1, <3>6
         DEF LogPrint, NoWorkItem, WriteWorker, FinishWorker, FreeWorkItem, fileVars
    <3>7. CASE \/ NoFile(t) \/ FileOpen(t) \/ StartRotation(t) \/ SkipRotation(t)
               \/ Query(t) \/ QueryFails(t)
      BY <2>1, <3>7 DEF NoFile, FileOpen, StartRotation, SkipRotation, Query, QueryFails, fileVars
    <3>8. CASE Reopen(t) \/ RestartFails(t) \/ Release(t) \/ Write(t) \/ Append(t)
      BY <2>1, <3>8 DEF Reopen, RestartFails, Release, Write, Append, fileVars
    <3> QED
      BY <2>1, <2>2, <3>1, <3>2, <3>3, <3>4, <3>5, <3>6, <3>7, <3>8
         DEF Step, Restart, StartFile
  <2>3. CASE SetSetting \/ DeleteFile
    BY <2>1, <2>3 DEF SetSetting, DeleteFile, fileVars
  <2>4. CASE LoadImage \/ CreateName("device", "link") \/ CreateName("link", "registry")
    BY <2>1, <2>4 DEF LoadImage, CreateName, logVars, fileVars
  <2>5. CASE OpenRegistry \/ ReadParameters \/ LoadBalancer \/ RegisterParser
    BY <2>1, <2>5 DEF OpenRegistry, ReadParameters, LoadBalancer, RegisterParser
  <2>6. CASE OpenLogFile
    BY <2>1, <2>6 DEF OpenLogFile, StartFileLogging, fileVars
  <2>7. CASE Unload \/ CleanupExtension \/ LogCleanup \/ DispatchCleanup \/ UnloadImage \/ Crash
    BY <2>1, <2>7
       DEF Unload, CleanupExtension, LogCleanup, DispatchCleanup, UnloadImage, Crash,
           logVars, fileVars
  <2>8. CASE UNCHANGED vars
    BY <2>1, <2>8 DEF vars, logVars, fileVars
  <2> QED
    BY <1>1, <2>2, <2>3, <2>4, <2>5, <2>6, <2>7, <2>8 DEF Next, LogNext, DriverNext
<1>2. Inv => TypeInv
  BY DEF Inv
<1>3. TypeInv /\ [Next]_vars => [Lost]_<<maxKept, kept>>
  BY <1>1
<1> QED BY <1>2, <1>3, InvAlways, PTL DEF Spec, OnlyOldestDeleted
=============================================================================
