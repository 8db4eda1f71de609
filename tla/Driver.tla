------------------------------- MODULE Driver -------------------------------
(***************************************************************************)
(* DriverEntry and the unload routine of the 2012 R2 and of the 2012       *)
(* driver (2012R2/driver.c, 2012/driver.c) around the log: what each start *)
(* step acquires, what a start that fails leaves, and in which order       *)
(* unloading takes everything away while workers of the log still run.     *)
(*                                                                         *)
(* The system may crash at any moment, and the driver be loaded again.     *)
(***************************************************************************)
EXTENDS Log

CONSTANT Loads      \* bound on the number of times the driver is loaded

ASSUME DriverAssumption == Loads \in Nat

VARIABLES
    version,        \* "2012" or "2012R2"
    held,           \* what the loaded driver has acquired
    left,           \* what a driver that is gone has not released
    loads

driverVars == <<version, held, left, loads>>
vars == <<phase, logVars, driverVars>>

Things == {"device", "link", "reference", "parameters", "shim", "file"}

TypeOK ==
    /\ LogTypeOK
    /\ phase \in {"out", "device", "link", "registry", "parameters", "file", "shim", "register",
                  "up", "ending", "cleanup", "delete", "image", "fault"}
    /\ version \in {"2012", "2012R2"}
    /\ held \subseteq Things \ {"file"} /\ left \subseteq Things
    /\ loads \in 0..Loads

Init ==
    /\ phase = "out" /\ version \in {"2012", "2012R2"}
    /\ held = {} /\ left = {} /\ loads = 0
    /\ LogInit

-----------------------------------------------------------------------------
(* DriverEntry *)

\* The image is loaded, with its static variables as they are declared; Ext_Initialize
\* cannot fail.
LoadImage ==
    /\ phase = "out" /\ loads < Loads
    /\ phase' = "device" /\ loads' = loads + 1
    /\ rotating' = FALSE /\ broken' = FALSE
    /\ UNCHANGED <<version, held, left, maxKept, scheduled, fileVars, pc, index>>

\* DPT_Initialize cleans up after itself: DPT_Cleanup deletes the name of the link,
\* whoever has created it, and the device that this driver has created.
DispatchFails ==
    /\ phase' = "out" /\ held' = {}
    /\ left' = left \ {"link"}

\* DPT_Initialize: a name that is left cannot be created again.
CreateName(name, to) ==
    /\ phase = name
    /\ \/ /\ name \notin left
          /\ phase' = to /\ held' = held \cup {name}
          /\ UNCHANGED left
       \/ DispatchFails
    /\ UNCHANGED <<version, loads, logVars>>

\* Any later failure returns from DriverEntry with everything as it is.
EntryFails(acquired) ==
    /\ phase' = "out" /\ held' = {}
    /\ left' = left \cup acquired \cup (IF handle = 0 THEN {} ELSE {"file"})
    /\ handle' = 0

\* Log_Initialize references the device before it opens its registry keys.
OpenRegistry ==
    /\ phase = "registry"
    /\ \/ phase' = "parameters" /\ held' = held \cup {"reference"} /\ UNCHANGED <<left, handle>>
       \/ EntryFails(held \cup {"reference"})
    /\ UNCHANGED <<version, loads, maxKept, rotating, scheduled, generation, size,
                   deletePending, kept, pc, index, broken>>

ReadParameters ==
    /\ phase = "parameters"
    /\ \/ /\ phase' = "file" /\ held' = held \cup {"parameters"}
          /\ maxKept' \in MaxKepts
          /\ UNCHANGED <<left, handle>>
       \/ EntryFails(held) /\ UNCHANGED maxKept
    /\ UNCHANGED <<version, loads, rotating, scheduled, generation, size, deletePending, kept,
                   pc, index, broken>>

\* Log_Initialize opens the log file, if the registry names one.
AfterLog == IF version = "2012" THEN "shim" ELSE "register"

OpenLogFile ==
    /\ phase = "file"
    /\ \/ phase' = AfterLog /\ StartFileLogging /\ UNCHANGED <<held, left>>
       \/ phase' = AfterLog /\ UNCHANGED <<held, left, fileVars>>
       \/ EntryFails(held) /\ UNCHANGED <<generation, size, deletePending, kept>>
    /\ UNCHANGED <<version, loads, maxKept, rotating, scheduled, pc, index, broken>>

\* EVhdDriverLoad of the 2012 driver keeps the handle of the shim device.
LoadBalancer ==
    /\ phase = "shim" /\ Idle
    /\ \/ phase' = "register" /\ held' = held \cup {"shim"} /\ UNCHANGED <<left, handle>>
       \/ \E shim \in SUBSET {"shim"} : EntryFails(held \cup shim)
    /\ UNCHANGED <<version, loads, maxKept, rotating, scheduled, generation, size,
                   deletePending, kept, pc, index, broken>>

\* VstorRegisterParser, RegisterParser
RegisterParser ==
    /\ phase = "register" /\ Idle
    /\ \/ phase' = "up" /\ UNCHANGED <<held, left, handle>>
       \/ EntryFails(held)
    /\ UNCHANGED <<version, loads, maxKept, rotating, scheduled, generation, size,
                   deletePending, kept, pc, index, broken>>

-----------------------------------------------------------------------------
(* EVhdDriverUnload, when no thread but the workers of the log is in the driver *)

Unload ==
    /\ phase = "up" /\ \A t \in Threads \ Deferred : pc[t] = "idle"
    /\ phase' = "ending" /\ held' = held \ {"shim"}
    /\ UNCHANGED <<version, left, loads, logVars>>

\* Ext_Cleanup, of the 2012 R2 driver: CipherCleanup releases a mutex that nobody holds
\* and leaves the list of cipher options, which nothing uses from here on.
CleanupExtension ==
    /\ phase = "ending" /\ \A t \in Threads \ Deferred : pc[t] = "idle"
    /\ phase' = "cleanup"
    /\ UNCHANGED <<driverVars, logVars>>

\* Log_Cleanup does not close LogParametersKey.
LogCleanup ==
    /\ phase = "cleanup" /\ WaitForWorkers
    /\ phase' = "delete" /\ handle' = 0 /\ held' = held \ {"reference"}
    /\ UNCHANGED <<version, left, loads, maxKept, rotating, scheduled, generation, size,
                   deletePending, kept, pc, index, broken>>

DispatchCleanup ==
    /\ phase = "delete"
    /\ phase' = "image" /\ held' = held \ {"device", "link"}
    /\ UNCHANGED <<version, left, loads, logVars>>

\* The I/O manager keeps the image while a work item of the driver runs.
UnloadImage ==
    /\ phase = "image" /\ Idle
    /\ phase' = "out" /\ held' = {} /\ left' = left \cup held
    /\ UNCHANGED <<version, loads, logVars>>

\* Memory is gone and files stay; one that waited for its handle to be closed stays, too.
Crash ==
    /\ phase' = "out" /\ held' = {} /\ left' = {}
    /\ handle' = 0 /\ deletePending' = (deletePending /\ handle = 0)
    /\ pc' = [t \in Threads |-> "idle"] /\ index' = [t \in Threads |-> 0]
    /\ scheduled' = 0 /\ rotating' = FALSE /\ broken' = FALSE
    /\ UNCHANGED <<version, loads, maxKept, generation, size, kept>>

-----------------------------------------------------------------------------
DriverNext ==
    \/ LoadImage \/ CreateName("device", "link") \/ CreateName("link", "registry")
    \/ OpenRegistry \/ ReadParameters \/ OpenLogFile \/ LoadBalancer \/ RegisterParser
    \/ Unload \/ CleanupExtension \/ LogCleanup \/ DispatchCleanup \/ UnloadImage

\* After a fault there is nothing but the crash.
Next == (phase # "fault" /\ (DriverNext \/ (LogNext /\ UNCHANGED driverVars))) \/ Crash

Spec == Init /\ [][Next]_vars

-----------------------------------------------------------------------------
(* Properties *)

Working == {t \in Threads : pc[t] \notin {"idle", "free"}}

\* From Log_Cleanup on no thread is at the log, and until then the device that workers
\* are queued for is there and referenced; unloading releases everything but the
\* registry key of the log, and whatever more is left by a driver that did not start
\* includes the control device, whose name then keeps the driver from starting.
UnloadReleases ==
    /\ Working # {} => {"device", "reference"} \subseteq held
    /\ phase \in {"delete", "image", "out"} => Working = {} /\ handle = 0
    /\ phase = "up" => left \cap {"device", "link"} = {}
    /\ left \subseteq {"parameters"} \/ {"device", "reference"} \subseteq left
=============================================================================
