----------------------------- MODULE Parser2012 -----------------------------
(***************************************************************************)
(* One virtual disk of the Windows Server 2012 driver (2012/parser.c); its *)
(* extension and its cipher options are in Extension.                      *)
(*                                                                         *)
(* Unlike its successor this parser keeps what vhdmp refuses to take back: *)
(* a removal, or the end of the QoS registration, that fails stops         *)
(* EVhd_UnregisterIo, and EVhd_Mount forgets that the disk was mounted all *)
(* the same.  An IOCTL that pends and then fails counts as a success       *)
(* (pends), a refusal included.  Most promises hold until vhdmp refuses    *)
(* (unremoved).  The VSP makes one control call at a time and starts       *)
(* packets on a mounted disk; vhdmp completes a packet whenever it likes,  *)
(* but has none left when it has removed the disk.                         *)
(***************************************************************************)
EXTENDS Extension

CONSTANTS
    Width,          \* bits of a ULONG32
    StateSize,      \* sizeof(PARSER_STATE)
    Sizes           \* save sizes and buffer sizes

ASSUME ParserAssumption ==
    /\ Width \in Nat /\ 2^Width \in Nat
    /\ StateSize \in 0..(2^Width - 1) /\ Sizes \subseteq 0..(2^Width - 1)

VARIABLES
    ctl,            \* the control call: its next step, and ...
    caller,         \* ... for EVhd_UnregisterIo, who called it
    held,           \* resources of the parser; "stray": an object nobody refers to
    registered,     \* bIoRegistered
    qos, routines, saveSize,    \* bQoSRegistered, vhdmp's routines are set, dwDiskSaveSize
    mounted,        \* bMounted
    pends,          \* may an IOCTL pend and fail afterwards? (never changes)
    unremoved,      \* history: vhdmp has refused to remove or to unregister
    orphaned        \* history: packets at vhdmp when their cipher was forgotten

qosVars == <<qos, routines, saveSize>>
controlVars == <<ctl, caller, held, extension, registered, qosVars, mounted, pends>>
historyVars == <<unremoved, orphaned>>
vars == <<controlVars, historyVars, cipherVars, store, packetVars, fault>>

Resources == {"handle", "object", "instance", "stray"}

TypeOK ==
    /\ ExtTypeOK
    /\ ctl \in {"closed", "instance", "geometry", "extension", "idle", "qos", "register",
                "address", "remove", "unregister", "destroyed", "forgotten", "deleted",
                "finalize"}
    /\ caller \in {"none", "mount", "dismount", "delete", "cleanup"}
    /\ held \in SUBSET Resources
    /\ registered \in BOOLEAN /\ qos \in BOOLEAN /\ mounted \in BOOLEAN
    /\ saveSize \in Sizes \cup {0} /\ routines \in BOOLEAN
    /\ ~ qos => saveSize = 0 /\ ~ routines
    /\ pends \in BOOLEAN /\ unremoved \in BOOLEAN /\ orphaned \in SUBSET Packets
    /\ fault \in {"none", "null_irp", "double_close", "null_mdl", "short_mdl", "freed_extension",
                  "lost_cipher", "freed_source", "freed_parser", "null_call", "overrun"}

Init ==
    /\ ctl = "closed" /\ caller = "none" /\ held = {}
    /\ registered = FALSE /\ qos = FALSE /\ routines = FALSE /\ saveSize = 0 /\ mounted = FALSE
    /\ pends \in BOOLEAN
    /\ unremoved = FALSE /\ orphaned = {}
    /\ ExtInit

\* SetCipherOpts, at any time, from the control device.
SetCipherOpts ==
    /\ Running
    /\ store' \in Algorithms \cup {Null}
    /\ UNCHANGED <<controlVars, historyVars, cipherVars, packetVars, fault>>

-----------------------------------------------------------------------------
(* Init *)

\* EVhd_Init: OpenVhdmpDevice succeeds (its failure changes nothing).  The module
\* follows no second instance beside one that vhdmp still has.
OpenDevice ==
    /\ Running /\ ctl = "closed" /\ ~ unremoved
    /\ ctl' = "instance" /\ held' = held \cup {"handle", "object"}
    /\ UNCHANGED <<caller, extension, registered, qosVars, mounted, pends, historyVars,
                   cipherVars, store, packetVars, fault>>

\* Without memory for the instance only the handle is closed.
AllocateParser ==
    /\ Running /\ ctl = "instance"
    /\ \/ ctl' = "geometry" /\ held' = held \cup {"instance"}
       \/ ctl' = "closed" /\ held' = (held \ {"handle", "object"}) \cup {"stray"}
    /\ UNCHANGED <<caller, extension, registered, qosVars, mounted, pends, historyVars,
                   cipherVars, store, packetVars, fault>>

\* EVhd_Initialize takes the handle and the object into the instance; when it
\* fails it drops the object and EVhd_Init the handle, and EVhd_Cleanup of the
\* empty instance frees the rest.
Initialize ==
    /\ Running /\ ctl = "geometry"
    /\ \/ ctl' = "extension" /\ UNCHANGED held
       \/ ctl' = "closed" /\ held' = held \ {"handle", "object", "instance"}
    /\ UNCHANGED <<caller, extension, registered, qosVars, mounted, pends, historyVars,
                   cipherVars, store, packetVars, fault>>

\* EVhd_InitializeExtension; its failure closes the handle, which EVhd_Finalize
\* of the instance then closes once more.
InitializeExtension ==
    /\ Running /\ ctl = "extension"
    /\ \/ ctl' = "idle" /\ extension' \in BOOLEAN /\ UNCHANGED <<held, fault>>
       \/ /\ fault' = "double_close" /\ held' = held \ {"handle"}
          /\ UNCHANGED <<ctl, extension>>
    /\ UNCHANGED <<caller, registered, qosVars, mounted, pends, historyVars, cipherVars, store,
                   packetVars>>

-----------------------------------------------------------------------------
(* Mount *)

\* EVhd_Mount(TRUE) of a disk that is not mounted; EVhd_RegisterIo begins with the
\* extension.
Mount ==
    /\ Running /\ ctl = "idle" /\ ~ mounted
    /\ caller' = "mount"
    /\ \/ /\ extension
          /\ \/ ExtMount("ok") /\ ctl' = "qos"
             \/ ExtMount("failed") /\ ctl' = "remove"
       \/ ~ extension /\ UNCHANGED cipherVars /\ ctl' = "qos"
    /\ UNCHANGED <<held, extension, registered, qosVars, mounted, pends, historyVars, store,
                   packetVars, fault>>

\* What EVhd_Mount does when a step has failed.
MountFailed == "remove"

\* EVhd_RegisterQoS keeps vhdmp's routines and the size of its state.  If the IOCTL
\* pends and then fails the response is all zero.
RegisterQoS ==
    /\ Running /\ ctl = "qos"
    /\ \/ ~ qos /\ qos' = TRUE /\ routines' = TRUE /\ saveSize' \in Sizes /\ ctl' = "register"
       \/ /\ ~ qos /\ pends
          /\ qos' = TRUE /\ routines' = FALSE /\ saveSize' = 0 /\ ctl' = "register"
       \/ ~ qos /\ ctl' = MountFailed /\ UNCHANGED qosVars
       \/ qos /\ ctl' = "register" /\ UNCHANGED qosVars
    /\ UNCHANGED <<caller, held, extension, registered, mounted, pends, historyVars, cipherVars,
                   store, packetVars, fault>>

\* IOCTL_STORAGE_REGISTER_IO, which has no response: if it pends and then fails,
\* nothing differs but what vhdmp does afterwards.
RegisterIo ==
    /\ Running /\ ctl = "register"
    /\ \/ registered' = TRUE /\ ctl' = "address"
       \/ ~ registered /\ ctl' = MountFailed /\ UNCHANGED registered
    /\ UNCHANGED <<caller, held, extension, qosVars, mounted, pends, historyVars, cipherVars,
                   store, packetVars, fault>>

\* IOCTL_SCSI_GET_ADDRESS
GetAddress ==
    /\ Running /\ ctl = "address"
    /\ \/ ctl' = "idle" /\ caller' = "none" /\ mounted' = TRUE
       \/ ctl' = MountFailed /\ UNCHANGED <<caller, mounted>>
    /\ UNCHANGED <<held, extension, registered, qosVars, pends, historyVars, cipherVars, store,
                   packetVars, fault>>

-----------------------------------------------------------------------------
(* Dismount and cleanup *)

\* EVhd_Mount(FALSE) of a mounted disk.
Dismount ==
    /\ Running /\ ctl = "idle" /\ mounted
    /\ ctl' = "remove" /\ caller' = "dismount"
    /\ UNCHANGED <<held, extension, registered, qosVars, mounted, pends, historyVars, cipherVars,
                   store, packetVars, fault>>

\* EVhd_Cleanup deletes the extension first, which Ext_Delete dismounts: the engine is
\* there only if there is an extension ...
Cleanup ==
    /\ Running /\ ctl = "idle"
    /\ ExtDestroy
    /\ ctl' = "destroyed" /\ caller' = "delete"
    /\ UNCHANGED <<held, extension, registered, qosVars, mounted, pends, historyVars, store,
                   packetVars, fault>>

\* ... and forgets it; then EVhd_Mount(FALSE) finds the disk mounted, or does nothing.
Unmounts_Never == FALSE                 \* mutant
Unmounts == mounted

CleanupMount ==
    /\ Running /\ ctl = "deleted"
    /\ extension' = FALSE
    /\ caller' = "cleanup" /\ ctl' = IF Unmounts THEN "remove" ELSE "finalize"
    /\ UNCHANGED <<held, registered, qosVars, mounted, pends, historyVars, cipherVars, store,
                   packetVars, fault>>

\* EVhd_UnregisterIo is over.  After a dismount and in a cleanup the disk does not
\* count as mounted, whatever became of it.
UnregisterIoReturns ==
    /\ ctl' = IF caller = "cleanup" THEN "finalize" ELSE "idle"
    /\ caller' = IF caller = "cleanup" THEN "cleanup" ELSE "none"
    /\ mounted' = FALSE

\* IOCTL_STORAGE_REMOVE_VIRTUAL_DISK: a refusal ends EVhd_UnregisterIo, unless the
\* IOCTL has pended.
RemoveVirtualDisk ==
    /\ Running /\ ctl = "remove"
    /\ \/ /\ registered => Pending = {}
          /\ ctl' = "unregister" /\ registered' = FALSE
          /\ UNCHANGED <<caller, mounted, unremoved>>
       \/ /\ registered
          /\ UnregisterIoReturns
          /\ unremoved' = TRUE /\ UNCHANGED registered
       \/ /\ registered /\ pends
          /\ ctl' = "unregister" /\ registered' = FALSE
          /\ unremoved' = TRUE /\ UNCHANGED <<caller, mounted>>
    /\ UNCHANGED <<held, extension, qosVars, pends, orphaned, cipherVars, store, packetVars,
                   fault>>

\* EVhd_UnregisterQoS, and Ext_Dismount when that has succeeded too.
UnregisterQoS ==
    /\ Running /\ ctl = "unregister"
    /\ \/ /\ qos' = FALSE /\ routines' = FALSE /\ saveSize' = 0
          /\ \/ UNCHANGED unremoved
             \/ qos /\ pends /\ unremoved' = TRUE
          /\ ExtDestroy
          /\ ctl' = "destroyed" /\ UNCHANGED <<caller, mounted>>
       \/ /\ qos /\ unremoved' = TRUE
          /\ UnregisterIoReturns
          /\ UNCHANGED <<qosVars, cipherVars>>
    /\ UNCHANGED <<held, extension, registered, pends, orphaned, store, packetVars, fault>>

ForgetContext ==
    /\ Running /\ ctl = "destroyed"
    /\ ExtForgetContext
    /\ ctl' = "forgotten"
    /\ UNCHANGED <<caller, held, extension, registered, qosVars, mounted, pends, historyVars,
                   store, packetVars, fault>>

\* The end of Ext_Dismount, and of EVhd_UnregisterIo or of Ext_Delete.
ForgetEngine ==
    /\ Running /\ ctl = "forgotten"
    /\ ExtForgetEngine
    /\ orphaned' = IF extension THEN orphaned \cup Pending ELSE orphaned
    /\ \/ caller = "delete" /\ ctl' = "deleted" /\ UNCHANGED <<caller, mounted>>
       \/ caller # "delete" /\ UnregisterIoReturns
    /\ UNCHANGED <<held, extension, registered, qosVars, pends, unremoved, store, packetVars,
                   fault>>

\* EVhd_Finalize, and the instance is freed.  What vhdmp still has of it stays.
Finalize ==
    /\ Running /\ ctl = "finalize"
    /\ held' = held \ {"object", "handle", "instance"}
    /\ ctl' = "closed" /\ caller' = "none"
    /\ UNCHANGED <<extension, registered, qosVars, mounted, pends, historyVars, cipherVars, store,
                   packetVars, fault>>

-----------------------------------------------------------------------------
(* SynchronouseCall without memory *)

\* The next step calls SynchronouseCall.
Calls ==
    \/ ctl = "closed" /\ ~ unremoved
    \/ ctl \in {"geometry", "extension", "address"}
    \/ ctl = "qos" /\ ~ qos
    \/ ctl = "register" /\ ~ registered
    \/ ctl = "remove" /\ registered
    \/ ctl = "unregister" /\ qos

\* It uses the IRP that it failed to allocate.
CallWithoutIrp ==
    /\ Running /\ Calls
    /\ fault' = "null_irp"
    /\ UNCHANGED <<controlVars, historyVars, cipherVars, store, packetVars>>

-----------------------------------------------------------------------------
(* SCSI packets *)

\* EVhd_ExecuteSrb refuses a packet while vhdmp's routine is not known.
ExecuteSrb(p, o) ==
    /\ Running /\ ctl = "idle" /\ mounted /\ p \notin Pending
    /\ routines
    /\ StartPacket(routines, p, o)
    /\ orphaned' = orphaned \ {p}
    /\ UNCHANGED <<controlVars, unremoved, cipherVars, store>>

ExecuteSrbNoMemory(p) ==
    /\ Running /\ ctl = "idle" /\ mounted /\ p \notin Pending /\ routines
    /\ NoMemory
    /\ UNCHANGED <<controlVars, historyVars, cipherVars, store, packetVars>>

\* EVhd_SrbCompleteRequest, the callback of vhdmp, looks at the parser and at its
\* extension ...
SrbCompleteRequest(p, status) ==
    /\ Running /\ state[p] = "pending"
    /\ \/ "instance" \in held /\ Complete(p, status, ctl = "deleted")
       \/ "instance" \notin held /\ fault' = "freed_parser" /\ UNCHANGED packetVars
    /\ UNCHANGED <<controlVars, historyVars, cipherVars, store>>

\* ... and decrypts a read while control calls go on.
CryptBlocks(p) ==
    /\ Running /\ state[p] = "decrypting"
    /\ Decrypt(p, ctl = "deleted")
    /\ UNCHANGED <<controlVars, historyVars, cipherVars, store>>

-----------------------------------------------------------------------------
(* Save and restore: 32-bit sizes *)

\* EVhd_GetFinalSaveSize, and the comparison with the caller's buffer.
FinalSaveSize == (saveSize + StateSize) % 2^Width
Fits_NoOverflowCheck(size) == FinalSaveSize <= size                 \* mutant
Fits(size) == FinalSaveSize >= saveSize /\ FinalSaveSize <= size

\* EVhd_SaveData and EVhd_RestoreData: vhdmp's routine reads or writes saveSize
\* bytes behind the parser's own state.
SaveOrRestoreData(size) ==
    /\ Running /\ ctl = "idle" /\ mounted
    /\ Fits(size)
    /\ fault' = IF ~ routines THEN "null_call"
                ELSE IF StateSize + saveSize > size THEN "overrun" ELSE "none"
    /\ UNCHANGED <<controlVars, historyVars, cipherVars, store, packetVars>>

-----------------------------------------------------------------------------
Control ==
    \/ OpenDevice \/ AllocateParser \/ Initialize \/ InitializeExtension
    \/ Mount \/ RegisterQoS \/ RegisterIo \/ GetAddress
    \/ Dismount \/ Cleanup \/ CleanupMount \/ RemoveVirtualDisk \/ UnregisterQoS
    \/ ForgetContext \/ ForgetEngine \/ Finalize \/ CallWithoutIrp
    \/ \E size \in Sizes : SaveOrRestoreData(size)

Packet(p) ==
    \/ \E o \in Operations : ExecuteSrb(p, o)
    \/ ExecuteSrbNoMemory(p)
    \/ \E status \in {"ok", "failed"} : SrbCompleteRequest(p, status)
    \/ CryptBlocks(p)

\* Nothing is said of a system in which a step has undefined behaviour.
Faulted == ~ Running /\ UNCHANGED vars

Next == SetCipherOpts \/ Control \/ (\E p \in Packets : Packet(p)) \/ Faulted

Spec == Init /\ [][Next]_vars

-----------------------------------------------------------------------------
(* Properties *)

\* What does not depend on others: an allocation that is not checked, or comes out too
\* short, and the second close of a handle in EVhd_Init.
Unchecked == {"null_irp", "null_mdl", "short_mdl", "double_close"}

\* As long as vhdmp takes back what it is asked to, there is beside that no undefined
\* behaviour in EVhd_Init, EVhd_Mount and the packets between them: only
\* EVhd_Cleanup takes cipher and extension away from packets that vhdmp still has, and
\* only an IOCTL that pends and then fails leaves a disk mounted without the routines
\* that EVhd_SaveData and EVhd_RestoreData call.
MemorySafe ==
    \/ unremoved
    \/ fault \in {"none"} \cup Unchecked
    \/ fault \in {"freed_extension", "lost_cipher"} /\ caller \in {"delete", "cleanup"}
    \/ fault = "null_call" /\ pends

\* Even when vhdmp refuses to let a disk go, and the disk is then mounted again with
\* another cipher, a write comes back with the pages of its inner MDL freed (the MDL
\* itself is never freed).  The exception are the packets that were at vhdmp when
\* EVhd_Cleanup, or a dismount that took a refusal for a success, had their cipher
\* forgotten.
InnerFreed == \A p \in Packets : state[p] = "done" /\ inner[p] = "live" => p \in orphaned

\* Between control calls a mounted disk has both of its registrations, with routines if
\* no IOCTL pended, and one that EVhd_Mount failed to mount, at whatever step, or has
\* dismounted has neither, unless vhdmp refused.  EVhd_Cleanup, and an EVhd_Init that
\* fails, leave no handle, object, instance, registration or cipher context; a stray
\* object is left by an EVhd_Init that found no memory for the instance.
CleanupReleases ==
    /\ ctl = "idle" =>
          /\ mounted => registered /\ qos /\ (routines \/ pends)
          /\ ~ mounted => ~ (registered \/ qos) \/ unremoved
    /\ ctl = "closed" =>
          /\ held \subseteq {"stray"}
          /\ unremoved \/ (live = {} /\ engine = Null /\ ~ (registered \/ qos))
=============================================================================
