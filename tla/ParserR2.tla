------------------------------ MODULE ParserR2 ------------------------------
(***************************************************************************)
(* One virtual disk of the 2012 R2 driver (2012R2/parser.c); its extension *)
(* and its cipher options are in Extension.                                *)
(*                                                                         *)
(* The storage VSP makes one control call at a time (open, mount,          *)
(* dismount, save, restore, close) and none while a call of                *)
(* EVhd_ExecuteScsiRequestDisk has not returned; packets that vhdmp has    *)
(* accepted stay pending across control calls and are completed by a       *)
(* callback at any moment.  The parser itself takes no lock on either      *)
(* path.  vhdmp and the VSP are not part of the repository; what the code  *)
(* relies on them for is chosen by env, which never changes.               *)
(***************************************************************************)
EXTENDS Extension

CONSTANTS
    Environments,   \* values of env
    Width,          \* bits of a ULONG32
    StateSize,      \* sizeof(PARSER_STATE)
    Sizes           \* save sizes and buffer sizes

ASSUME ParserAssumption ==
    /\ Environments \subseteq [drains : BOOLEAN, remounts : BOOLEAN, pends : BOOLEAN]
    /\ Width \in Nat /\ 2^Width \in Nat
    /\ StateSize \in 0..(2^Width - 1) /\ Sizes \subseteq 0..(2^Width - 1)

VARIABLES
    env,            \* does IOCTL_STORAGE_REMOVE_VIRTUAL_DISK wait for pending packets, may the
                    \* VSP mount a mounted disk, may an IOCTL pend and fail afterwards?
    ctl,            \* the control call: its next step, and ...
    caller,         \* ... for EVhd_UnregisterIo and Ext_Dismount, who called it
    held,           \* resources of the parser instance
    registered,     \* bIoRegistered
    io,             \* the routines of Io are set
    mounted, saveSize

controlVars == <<ctl, caller, held, extension, registered, io, mounted, saveSize>>
vars == <<env, controlVars, cipherVars, store, packetVars, fault>>

Opening == {"instance", "irp", "sectors", "qos", "extension", "failed"}

TypeOK ==
    /\ ExtTypeOK
    /\ env \in Environments
    /\ ctl \in Opening \cup {"closed", "idle", "register", "address", "remove", "unregister",
                            "destroyed", "forgotten", "finalize", "deleted", "ask", "names"}
    /\ caller \in {"none", "mount", "dismount", "close", "delete"}
    /\ held \in SUBSET {"handle", "object", "instance", "irp", "qos", "names"}
    /\ registered \in BOOLEAN /\ io \in BOOLEAN /\ mounted \in BOOLEAN
    /\ saveSize \in Sizes \cup {0}
    /\ fault \in {"none", "null_irp", "null_parser", "null_mdl", "short_mdl", "freed_source",
                 "freed_parser", "freed_extension", "lost_cipher", "null_call", "overrun",
                 "overrun_names"}

Init ==
    /\ env \in Environments
    /\ ctl = "closed" /\ caller = "none" /\ held = {}
    /\ registered = FALSE /\ io = FALSE /\ mounted = FALSE /\ saveSize = 0
    /\ ExtInit

-----------------------------------------------------------------------------
(* cipher.c *)

\* SetCipherOpts, from an IOCTL of the control device; a disabled cipher and a
\* disk without an entry look the same to CipherEngineGet.
SetCipherOpts ==
    /\ Running
    /\ store' \in Algorithms \cup {Null}
    /\ UNCHANGED <<env, controlVars, cipherVars, packetVars, fault>>

-----------------------------------------------------------------------------
(* utils.c *)

\* The status of SynchronouseCall, and whether vhdmp has done what it was asked: an
\* IOCTL that pends is waited for, and STATUS_PENDING returned, a success.
Replies ==
    {<<"ok", TRUE>>, <<"failed", FALSE>>} \cup (IF env.pends THEN {<<"ok", FALSE>>} ELSE {})

-----------------------------------------------------------------------------
(* Open and close *)

\* EVhd_OpenDisk: OpenVhdmpDevice succeeds (its failure changes nothing).  The module
\* follows no second instance beside packets of the first, ...
OpenDisk ==
    /\ Running /\ ctl = "closed" /\ Pending = {}
    /\ ctl' = "instance" /\ held' = {"handle", "object"}   \* (an earlier leak is forgotten)
    /\ UNCHANGED <<env, caller, extension, registered, io, mounted, saveSize, cipherVars,
                   store, packetVars, fault>>

\* ... each further step acquires something, or fails.
Acquires(from, gained, to) ==
    /\ ctl = from
    /\ \/ ctl' = to /\ held' = held \cup gained
       \/ ctl' = "failed" /\ UNCHANGED held

OpenDiskStep ==
    /\ Running
    /\ \/ Acquires("instance", {"instance"}, "irp")
       \/ Acquires("irp", {"irp"}, "sectors")
       \/ Acquires("sectors", {}, "qos")
       \/ \E interface \in {{"qos"}, {}} : Acquires("qos", interface, "extension")
    /\ UNCHANGED <<env, caller, extension, registered, io, mounted, saveSize, cipherVars,
                   store, packetVars, fault>>

\* EVhd_InitializeExtension: no extension for a format other than VHD and VHDX.
InitializeExtension ==
    /\ Running /\ ctl = "extension"
    /\ \/ ctl' = "idle" /\ extension' \in BOOLEAN
       \/ ctl' = "failed" /\ UNCHANGED extension
    /\ UNCHANGED <<env, caller, held, registered, io, mounted, saveSize, cipherVars, store,
                   packetVars, fault>>

\* EVhd_CloseDisk unregisters QoS, then unregisters a mounted disk.
Close(h) ==
    /\ held' = h \ {"qos"}
    /\ caller' = "close"
    /\ ctl' = IF mounted THEN "remove" ELSE "finalize"

CloseDisk ==
    /\ Running /\ ctl = "idle"
    /\ Close(held)
    /\ UNCHANGED <<env, extension, registered, io, mounted, saveSize, cipherVars, store,
                   packetVars, fault>>

\* The failure path closes the handle, clears it in an instance that may not
\* exist, and closes the disk.
OpenDiskFailed ==
    /\ Running /\ ctl = "failed"
    /\ \/ /\ "instance" \in held
          /\ Close(held \ {"handle"})
          /\ UNCHANGED fault
       \/ /\ "instance" \notin held
          /\ held' = held \ {"handle"}
          /\ fault' = "null_parser"
          /\ UNCHANGED <<ctl, caller>>
    /\ UNCHANGED <<env, extension, registered, io, mounted, saveSize, cipherVars, store,
                   packetVars>>

\* EVhd_Finalize: Ext_Delete dismounts the extension once more and frees it, ...
DeleteExtension ==
    /\ Running /\ ctl = "finalize"
    /\ ExtDestroy
    /\ ctl' = "destroyed" /\ caller' = "delete"
    /\ UNCHANGED <<env, held, extension, registered, io, mounted, saveSize, store, packetVars,
                   fault>>

\* ... its pointer is cleared, and the rest of the instance freed.
Finalize ==
    /\ Running /\ ctl = "deleted"
    /\ extension' = FALSE /\ mounted' = FALSE
    /\ held' = held \ {"irp", "object", "handle", "instance"}
    /\ ctl' = "closed" /\ caller' = "none"
    /\ UNCHANGED <<env, registered, io, saveSize, cipherVars, store, packetVars, fault>>

-----------------------------------------------------------------------------
(* Mount and dismount *)

\* EVhd_RegisterIo asks the extension before it looks at bIoRegistered.
MountDisk ==
    /\ Running /\ ctl = "idle"
    /\ mounted => env.remounts
    /\ caller' = "mount"
    /\ \/ /\ extension
          /\ \/ ExtMount("ok") /\ ctl' = "register"
             \/ ExtMount("failed") /\ ctl' = "remove"
       \/ ~ extension /\ UNCHANGED cipherVars /\ ctl' = "register"
    /\ UNCHANGED <<env, held, extension, registered, io, mounted, saveSize, store, packetVars,
                   fault>>

\* IOCTL_STORAGE_REGISTER_IO: without an answer from vhdmp the response is all zero,
\* routines included.
RegisterIo ==
    /\ Running /\ ctl = "register" /\ ~ registered
    /\ \E reply \in Replies :
          \/ /\ reply[1] = "ok" /\ ctl' = "address" /\ registered' = TRUE
             /\ io' = reply[2] /\ saveSize' \in IF reply[2] THEN Sizes ELSE {0}
          \/ reply[1] = "failed" /\ ctl' = "remove" /\ UNCHANGED <<registered, io, saveSize>>
    /\ UNCHANGED <<env, caller, held, extension, mounted, cipherVars, store, packetVars, fault>>

\* What EVhd_MountDisk does when a step has failed.
MountFailed_NoRollback == "idle"        \* mutant
MountFailed == "remove"

\* IOCTL_SCSI_GET_ADDRESS
GetAddress ==
    /\ Running /\ ctl = "address"
    /\ \/ ctl' = "idle" /\ caller' = "none" /\ mounted' = TRUE
       \/ ctl' = MountFailed /\ UNCHANGED <<caller, mounted>>
    /\ UNCHANGED <<env, held, extension, registered, io, saveSize, cipherVars, store,
                   packetVars, fault>>

AlreadyRegistered ==
    /\ Running /\ ctl = "register" /\ registered
    /\ ctl' = "idle" /\ caller' = "none" /\ mounted' = TRUE
    /\ UNCHANGED <<env, held, extension, registered, io, saveSize, cipherVars, store,
                   packetVars, fault>>

DismountDisk ==
    /\ Running /\ ctl = "idle"
    /\ ctl' = "remove" /\ caller' = "dismount"
    /\ UNCHANGED <<env, held, extension, registered, io, mounted, saveSize, cipherVars, store,
                   packetVars, fault>>

\* EVhd_UnregisterIo: the virtual disk is removed from vhdmp first ...
Removed_AtOnce == ctl = "remove"        \* mutant: the extension goes first
Removed == registered /\ env.drains => Pending = {}

RemoveVirtualDisk ==
    /\ Running /\ ctl = "remove" /\ Removed
    /\ ctl' = "unregister"
    /\ UNCHANGED <<env, caller, held, extension, registered, io, mounted, saveSize, cipherVars,
                   store, packetVars, fault>>

\* ... then the interface is forgotten, and the extension dismounted: it has no engine
\* if there is no extension.
UnregisterIo ==
    /\ Running /\ ctl = "unregister"
    /\ registered' = FALSE /\ io' = (io /\ ~ registered)
    /\ saveSize' = IF registered THEN 0 ELSE saveSize
    /\ ExtDestroy
    /\ ctl' = "destroyed"
    /\ UNCHANGED <<env, caller, held, extension, mounted, store, packetVars, fault>>

ForgetContext ==
    /\ Running /\ ctl = "destroyed"
    /\ ExtForgetContext
    /\ ctl' = "forgotten"
    /\ UNCHANGED <<env, caller, held, extension, registered, io, mounted, saveSize, store,
                   packetVars, fault>>

\* The end of Ext_Dismount, and of EVhd_UnregisterIo or of Ext_Delete.
ForgetEngine ==
    /\ Running /\ ctl = "forgotten"
    /\ ExtForgetEngine
    /\ mounted' = (mounted /\ caller # "dismount")
    /\ ctl' = CASE caller = "delete" -> "deleted"
                [] caller = "close" -> "finalize"
                [] OTHER -> "idle"
    /\ caller' = IF caller \in {"close", "delete"} THEN caller ELSE "none"
    /\ UNCHANGED <<env, held, extension, registered, io, saveSize, store, packetVars, fault>>

-----------------------------------------------------------------------------
(* SCSI packets *)

\* EVhd_ExecuteScsiRequestDisk; the VSP sends packets to a mounted disk only.
ExecuteScsiRequest(p, o) ==
    /\ Running /\ ctl = "idle" /\ mounted /\ p \notin Pending
    /\ StartPacket(io, p, o)
    /\ UNCHANGED <<env, controlVars, cipherVars, store>>

ExecuteScsiRequestNoMemory(p) ==
    /\ Running /\ ctl = "idle" /\ mounted /\ p \notin Pending
    /\ NoMemory
    /\ UNCHANGED <<env, controlVars, cipherVars, store, packetVars>>

\* EVhd_CompleteScsiRequest, the callback of vhdmp, looks at the parser and at its
\* extension ...
CompleteScsiRequest(p, status) ==
    /\ Running /\ state[p] = "pending"
    /\ \/ "instance" \in held /\ Complete(p, status, ctl = "deleted")
       \/ "instance" \notin held /\ fault' = "freed_parser" /\ UNCHANGED packetVars
    /\ UNCHANGED <<env, controlVars, cipherVars, store>>

\* ... and decrypts a read while control calls go on.
CryptBlocks(p) ==
    /\ Running /\ state[p] = "decrypting"
    /\ Decrypt(p, ctl = "deleted")
    /\ UNCHANGED <<env, controlVars, cipherVars, store>>

-----------------------------------------------------------------------------
(* Save and restore: 32-bit sizes *)

StoredSize == (saveSize + StateSize) % 2^Width

\* The size check of EVhd_SaveDisk and EVhd_RestoreDisk.
Fits_NoOverflowCheck(size) == StoredSize <= size                    \* mutant
Fits(size) == StoredSize >= saveSize /\ StoredSize <= size

\* vhdmp's save or restore routine reads or writes saveSize bytes behind the
\* parser's own state.
SaveOrRestore(size) ==
    /\ Running /\ ctl = "idle" /\ mounted
    /\ Fits(size)
    /\ fault' = IF ~ io THEN "null_call"
                ELSE IF StateSize + saveSize > size THEN "overrun" ELSE "none"
    /\ UNCHANGED <<env, controlVars, cipherVars, store, packetVars>>

-----------------------------------------------------------------------------
(* Queries *)

\* EVhd_QueryInformationDisk, EVhd_QueryMountStatusDisk and EVhd_SetBehaviourDisk ask
\* vhdmp, the first up to eight times, and stop at a failure; for the list of parents
\* a buffer is allocated.
Ask ==
    /\ Running /\ ctl = "idle"
    /\ \/ ctl' = "ask" /\ UNCHANGED held
       \/ ctl' = "names" /\ held' = held \cup {"names"}
    /\ UNCHANGED <<env, caller, extension, registered, io, mounted, saveSize, cipherVars, store,
                   packetVars, fault>>

\* The answer to the question for parents goes to another buffer: the one that was
\* allocated is read as it came.  If it happens to say that there are parents, as many
\* bytes as it says are copied to the caller's buffer, and it is freed.
NamesCopied(status, parents) == status = "ok" /\ parents
NamesFreed(status, parents) == status = "failed" \/ parents

Answered ==
    /\ Running /\ ctl \in {"ask", "names"}
    /\ \E reply \in Replies, parents \in BOOLEAN :
          /\ held' = IF ctl = "names" /\ NamesFreed(reply[1], parents) THEN held \ {"names"}
                     ELSE held
          /\ fault' \in IF ctl = "names" /\ NamesCopied(reply[1], parents)
                       THEN {"none", "overrun_names"} ELSE {"none"}
    /\ ctl' = "idle"
    /\ UNCHANGED <<env, caller, extension, registered, io, mounted, saveSize, cipherVars, store,
                   packetVars>>

-----------------------------------------------------------------------------
(* SynchronouseCall without memory *)

\* The next step calls SynchronouseCall.
Calls ==
    \/ ctl = "closed" /\ Pending = {}
    \/ ctl \in {"sectors", "qos", "extension", "address", "ask", "names"}
    \/ ctl = "register" /\ ~ registered
    \/ ctl \in {"idle", "failed"} /\ "qos" \in held

\* It uses the IRP that it failed to allocate.
CallWithoutIrp ==
    /\ Running /\ Calls
    /\ fault' = "null_irp"
    /\ UNCHANGED <<env, controlVars, cipherVars, store, packetVars>>

-----------------------------------------------------------------------------
Control ==
    \/ OpenDisk \/ OpenDiskStep \/ InitializeExtension \/ OpenDiskFailed
    \/ CloseDisk \/ DeleteExtension \/ Finalize
    \/ MountDisk \/ RegisterIo \/ GetAddress \/ AlreadyRegistered
    \/ DismountDisk \/ RemoveVirtualDisk \/ UnregisterIo \/ ForgetContext \/ ForgetEngine
    \/ Ask \/ Answered \/ CallWithoutIrp
    \/ \E size \in Sizes : SaveOrRestore(size)

Packet(p) ==
    \/ \E o \in Operations : ExecuteScsiRequest(p, o)
    \/ ExecuteScsiRequestNoMemory(p)
    \/ \E status \in {"ok", "failed"} : CompleteScsiRequest(p, status)
    \/ CryptBlocks(p)

\* Nothing is said of a system in which a step has undefined behaviour.
Faulted == ~ Running /\ UNCHANGED vars

Next == SetCipherOpts \/ Control \/ (\E p \in Packets : Packet(p)) \/ Faulted

Spec == Init /\ [][Next]_vars

-----------------------------------------------------------------------------
(* Properties *)

\* What the storage VSP of Hyper-V and vhdmp are taken to do.
Orderly == env.drains /\ ~ env.remounts /\ ~ env.pends

\* What does not depend on others: an allocation that is not checked, or comes out too
\* short, and the size of the parents' names that is read from memory as it came.
Unchecked == {"null_irp", "null_parser", "null_mdl", "short_mdl", "overrun_names"}

\* Beside that, no MDL of the VSP is freed as an inner one, no packet is completed after
\* its parser or its extension is gone, none is decrypted with a cipher that was
\* destroyed, no save or restore goes beyond the caller's buffer, and none is called
\* through a forgotten interface.  If a removal does not drain, all but the last two can
\* happen.  If an IOCTL can pend and then fail, a disk is mounted with no routines to
\* call.  If a mounted disk is mounted again, its cipher changes under its packets, and
\* when that fails it counts as mounted with its routines forgotten.
MemorySafe ==
    \/ fault \in {"none"} \cup Unchecked
    \/ fault \in {"freed_parser", "freed_extension", "lost_cipher"} /\ ~ env.drains
    \/ fault = "freed_source" /\ (~ env.drains \/ env.remounts)
    \/ fault = "null_call" /\ (env.pends \/ env.remounts)

\* Ext_Dismount takes three steps and no lock, and completions run beside it.  If a
\* removal drains, the cipher is there, allocated, for as long as a read is decrypted
\* with it; and outside Ext_Dismount, in any environment, an engine has an allocated
\* context, and the extension owns every context there is, unless the VSP mounts a
\* mounted disk.
CipherOwned ==
    /\ ctl \notin {"destroyed", "forgotten"} =>
          ContextAlive /\ (env.remounts \/ ContextOwned)
    /\ env.drains => \A p \in Packets :
          state[p] = "decrypting" => extension /\ engine # Null /\ context \in live

\* The pages of packets' buffers are in order while no cipher changes under them.
BufferDiscipline == Orderly => PacketDiscipline

\* The cipher of the extension does not change under a packet that vhdmp holds:
\* what was encrypted on the way in is completed with the same context.
CipherStable == [][Orderly /\ Pending # {} => UNCHANGED <<engine, context>>]_vars

\* EVhd_CloseDisk, and an open that fails at any step, release everything but a list
\* of parents' names and the page-less MDLs of encrypted writes, which are never freed;
\* between control calls bMounted and bIoRegistered agree, whatever step of
\* EVhd_MountDisk failed, unless it was called for a mounted disk: its rollback leaves
\* bMounted.
NothingLeaks ==
    /\ ctl = "closed" => held \subseteq {"names"} /\ ~ registered /\ engine = Null
    /\ ctl = "closed" /\ Orderly => live = {} /\ \A p \in Packets : inner[p] # "live"
    /\ ctl = "idle" /\ ~ env.remounts => (mounted <=> registered)
=============================================================================
