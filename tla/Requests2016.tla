---------------------------- MODULE Requests2016 ----------------------------
(***************************************************************************)
(* What the VSP asks of a disk that Parser2016 has opened: SCSI packets,   *)
(* save and restore, queries that need a buffer, and meta operations (the  *)
(* resizing, optimising or extracting of a VHD set), which vhdmp finishes  *)
(* in its own time through an IRP of their own.  Mounting and dismounting  *)
(* are one step each here: Parser2016 has their steps.                     *)
(*                                                                         *)
(* The VSP makes one call at a time, but cancels a meta operation from     *)
(* another thread, and its callback may run on any.  It starts an          *)
(* operation once, cleans it up after an error or a callback, even inside  *)
(* the callback, and frees its buffer if it never became the operation's.  *)
(***************************************************************************)
EXTENDS Naturals, FiniteSets

CONSTANTS
    Operations,     \* meta operations
    Packets,        \* SCSI packets
    Width,          \* bits of a ULONG32
    HeaderSize,     \* 0x20 before a saved state, and sizeof(VhdSetExtractInnerRequest)
    Sizes           \* of saved states, inner requests and buffers

ASSUME RequestsAssumption ==
    /\ Width \in Nat /\ 2^Width \in Nat
    /\ HeaderSize \in 0..(2^Width - 1) /\ Sizes \subseteq 0..(2^Width - 1)
    /\ Operations \cap (Packets \cup {"names", "request"}) = {}

VARIABLES
    mounted,        \* bMounted, and bIoRegistered with it
    routines,       \* parser->Io has vhdmp's routines
    call,           \* the call of the VSP that is inside the driver
    buffers,        \* what calls have allocated for their IOCTL
    packet,         \* at vhdmp ("pending"), or the status of its completion
    srb, told,      \* SrbStatus in the VSP's request (Srb), and in the VSC's
    answers,        \* how often it was completed
    phase,          \* of a meta operation: the VSP's next call, ...
    owned,          \* ... what there is of it,
    userBuffer,     \* whose MetaOperationBuffer it is
    atVhdmp,        \* operations whose IRP vhdmp has
    cancelled,      \* Irp->Cancel
    written,        \* pBuffer->Status
    callbacks,      \* calls of pfnCompletionRoutine
    fault

diskVars == <<mounted, routines>>
packetVars == <<packet, srb, told, answers>>
metaVars == <<phase, owned, userBuffer, atVhdmp, cancelled, written, callbacks>>
vars == <<diskVars, call, buffers, packetVars, metaVars, fault>>

Calls == {"none", "ask", "names", "request"}
Parts == {"operation", "irp", "system buffer"}
SrbStatus == {"pending", "success", "error"}
Faults == {"none", "overrun", "overrun_names", "null_buffer", "null_call", "null_irp",
           "freed_operation", "freed_buffer"}

TypeOK ==
    /\ mounted \in BOOLEAN /\ routines \in BOOLEAN /\ call \in Calls \cup Operations
    /\ buffers \in SUBSET {"names", "request"}
    /\ packet \in [Packets -> {"idle", "pending", "ok", "failed"}]
    /\ srb \in [Packets -> SrbStatus] /\ told \in [Packets -> SrbStatus]
    /\ answers \in [Packets -> 0..1]
    /\ phase \in [Operations -> {"none", "failed", "prepared", "started", "refused"}]
    /\ owned \in [Operations -> SUBSET Parts]
    /\ userBuffer \in [Operations -> {"none", "vsp", "driver"}]
    /\ atVhdmp \in SUBSET Operations /\ cancelled \in SUBSET Operations
    /\ written \in [Operations -> {"nothing", "done", "cancelled"}]
    /\ callbacks \in [Operations -> 0..1]
    /\ fault \in Faults

Init ==
    /\ mounted = FALSE /\ routines = FALSE /\ call = "none" /\ buffers = {}
    /\ packet = [p \in Packets |-> "idle"]
    /\ srb = [p \in Packets |-> "pending"] /\ told = [p \in Packets |-> "pending"]
    /\ answers = [p \in Packets |-> 0]
    /\ phase = [o \in Operations |-> "none"] /\ owned = [o \in Operations |-> {}]
    /\ userBuffer = [o \in Operations |-> "none"]
    /\ atVhdmp = {} /\ cancelled = {}
    /\ written = [o \in Operations |-> "nothing"] /\ callbacks = [o \in Operations |-> 0]
    /\ fault = "none"

Running == fault = "none"
MayCall == Running /\ call = "none"

-----------------------------------------------------------------------------
(* Mount, save and restore *)

\* A registration that pends and then fails counts as one that has succeeded: vhdmp
\* has handed out no routines.
MountOrDismount ==
    /\ MayCall
    /\ mounted' = ~ mounted
    /\ routines' \in {FALSE, ~ mounted}
    /\ UNCHANGED <<call, buffers, packetVars, metaVars, fault>>

\* A 32-bit sum
Sum(size) == (size + HeaderSize) % 2^Width

\* The size check of EVhdSaveDisk, EVhdRestoreDisk and EvhdSetExtract.
Overflows(size) == Sum(size) < size

\* vhdmp moves the saved bytes that it announced when the disk was registered,
\* through the routines it handed out; without them it has announced none.
SaveOrRestore(saved, size) ==
    /\ MayCall /\ mounted
    /\ routines \/ saved = 0
    /\ ~ Overflows(saved) /\ Sum(saved) <= size
    /\ fault' = IF ~ routines THEN "null_call"
                ELSE IF HeaderSize + saved > size THEN "overrun" ELSE "none"
    /\ UNCHANGED <<diskVars, call, buffers, packetVars, metaVars>>

-----------------------------------------------------------------------------
(* Queries *)

\* EVhdQueryInformationDisk (format, geometry, metadata), EVhdQueryMountStatusDisk,
\* EVhdSetBehaviourDisk, EVhdSetQosPolicyDisk and the other IOCTLs on the stack: each
\* asks vhdmp up to eight times, and stops at the first failure.
Ask ==
    /\ MayCall
    /\ call' = "ask"
    /\ UNCHANGED <<diskVars, buffers, packetVars, metaVars, fault>>

\* EDiskInfo_ParentNameList, EVhdChangeTrackingStart and EVhdChangeTrackingSwitchLogs
\* allocate a buffer first.
AskWithBuffer(b) ==
    /\ MayCall
    /\ call' = b /\ buffers' = buffers \cup {b}
    /\ UNCHANGED <<diskVars, packetVars, metaVars, fault>>

\* What the return from a call frees: the buffer, with one exception, a list of
\* parent names that is empty.
FreedOnReturn_OnSuccess(b, status) == IF status = "ok" THEN {b} ELSE {}    \* mutant
FreedOnReturn(b, status) == IF status = "no parent" THEN {} ELSE {b}

Answered(status) ==
    /\ Running /\ call \in Calls \ {"none"}
    /\ status = "no parent" => call = "names"
    /\ buffers' = buffers \ FreedOnReturn(call, status)
    /\ call' = "none"
    /\ UNCHANGED <<diskVars, packetVars, metaVars, fault>>

\* The parent names are copied to the caller with the size that vhdmp says, or that the
\* memory of an IOCTL says which pended and then failed: no size is asked.
NamesOverrun ==
    /\ Running /\ call = "names"
    /\ fault' = "overrun_names"
    /\ UNCHANGED <<diskVars, call, buffers, packetVars, metaVars>>

\* SynchronouseCall uses the IRP that it has asked for without a look.
CallWithoutIrp ==
    /\ Running /\ call \in Calls \ {"none"}
    /\ fault' = "null_irp"
    /\ UNCHANGED <<diskVars, call, buffers, packetVars, metaVars>>

-----------------------------------------------------------------------------
(* SCSI packets *)

\* EvhdPostProcessScsiPacket: what the VSC is told.
Reported_AsIs(s, status) == s           \* mutant: the status is not looked at
Reported(s, status) == IF status = "failed" /\ s # "success" THEN "error" ELSE s

\* The driver completes a packet that vhdmp has not kept.
Completes_OnSuccess(status) == status # "failed"    \* mutant: NT_SUCCESS(status)
Completes(status) == status # "pending"

\* Of a packet that came with one SrbStatus, the status of the call and the SrbStatus s
\* that it has left.
Executed(p, asked, status, s) ==
    /\ packet' = [packet EXCEPT ![p] = status]
    /\ srb' = [srb EXCEPT ![p] = s]
    /\ told' = [told EXCEPT ![p] = IF Completes(status) THEN Reported(s, status) ELSE asked]
    /\ answers' = [answers EXCEPT ![p] = IF Completes(status) THEN 1 ELSE 0]

\* EVhdExecuteScsiRequestDisk: the SrbStatus is the VSC's own until vhdmp sets another.
\* A packet with no system address is not sent; the SRB_STATUS_INTERNAL_ERROR that the
\* VSC's request gets is overwritten when the packet is completed.
ExecuteScsiRequest(p) ==
    /\ MayCall /\ mounted /\ packet[p] # "pending"
    /\ \E asked \in SrbStatus :
          \/ /\ routines
             /\ \E s \in SrbStatus :
                   \/ \E status \in {"ok", "failed"} : Executed(p, asked, status, s)
                   \/ s = asked /\ Executed(p, asked, "pending", s)
             /\ UNCHANGED fault
          \/ Executed(p, asked, "failed", asked) /\ UNCHANGED fault
          \/ ~ routines /\ fault' = "null_call" /\ UNCHANGED packetVars
    /\ UNCHANGED <<diskVars, call, buffers, metaVars>>

\* EvhdCompleteScsiRequest, called by vhdmp, uses nothing of the parser instance.
CompleteScsiRequest(p, status) ==
    /\ Running /\ packet[p] = "pending"
    /\ packet' = [packet EXCEPT ![p] = status]
    /\ \E s \in SrbStatus :
          srb' = [srb EXCEPT ![p] = s] /\ told' = [told EXCEPT ![p] = Reported(s, status)]
    /\ answers' = [answers EXCEPT ![p] = @ + 1]
    /\ UNCHANGED <<diskVars, call, buffers, metaVars, fault>>

-----------------------------------------------------------------------------
(* Meta operations *)

\* EVhdCleanupMetaOperation frees the VSP's buffer too, if there is an IRP.
FreesUserBuffer(parts) == "irp" \in parts

\* EVhdPrepareMetaOperation, with a buffer of the VSP: the operation is not allocated,
\* or it is, its IRP is not, and it is cleaned up.
PrepareMetaOperation(o) ==
    /\ MayCall /\ phase[o] = "none"
    /\ \/ /\ phase' = [phase EXCEPT ![o] = "prepared"]
          /\ owned' = [owned EXCEPT ![o] = {"operation", "irp"}]
          /\ userBuffer' = [userBuffer EXCEPT ![o] = "driver"]
       \/ \E parts \in {{}, {"operation"}} :
             /\ phase' = [phase EXCEPT ![o] = "failed"]
             /\ owned' = [owned EXCEPT ![o] = {}]
             /\ userBuffer' = [userBuffer EXCEPT
                                  ![o] = IF FreesUserBuffer(parts) THEN "none" ELSE "vsp"]
    /\ UNCHANGED <<diskVars, call, buffers, packetVars, atVhdmp, cancelled, written, callbacks,
                   fault>>

\* The VSP frees the buffer of an operation that it could not prepare.
FreeUserBuffer(o) ==
    /\ MayCall /\ phase[o] = "failed"
    /\ phase' = [phase EXCEPT ![o] = "none"]
    /\ userBuffer' = [userBuffer EXCEPT ![o] = "none"]
    /\ fault' = IF userBuffer[o] = "vsp" THEN "none" ELSE "freed_buffer"
    /\ UNCHANGED <<diskVars, call, buffers, packetVars, owned, atVhdmp, cancelled, written,
                   callbacks>>

\* EVhdStartMetaOperation returns an error: a snapshot, the extraction of a VM's
\* snapshot without flags, an unknown type, or an inner request that is too long.
Refuse(o) ==
    /\ MayCall /\ phase[o] = "prepared"
    /\ phase' = [phase EXCEPT ![o] = "refused"]
    /\ UNCHANGED <<diskVars, call, buffers, packetVars, owned, userBuffer, atVhdmp, cancelled,
                   written, callbacks, fault>>

\* EvhdStartMetaOperation has no memory for the system buffer of a resize or an
\* extraction, and keeps the IRP back; or EvhdSetExtract did not get its own buffer and
\* writes to it all the same.
KeptBack_Sent(o) == atVhdmp' = atVhdmp \cup {o}      \* mutant: the error is not returned at once
KeptBack(o) == UNCHANGED atVhdmp

NoMemory(o, type) ==
    /\ MayCall /\ phase[o] = "prepared" /\ type \in {"resize", "extract"}
    /\ \/ phase' = [phase EXCEPT ![o] = "refused"] /\ KeptBack(o) /\ UNCHANGED fault
       \/ type = "extract" /\ fault' = "null_buffer" /\ UNCHANGED <<phase, atVhdmp>>
    /\ UNCHANGED <<diskVars, call, buffers, packetVars, owned, userBuffer, cancelled, written,
                   callbacks>>

\* The IRP goes to vhdmp.  An extraction copies its inner request to a buffer of its
\* own, which is freed when EvhdStartMetaOperation returns.
StartMetaOperation(o, type, inner) ==
    /\ MayCall /\ phase[o] = "prepared"
    /\ type = "extract" => ~ Overflows(inner)
    /\ fault' = IF type = "extract" /\ Sum(inner) # HeaderSize + inner THEN "overrun" ELSE "none"
    /\ phase' = [phase EXCEPT ![o] = "started"]
    /\ owned' = [owned EXCEPT ![o] = @ \cup IF type = "optimize" THEN {} ELSE {"system buffer"}]
    /\ atVhdmp' = atVhdmp \cup {o}
    /\ call' = o
    /\ UNCHANGED <<diskVars, buffers, packetVars, userBuffer, cancelled, written, callbacks>>

\* What is used of the operation after IoCallDriver: the callback may have run, and
\* the VSP may have cleaned up.
UsedAfterCall_Status == {"operation"}   \* mutant: pBuffer->Status is returned
UsedAfterCall == {}

StartReturns(o) ==
    /\ Running /\ call = o
    /\ call' = "none"
    /\ fault' = IF UsedAfterCall \subseteq owned[o] THEN "none" ELSE "freed_operation"
    /\ UNCHANGED <<diskVars, buffers, packetVars, metaVars>>

\* vhdmp completes an IRP that was cancelled as cancelled, or finishes it all the same.
\* EvhdMetaOperationCompletionRoutine writes the status and calls the VSP back.
Complete(o) ==
    /\ Running /\ o \in atVhdmp
    /\ atVhdmp' = atVhdmp \ {o}
    /\ \E s \in {"done"} \cup (IF o \in cancelled THEN {"cancelled"} ELSE {}) :
          written' = [written EXCEPT ![o] = s]
    /\ callbacks' = [callbacks EXCEPT ![o] = @ + 1]
    /\ fault' = IF userBuffer[o] # "driver" THEN "freed_buffer"
                ELSE IF {"operation", "irp"} \subseteq owned[o] THEN "none" ELSE "freed_operation"
    /\ UNCHANGED <<diskVars, call, buffers, packetVars, phase, owned, userBuffer, cancelled>>

\* EVhdCancelMetaOperation, of an operation that is prepared or started.
CancelMetaOperation(o) ==
    /\ Running /\ phase[o] \in {"prepared", "started"}
    /\ cancelled' = cancelled \cup {o}
    /\ UNCHANGED <<diskVars, call, buffers, packetVars, phase, owned, userBuffer, atVhdmp, written,
                   callbacks, fault>>

\* What EVhdCleanupMetaOperation frees.
Cleaned == {"operation", "irp"}

\* The VSP may still be in EVhdStartMetaOperation when its callback cleans up.
CleanupMetaOperation(o) ==
    /\ Running
    /\ \/ phase[o] \in {"prepared", "refused"} /\ call = "none"
       \/ phase[o] = "started" /\ callbacks[o] = 1
    /\ phase' = [phase EXCEPT ![o] = "none"]
    /\ owned' = [owned EXCEPT ![o] = @ \ Cleaned]
    /\ userBuffer' = [userBuffer EXCEPT ![o] = IF FreesUserBuffer(owned[o]) THEN "none" ELSE @]
    /\ cancelled' = cancelled \ {o}
    /\ written' = [written EXCEPT ![o] = "nothing"]
    /\ callbacks' = [callbacks EXCEPT ![o] = 0]
    /\ UNCHANGED <<diskVars, call, buffers, packetVars, atVhdmp, fault>>

-----------------------------------------------------------------------------
Meta(o) ==
    \/ PrepareMetaOperation(o) \/ FreeUserBuffer(o) \/ Refuse(o)
    \/ \E type \in {"resize", "optimize", "extract"} :
          \/ NoMemory(o, type)
          \/ \E inner \in Sizes : StartMetaOperation(o, type, inner)
    \/ StartReturns(o) \/ Complete(o) \/ CancelMetaOperation(o) \/ CleanupMetaOperation(o)

Packet(p) ==
    ExecuteScsiRequest(p) \/ \E status \in {"ok", "failed"} : CompleteScsiRequest(p, status)

Query ==
    \/ Ask \/ \E b \in {"names", "request"} : AskWithBuffer(b)
    \/ \E status \in {"ok", "failed", "no parent"} : Answered(status)
    \/ NamesOverrun \/ CallWithoutIrp

Faulted == ~ Running /\ UNCHANGED vars

Next ==
    \/ MountOrDismount \/ Query
    \/ \E saved, size \in Sizes : SaveOrRestore(saved, size)
    \/ \E p \in Packets : Packet(p)
    \/ \E o \in Operations : Meta(o)
    \/ Faulted

Spec == Init /\ [][Next]_vars

-----------------------------------------------------------------------------
(* Properties *)

\* Nothing is used after it was freed or freed twice, wherever the callback of a meta
\* operation runs and cleans up, and no saved state or inner request is copied beyond
\* its buffer.  What is undefined in the code is one of four things: the allocation that
\* EvhdSetExtract does not check, the IRP that SynchronouseCall does not, the size of the
\* parent names that nobody does, and the routines of a registration that pended and
\* failed.
RequestsSafe ==
    /\ fault \in {"none", "null_buffer", "null_irp", "overrun_names", "null_call"}
    /\ fault = "null_irp" => call \in Calls \ {"none"}
    /\ fault = "overrun_names" => call = "names"
    /\ fault = "null_call" => mounted /\ ~ routines

\* EVhdStartMetaOperation promises a callback exactly when it returns STATUS_PENDING:
\* an operation is called back once if it was started, and never if it was refused.
CalledBackOnce ==
    \A o \in Operations :
        IF phase[o] = "started" THEN callbacks[o] = (IF o \in atVhdmp THEN 0 ELSE 1)
        ELSE o \notin atVhdmp /\ callbacks[o] = 0

\* Between calls the driver keeps nothing that a call has allocated, but for the two
\* leaks it has: the system buffer of a meta operation, and an empty list of parents.
NothingKept ==
    /\ call \notin {"names", "request"} => buffers \subseteq {"names"}
    /\ \A o \in Operations :
          phase[o] \in {"none", "failed"} => /\ owned[o] \subseteq {"system buffer"}
                                            /\ userBuffer[o] # "driver"

\* A packet is completed by the driver or by vhdmp's callback, never by both, and the
\* VSC never reads of a failed packet that it is pending.  It reads that a failed packet
\* has succeeded in one case: the Srb says so, in which the VSC's own SrbStatus stays
\* until vhdmp sets another.
PacketAnsweredOnce ==
    \A p \in Packets :
        /\ packet[p] = "pending" => answers[p] = 0
        /\ packet[p] \in {"ok", "failed"} => answers[p] = 1
        /\ packet[p] = "failed" /\ srb[p] # "success" => told[p] = "error"
        /\ packet[p] = "ok" \/ srb[p] = "success" => answers[p] = 0 \/ told[p] = srb[p]
=============================================================================
