----------------------------- MODULE Parser2016 -----------------------------
(***************************************************************************)
(* One virtual disk of the 2016 driver (2016/parser.c): its life from      *)
(* EVhdOpenDisk to EVhdCloseDisk, and the three IRPs the instance owns.    *)
(* The direct IRP is shared by every caller of EvhdDirectIoControl under a *)
(* push lock, the QoS IRP is for one status request, and the recovery IRP  *)
(* stays at vhdmp until the recovery status changes; EvhdFinalize waits    *)
(* for it with a rundown protection.                                       *)
(*                                                                         *)
(* The storage VSP is not part of the repository.  It makes one control    *)
(* call at a time, asks for the recovery status from any thread, has one   *)
(* QoS request and one recovery notification outstanding, and closes the   *)
(* disk when its questions are answered, but not its notification.         *)
(***************************************************************************)
EXTENDS Naturals, FiniteSets, VhdmpDevice

CONSTANTS
    Queriers,       \* threads that call EVhdGetRecoveryStatus
    Vsp,            \* the thread of the control calls
    NoOne,
    Notifications   \* bound: notifications asked for while the disk is open

ASSUME Parser2016Assumption ==
    Vsp \notin Queriers /\ NoOne \notin Queriers \cup {Vsp} /\ Notifications \in Nat

Askers == Queriers \cup {Vsp}

VARIABLES
    ctl,            \* the control call: its next step, and ...
    caller,         \* ... for EvhdUnregisterIo and EvhdFinalize, who called
    held,           \* resources of the parser instance
    registered, mounted, resilient,
    pushLock,       \* owner of DirectIoPushLock
    carries,        \* whose request the direct IRP carries
    ioStatus,       \* its IoStatus
    asking,         \* EvhdDirectIoControl: the caller's next step
    answered,       \* the thread whose request a caller got the status of
    qos,            \* the QoS IRP is at vhdmp
    notify,         \* EVhdNotifyRecoveryStatus: its next step
    recovery,       \* the recovery IRP is at vhdmp
    rundown,        \* references of RecoveryRundownProtection
    rundownOver     \* no more of them can be acquired

diskVars == <<ctl, caller, held, registered, mounted, resilient>>
directVars == <<pushLock, carries, ioStatus, asking, answered>>
recoveryVars == <<notify, recovery, rundown, rundownOver>>
instanceVars == <<directVars, qos, recoveryVars>>
vars == <<diskVars, instanceVars, devVars, fault>>

Irps == {"direct irp", "qos irp", "recovery irp"}
Resources == Irps \cup {"qos buffer", "instance", "object", "handle"}
Opening == {"opening", "instance", "direct", "qos", "buffer", "recovery", "failed"}

TypeOK ==
    /\ DevTypeOK
    /\ ctl \in Opening \cup {"closed", "idle", "register", "address", "remove", "unregister",
                            "cancel", "wait", "waiting", "free"}
    /\ caller \in {"none", "mount", "dismount", "close"}
    /\ caller = "none" <=> ctl \in Opening \cup {"closed", "idle"}
    /\ held \in SUBSET (Resources \cup Temps)
    /\ registered \in BOOLEAN /\ mounted \in BOOLEAN /\ resilient \in BOOLEAN
    /\ pushLock \in Askers \cup {NoOne} /\ carries \in Askers \cup {NoOne}
    /\ ioStatus \in {"pending", "done"}
    /\ asking \in [Askers -> {"idle", "lock", "sent"}]
    /\ answered \in [Askers -> Askers \cup {NoOne}]
    /\ qos \in BOOLEAN
    /\ notify \in {"idle", "acquire", "send"} /\ recovery \in BOOLEAN
    /\ rundown \in 0..Notifications /\ rundownOver \in BOOLEAN
    /\ fault \in {"none", "null_parser", "freed_parser", "freed_irp", "closed_twice", "null_irp",
                  "overrun_qos"}

Init ==
    /\ DevInit
    /\ ctl = "closed" /\ caller = "none" /\ held = {}
    /\ registered = FALSE /\ mounted = FALSE /\ resilient = FALSE
    /\ pushLock = NoOne /\ carries = NoOne /\ ioStatus = "done"
    /\ asking = [t \in Askers |-> "idle"] /\ answered = [t \in Askers |-> NoOne]
    /\ qos = FALSE
    /\ notify = "idle" /\ recovery = FALSE /\ rundown = 0 /\ rundownOver = FALSE
    /\ fault = "none"

Running == fault = "none"

\* The disk is open and nobody has begun to close it.
Working == caller # "close" /\ ctl \in {"idle", "register", "address", "remove", "unregister"}

Goes(from, to) == Running /\ ctl = from /\ ctl' = to

-----------------------------------------------------------------------------
(* EVhdOpenDisk *)

\* The next instance is another one: no call is left that uses the last.
OpenDisk ==
    /\ Goes("closed", "opening") /\ notify = "idle"
    /\ \E flag \in BOOLEAN : StartOpen(flag)
    /\ UNCHANGED <<caller, held, registered, mounted, resilient, instanceVars, fault>>

\* OpenVhdmpDevice; a failure of it changes nothing.
OpenDevice ==
    /\ Running /\ ctl = "opening"
    /\ \/ OpenStep /\ UNCHANGED <<ctl, held>>
       \/ OpenFails /\ ctl' = "closed" /\ UNCHANGED held
       \/ OpenSucceeds /\ ctl' = "instance" /\ held' = HandedOver
    /\ UNCHANGED <<caller, registered, mounted, resilient, instanceVars>>

\* The instance is allocated and cleared; EvhdInitialize then acquires one thing
\* after the other.  It returns at the first that fails.
Acquires(from, resource, to) ==
    /\ ctl = from
    /\ \/ ctl' = to /\ held' = held \cup {resource}
       \/ ctl' = "failed" /\ UNCHANGED held

OpenDiskStep ==
    /\ Running
    /\ \/ Acquires("instance", "instance", "direct")
       \/ Acquires("direct", "direct irp", "qos")
       \/ Acquires("qos", "qos irp", "buffer")
       \/ Acquires("buffer", "qos buffer", "recovery")
       \/ Acquires("recovery", "recovery irp", "idle")
    /\ resilient' = FALSE
    /\ rundown' = 0 /\ rundownOver' = FALSE
    /\ UNCHANGED <<caller, registered, mounted, directVars, qos, notify, recovery, devVars,
                   fault>>

\* The failure path closes the handle, clears it in an instance that may not
\* exist, and closes the disk.
OpenDiskFailed ==
    /\ Running /\ ctl = "failed"
    /\ held' = held \ {"handle"}
    /\ IF "instance" \in held
       THEN ctl' = "cancel" /\ caller' = "close" /\ UNCHANGED fault
       ELSE fault' = "null_parser" /\ UNCHANGED <<ctl, caller>>
    /\ UNCHANGED <<registered, mounted, resilient, instanceVars, devVars>>

-----------------------------------------------------------------------------
(* EvhdDirectIoControl *)

\* FltAcquirePushLockExclusive
LockFree_Unlocked == TRUE               \* mutant
LockFree == pushLock = NoOne

\* With the lock, the IRP is reused and sent.
DirectSend(t) ==
    /\ Running /\ asking[t] = "lock" /\ LockFree
    /\ asking' = [asking EXCEPT ![t] = "sent"]
    /\ pushLock' = t
    /\ carries' = t /\ ioStatus' = "pending"
    /\ UNCHANGED <<diskVars, answered, qos, recoveryVars, devVars, fault>>

\* vhdmp
CompleteDirect ==
    /\ Running /\ ioStatus = "pending"
    /\ ioStatus' = "done"
    /\ UNCHANGED <<diskVars, pushLock, carries, asking, answered, qos, recoveryVars, devVars,
                   fault>>

\* FltReleasePushLock
Released_Keeps == pushLock              \* mutant
Released == NoOne

\* IoSynchronousCallDriver returns: the status is read, then the lock released.
DirectReturn(t) ==
    /\ Running /\ asking[t] = "sent" /\ ioStatus = "done"
    /\ asking' = [asking EXCEPT ![t] = "idle"]
    /\ answered' = [answered EXCEPT ![t] = carries]
    /\ pushLock' = Released
    /\ UNCHANGED <<diskVars, carries, ioStatus, qos, recoveryVars, devVars, fault>>

\* EVhdGetRecoveryStatus
GetRecoveryStatus(t) ==
    /\ Running /\ Working /\ resilient /\ asking[t] = "idle"
    /\ asking' = [asking EXCEPT ![t] = "lock"]
    /\ UNCHANGED <<diskVars, pushLock, carries, ioStatus, answered, qos, recoveryVars, devVars,
                   fault>>

-----------------------------------------------------------------------------
(* Mount and dismount *)

MountDisk ==
    /\ Goes("idle", "register") /\ caller' = "mount"
    /\ UNCHANGED <<held, registered, mounted, resilient, instanceVars, devVars, fault>>

\* EvhdRegisterIo: IOCTL_STORAGE_REGISTER_IO
RegisterIo ==
    /\ Running /\ ctl = "register" /\ ~ registered
    /\ \/ ctl' = "address" /\ registered' = TRUE
       \/ ctl' = "remove" /\ UNCHANGED registered
    /\ UNCHANGED <<caller, held, mounted, resilient, instanceVars, devVars, fault>>

\* What EVhdMountDisk does when a step has failed.
MountFailed_NoRollback == "idle"        \* mutant
MountFailed == "remove"

\* IOCTL_SCSI_GET_ADDRESS, of a disk that was not registered before
GetAddress ==
    /\ Running
    /\ \/ ctl = "address" \/ (ctl = "register" /\ registered)
    /\ \/ ctl' = "idle" /\ caller' = "none" /\ mounted' = TRUE
       \/ ctl = "address" /\ ctl' = MountFailed /\ UNCHANGED <<caller, mounted>>
    /\ UNCHANGED <<held, registered, resilient, instanceVars, devVars, fault>>

DismountDisk ==
    /\ Goes("idle", "remove") /\ caller' = "dismount"
    /\ UNCHANGED <<held, registered, mounted, resilient, instanceVars, devVars, fault>>

\* EvhdUnregisterIo asks vhdmp to remove a registered disk ...
RemoveVirtualDisk ==
    /\ Goes("remove", "unregister")
    /\ asking' = IF registered THEN [asking EXCEPT ![Vsp] = "lock"] ELSE asking
    /\ UNCHANGED <<caller, held, registered, mounted, resilient, pushLock, carries, ioStatus,
                   answered, qos, recoveryVars, devVars, fault>>

\* ... and forgets its interface, whatever the status was.
UnregisterIo ==
    /\ Goes("unregister", IF caller = "close" THEN "cancel" ELSE "idle")
    /\ asking[Vsp] = "idle"
    /\ caller' = IF caller = "close" THEN "close" ELSE "none"
    /\ registered' = FALSE
    /\ mounted' = IF caller = "mount" THEN mounted ELSE FALSE
    /\ UNCHANGED <<held, resilient, instanceVars, devVars, fault>>

-----------------------------------------------------------------------------
(* QoS status, resiliency and recovery notifications *)

\* The request is copied with the size that the VSP gives; the buffer is not asked.
GetQosStatus ==
    /\ Running /\ Working /\ ~ qos
    /\ \/ qos' = TRUE /\ UNCHANGED fault
       \/ fault' = "overrun_qos" /\ UNCHANGED qos
    /\ UNCHANGED <<diskVars, directVars, recoveryVars, devVars>>

\* EvhdGetQosStatusCompletionRoutine uses the instance and its buffer.
CompleteQos ==
    /\ Running /\ qos
    /\ qos' = FALSE
    /\ fault' = IF {"instance", "qos irp", "qos buffer"} \subseteq held THEN "none"
                ELSE "freed_irp"
    /\ UNCHANGED <<diskVars, directVars, recoveryVars, devVars>>

EnableResiliency ==
    /\ Running /\ ctl = "idle" /\ ~ resilient
    /\ resilient' = TRUE
    /\ UNCHANGED <<ctl, caller, held, registered, mounted, instanceVars, devVars, fault>>

\* EVhdNotifyRecoveryStatus finds bResiliencyEnabled set.
NotifyRecoveryStatus ==
    /\ Running /\ Working /\ resilient /\ notify = "idle" /\ ~ recovery
    /\ rundown < Notifications
    /\ notify' = "acquire"
    /\ UNCHANGED <<diskVars, directVars, qos, recovery, rundown, rundownOver, devVars, fault>>

\* ExAcquireRundownProtection, which fails once EvhdFinalize waits.
AcquireRundown ==
    /\ Running /\ notify = "acquire"
    /\ notify' = IF rundownOver THEN "idle" ELSE "send"
    /\ rundown' = IF rundownOver THEN rundown ELSE rundown + 1
    /\ fault' = IF "instance" \in held THEN "none" ELSE "freed_parser"
    /\ UNCHANGED <<diskVars, directVars, qos, recovery, rundownOver, devVars>>

SendNotification ==
    /\ Running /\ notify = "send"
    /\ notify' = "idle" /\ recovery' = TRUE
    /\ UNCHANGED <<diskVars, directVars, qos, rundown, rundownOver, devVars, fault>>

\* EvhdRecoveryStatusCompletionRoutine calls the VSP back; nothing in the driver
\* releases the rundown protection.
CompleteRecovery ==
    /\ Running /\ recovery
    /\ recovery' = FALSE
    /\ fault' = IF {"instance", "recovery irp"} \subseteq held THEN "none" ELSE "freed_irp"
    /\ UNCHANGED <<diskVars, directVars, qos, notify, rundown, rundownOver, devVars>>

-----------------------------------------------------------------------------
(* EVhdCloseDisk *)

CloseDisk ==
    /\ Goes("idle", IF mounted THEN "remove" ELSE "cancel")
    /\ ~ qos /\ \A t \in Queriers : asking[t] = "idle"
    /\ caller' = "close"
    /\ UNCHANGED <<held, registered, mounted, resilient, instanceVars, devVars, fault>>

\* EvhdFinalize cancels the recovery IRP, if it was allocated: vhdmp may complete
\* it at any time anyway.
CancelRecovery ==
    /\ Goes("cancel", IF "recovery irp" \in held THEN "wait" ELSE "free")
    /\ UNCHANGED <<caller, held, registered, mounted, resilient, instanceVars, devVars, fault>>

\* ExWaitForRundownProtectionRelease lets nobody acquire it any more ...
WaitForRundown ==
    /\ Goes("wait", "waiting")
    /\ rundownOver' = TRUE
    /\ UNCHANGED <<caller, held, registered, mounted, resilient, directVars, qos, notify,
                   recovery, rundown, devVars, fault>>

\* ... and waits for those that have.
RundownReleased_Any == TRUE             \* mutant
RundownReleased == rundown = 0

EndWait ==
    /\ Goes("waiting", "free") /\ RundownReleased
    /\ UNCHANGED <<caller, held, registered, mounted, resilient, instanceVars, devVars, fault>>

Free ==
    /\ Goes("free", "closed")
    /\ caller' = "none"
    /\ held' = held \ Resources
    /\ UNCHANGED <<registered, mounted, resilient, instanceVars, devVars, fault>>

-----------------------------------------------------------------------------
(* SynchronouseCall, which uses the IRP that it has asked for without a look *)

Calls ==
    \/ ctl = "opening" /\ dev \in {"query", "ask"}
    \/ ctl = "register" /\ ~ registered
    \/ ctl = "address"
    \/ ctl = "idle" /\ ~ resilient

CallWithoutIrp ==
    /\ Running /\ Calls
    /\ fault' = "null_irp"
    /\ UNCHANGED <<diskVars, instanceVars, devVars>>

-----------------------------------------------------------------------------
Control ==
    \/ OpenDisk \/ OpenDevice \/ OpenDiskStep \/ OpenDiskFailed
    \/ MountDisk \/ RegisterIo \/ GetAddress \/ DismountDisk \/ RemoveVirtualDisk \/ UnregisterIo
    \/ EnableResiliency
    \/ CloseDisk \/ CancelRecovery \/ WaitForRundown \/ EndWait \/ Free

Asking(t) == DirectSend(t) \/ DirectReturn(t)

Notifying == AcquireRundown \/ SendNotification

Next ==
    \/ Control
    \/ \E t \in Askers : Asking(t)
    \/ \E t \in Queriers : GetRecoveryStatus(t)
    \/ CompleteDirect
    \/ GetQosStatus \/ CompleteQos \/ CallWithoutIrp
    \/ NotifyRecoveryStatus \/ Notifying \/ CompleteRecovery

Spec == Init /\ [][Next]_vars

\* The steps of a close, which nothing but the driver and vhdmp hold up.
Closing == caller = "close" /\ Control

\* Threads inside the driver run, the calls of an open return, a push lock is handed on
\* in turn, and vhdmp completes a direct request.
Fairness ==
    /\ WF_vars(OpenDevice) /\ WF_vars(Closing) /\ WF_vars(CompleteDirect) /\ WF_vars(Notifying)
    /\ \A t \in Askers : SF_vars(DirectSend(t)) /\ WF_vars(DirectReturn(t))

FairSpec == Spec /\ Fairness

-----------------------------------------------------------------------------
(* Properties *)

\* One caller at a time fills and sends the direct IRP, and the status it reads
\* is that of its own request (EvhdDirectIoControl).
DirectIrpExclusive ==
    \A t \in Askers : /\ asking[t] = "sent" => pushLock = t /\ carries = t
                      /\ answered[t] \in {t, NoOne}

\* EvhdFinalize frees nothing that a notification uses which has acquired the
\* rundown protection, nor an IRP that is at vhdmp.
RundownCovers ==
    /\ notify = "send" \/ recovery => {"instance", "recovery irp"} \subseteq held
    /\ fault # "freed_irp"

\* EVhdCloseDisk, and an open that fails at any step (also inside OpenVhdmpDevice),
\* release everything, and nobody is left inside EvhdDirectIoControl; between control
\* calls bMounted and bIoRegistered agree, whatever step of EVhdMountDisk failed.  An
\* open releases nothing twice, with the one exception of ClosedOnce.
InstanceReleased ==
    /\ ClosedOnce
    /\ ctl = "idle" => (mounted <=> registered)
    /\ ctl = "closed" => /\ held = {} /\ temps = {} /\ ~ registered /\ ~ qos /\ ~ recovery
                         /\ pushLock = NoOne

\* An open returns, unless vhdmp says for ever that the disk it created once more is
\* a differencing disk: the loop of OpenVhdmpDevice changes nothing it asks for.
OpenReturns == []<>(ctl # "opening") \/ []<>(dev = "close") \/ <>(~ Running)

\* A close returns, unless a notification was ever asked for: its rundown
\* reference is never given back.
CloseReturns == caller = "close" ~> (caller # "close" \/ rundown > 0 \/ ~ Running)

\* A thread that asks for the recovery status gets an answer, also while other
\* threads ask and the disk is mounted and dismounted.
QuerierAnswered ==
    \A t \in Queriers : asking[t] = "lock" ~> (asking[t] = "idle" \/ ~ Running)
=============================================================================
