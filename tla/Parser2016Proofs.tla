-------------------------- MODULE Parser2016Proofs --------------------------
(***************************************************************************)
(* Parser2016 proved for any number of threads that ask for the recovery   *)
(* status, and any number of notifications.                                *)
(***************************************************************************)
EXTENDS Parser2016, TLAPS

-----------------------------------------------------------------------------
(* The inductive invariant *)

\* TypeOK, in the parts that are changed by different steps.
CtlType ==
    /\ ctl \in Opening \cup {"closed", "idle", "register", "address", "remove", "unregister",
                            "cancel", "wait", "waiting", "free"}
    /\ caller \in {"none", "mount", "dismount", "close"}
    /\ caller = "none" <=> ctl \in Opening \cup {"closed", "idle"}

DiskType == registered \in BOOLEAN /\ mounted \in BOOLEAN /\ resilient \in BOOLEAN

DirectType ==
    /\ pushLock \in Askers \cup {NoOne} /\ carries \in Askers \cup {NoOne}
    /\ ioStatus \in {"pending", "done"}
    /\ asking \in [Askers -> {"idle", "lock", "sent"}]
    /\ answered \in [Askers -> Askers \cup {NoOne}]

NotifyType ==
    /\ qos \in BOOLEAN
    /\ notify \in {"idle", "acquire", "send"} /\ recovery \in BOOLEAN
    /\ rundown \in 0..Notifications /\ rundownOver \in BOOLEAN

TypeInv == DevTypeOK /\ CtlType /\ DiskType /\ DirectType /\ NotifyType

\* Where OpenVhdmpDevice is, what it has, and which of its variables are set: a variable
\* that is set and has nothing any more is the handle of a disk that was created twice.
FromCreate == {"create", "ask", "close", "reopen", "reference", "failed", "opened"}

DevInv ==
    /\ dev \in {"idle", "links"} => temps = {}
    /\ dev = "links" => named = {}
    /\ dev = "enumerator" => temps = {"links"}
    /\ dev \in {"query", "path"} => temps = ShimTemps
    /\ dev = "found" => temps = ShimTemps \cup {"path"}
    /\ dev = "lost" => temps \subseteq ShimTemps
    /\ dev \in {"enumerator", "query", "path", "found", "lost"} => named = temps
    /\ dev \in {"create", "reopen"} => temps = {"path"}
    /\ dev \in {"ask", "close", "reference"} => temps = {"path", "handle"}
    /\ dev = "opened" => temps = {"path", "handle", "object"}
    /\ dev = "failed" => temps \subseteq {"path", "handle"}
    /\ dev \in FromCreate => /\ temps \subseteq named
                             /\ "path" \in named => "path" \in temps
                             /\ "object" \in named => dev = "opened"
    /\ dev = "create" => "handle" \notin named
    /\ dev \in {"ask", "close", "reopen"} => settled
    /\ dev = "failed" /\ "handle" \in named \ temps => settled
    /\ ClosedOnce

\* What the instance holds at each step of EVhdOpenDisk, while it is open, and while it
\* is closed: everything, or what an open that failed had acquired.
Open == {"idle", "register", "address", "remove", "unregister"}
Ending == {"cancel", "wait", "waiting", "free"}

HeldInv ==
    /\ held \subseteq Resources
    /\ ctl = "opening" <=> dev # "idle"
    /\ ctl \in {"closed", "opening"} => held = {}
    /\ ctl = "instance" => held = {"handle", "object"}
    /\ ctl = "direct" => held = {"handle", "object", "instance"}
    /\ ctl = "qos" => held = {"handle", "object", "instance", "direct irp"}
    /\ ctl = "buffer" => held = {"handle", "object", "instance", "direct irp", "qos irp"}
    /\ ctl = "recovery" => held = Resources \ {"recovery irp"}
    /\ ctl = "failed" => held \subseteq Resources \ {"recovery irp"}
    /\ ctl \in Open \cup {"wait", "waiting"} => held = Resources
    /\ ctl \in {"cancel", "free"} =>
         held = Resources \/ held \subseteq Resources \ {"recovery irp"}

\* bMounted and bIoRegistered, step by step.
MountInv ==
    /\ ctl \in {"idle", "register"} => (mounted <=> registered)
    /\ ctl = "address" => registered /\ ~ mounted
    /\ ctl \in {"remove", "unregister"} /\ caller = "mount" => ~ mounted
    /\ ctl \in Opening \cup Ending \cup {"closed"} => ~ registered /\ ~ mounted

\* The push lock is held by the one whose request is sent; the VSP is inside
\* EvhdDirectIoControl only in EvhdUnregisterIo, the others only while the disk is open.
AskInv ==
    /\ DirectIrpExclusive
    /\ pushLock # NoOne => asking[pushLock] = "sent"
    /\ asking[Vsp] # "idle" => ctl = "unregister"
    /\ \A t \in Queriers : asking[t] # "idle" => Working
    /\ qos => Working

\* A notification on its way or at vhdmp has a reference that is never given back: no
\* wait for the rundown ends, and what it uses is there.
NotifyInv ==
    /\ notify = "send" \/ recovery => /\ rundown > 0 /\ "recovery irp" \in held
                                      /\ ctl \notin Opening \cup {"closed", "free"}
    /\ notify = "acquire" => /\ rundown < Notifications /\ ctl \notin Opening
                             /\ \/ rundownOver
                                \/ "recovery irp" \in held /\ ctl \notin {"free", "closed"}
    /\ ctl = "waiting" => rundownOver
    /\ ctl = "free" /\ "recovery irp" \in held => rundownOver

Inv ==
    /\ TypeInv /\ DevInv /\ HeldInv /\ MountInv /\ AskInv /\ NotifyInv
    /\ fault \in {"none", "null_parser", "freed_parser", "closed_twice", "null_irp", "overrun_qos"}

-----------------------------------------------------------------------------
LEMMA InvInit == Init => Inv
<1> SUFFICES ASSUME Init PROVE Inv
  OBVIOUS
<1> USE DEF Init, DevInit
<1>1. NoOne \notin Askers /\ Vsp \in Askers
  BY Parser2016Assumption DEF Askers
<1>2. DevTypeOK
  BY DEF DevTypeOK, Temps
<1>3. CtlType /\ DiskType
  BY DEF CtlType, DiskType, Opening
<1>8. DirectType
  BY DEF DirectType
<1>9. NotifyType
  <2>1. qos \in BOOLEAN /\ recovery \in BOOLEAN /\ rundownOver \in BOOLEAN
    OBVIOUS
  <2>2. rundown \in 0..Notifications
    BY Parser2016Assumption
  <2>3. notify = "idle"
    OBVIOUS
  <2> QED BY <2>1, <2>2, <2>3 DEF NotifyType
<1>4. DevInv
  BY DEF DevInv, ClosedOnce, FromCreate
<1>5. HeldInv /\ MountInv
  BY DEF HeldInv, MountInv, Opening, Open, Ending, Resources
<1>6. AskInv
  BY <1>1 DEF AskInv, DirectIrpExclusive, Askers
<1>7. NotifyInv
  BY DEF NotifyInv, Opening
<1> QED BY <1>2, <1>3, <1>4, <1>5, <1>6, <1>7, <1>8, <1>9 DEF Inv, TypeInv

-----------------------------------------------------------------------------
(* OpenVhdmpDevice *)

\* No step before the last releases what it does not have.
LEMMA OpenStepInv ==
    ASSUME DevTypeOK, DevInv, fault = "none", OpenStep
    PROVE  DevTypeOK' /\ DevInv' /\ dev' # "idle" /\ fault' = "none"
<1> USE DEF DevInv, ShimTemps, FromCreate, ClosedOnce, Call, Takes
<1>1. CASE FindShimDevice
  <2>1. DevInv' /\ dev' # "idle" /\ fault' = "none"
    BY <1>1 DEF FindShimDevice
  <2>2. DevTypeOK'
    BY <1>1 DEF FindShimDevice, DevTypeOK, Temps
  <2> QED BY <2>1, <2>2
<1>2. CASE FoundShimDevice
  <2>1. named \cap ShimTemps \subseteq temps /\ named = temps /\ named \cap {"path"} \subseteq temps
    BY <1>2 DEF FoundShimDevice
  <2>2. DevInv' /\ dev' # "idle" /\ fault' = "none"
    BY <1>2, <2>1 DEF FoundShimDevice, Releases
  <2>3. DevTypeOK'
    BY <1>2 DEF FoundShimDevice, Releases, DevTypeOK
  <2> QED BY <2>2, <2>3
<1>3. CASE CreateFile \/ Reopen \/ ReferenceObject
  <2>1. DevInv' /\ dev' # "idle" /\ fault' = "none"
    BY <1>3 DEF CreateFile, Reopen, ReferenceObject
  <2>2. DevTypeOK'
    BY <1>3 DEF CreateFile, Reopen, ReferenceObject, DevTypeOK, Temps
  <2> QED BY <2>1, <2>2
<1>4. CASE AskIfDifferencing \/ CloseDifferencing
  <2>1. DevInv' /\ dev' # "idle" /\ fault' = "none"
    BY <1>4 DEF AskIfDifferencing, CloseDifferencing, Unknown, Releases
  <2>2. DevTypeOK'
    BY <1>4 DEF AskIfDifferencing, CloseDifferencing, Unknown, Releases, DevTypeOK
  <2> QED BY <2>1, <2>2
<1> QED BY <1>1, <1>2, <1>3, <1>4 DEF OpenStep

\* A failure leaves nothing, and closes twice nothing but a stale handle.
LEMMA OpenFailsInv ==
    ASSUME DevTypeOK, DevInv, fault = "none", OpenFails
    PROVE  DevTypeOK' /\ DevInv' /\ dev' = "idle" /\ fault' \in {"none", "closed_twice"}
<1> USE DEF OpenFails, Releases
<1>1. temps' = {}
  BY DEF DevInv, FromCreate
<1>2. fault' \in {"none", "closed_twice"} /\ (fault' = "closed_twice" => settled)
  BY DEF DevInv, FromCreate
<1>3. DevTypeOK'
  BY DEF DevTypeOK
<1> QED BY <1>1, <1>2, <1>3 DEF DevInv, ClosedOnce, FromCreate

LEMMA OpenSucceedsInv ==
    ASSUME DevInv, fault = "none", OpenSucceeds
    PROVE  /\ DevTypeOK' /\ DevInv' /\ dev' = "idle" /\ fault' = "none"
           /\ HandedOver = {"handle", "object"}
<1> USE DEF OpenSucceeds
<1>1. temps = {"path", "handle", "object"}
  BY DEF DevInv
<1>2. HandedOver = {"handle", "object"} /\ fault' = "none"
  BY <1>1 DEF HandedOver
<1>3. DevTypeOK'
  BY DEF DevTypeOK
<1> QED BY <1>2, <1>3 DEF DevInv, ClosedOnce, FromCreate

LEMMA DevKept ==
    ASSUME DevTypeOK, DevInv, UNCHANGED devVars, fault' # "closed_twice"
    PROVE  DevTypeOK' /\ DevInv'
BY DEF DevTypeOK, DevInv, ClosedOnce, devVars

-----------------------------------------------------------------------------
(* EVhdOpenDisk *)

LEMMA HeldWithIrp ==
    ASSUME HeldInv, CtlType, "recovery irp" \in held
    PROVE  {"instance", "recovery irp"} \subseteq held
<1>1. held = Resources
  BY DEF HeldInv, CtlType, Opening, Open, Resources, Irps
<1> QED BY <1>1 DEF Resources, Irps

LEMMA InvOpenDevice == ASSUME Inv, OpenDisk \/ OpenDevice PROVE Inv'
<1> USE DEF Inv, TypeInv, Running, Goes, instanceVars, directVars, recoveryVars
<1>1. /\ UNCHANGED <<caller, registered, mounted, resilient, instanceVars>>
      /\ ctl \in {"closed", "opening"} /\ held = {}
  BY DEF OpenDisk, OpenDevice, HeldInv
<1>2. /\ DevTypeOK' /\ DevInv' /\ fault' \in {"none", "closed_twice"}
      /\ \/ dev' # "idle" /\ ctl' = "opening" /\ held' = {}
         \/ dev' = "idle" /\ ctl' = "closed" /\ held' = {}
         \/ dev' = "idle" /\ ctl' = "instance" /\ held' = {"handle", "object"}
  <2>1. CASE OpenDisk
    BY <2>1 DEF OpenDisk, StartOpen, DevTypeOK, HeldInv, DevInv, ClosedOnce, FromCreate
  <2>2. CASE OpenDevice
    <3>1. CASE OpenStep /\ UNCHANGED <<ctl, held>>
      BY <2>2, <3>1, <1>1, OpenStepInv DEF OpenDevice
    <3>2. CASE OpenFails /\ ctl' = "closed" /\ UNCHANGED held
      BY <2>2, <3>2, <1>1, OpenFailsInv DEF OpenDevice
    <3>3. CASE OpenSucceeds /\ ctl' = "instance" /\ held' = HandedOver
      BY <2>2, <3>3, <1>1, OpenSucceedsInv DEF OpenDevice
    <3> QED BY <2>2, <3>1, <3>2, <3>3 DEF OpenDevice
  <2> QED BY <2>1, <2>2
<1>3. notify = "idle"
  <2>1. CASE OpenDisk
    BY <2>1 DEF OpenDisk
  <2>2. CASE OpenDevice
    BY <2>2 DEF OpenDevice, NotifyInv, NotifyType, Opening
  <2> QED BY <2>1, <2>2
<1>4. CtlType' /\ DiskType' /\ DirectType' /\ NotifyType'
  <2>1. CtlType'
    BY <1>1, <1>2 DEF CtlType, Opening
  <2>2. DiskType' /\ DirectType' /\ NotifyType'
    BY <1>1 DEF DiskType, DirectType, NotifyType
  <2> QED BY <2>1, <2>2
<1>5. HeldInv' /\ MountInv'
  BY <1>1, <1>2 DEF HeldInv, MountInv, Opening, Open, Ending, Resources
<1>6. AskInv'
  BY <1>1, <1>2 DEF AskInv, DirectIrpExclusive, Working
<1>7. NotifyInv'
  BY <1>1, <1>2, <1>3 DEF NotifyInv, Opening
<1> QED BY <1>2, <1>4, <1>5, <1>6, <1>7

LEMMA InvOpenDisk == ASSUME Inv, OpenDiskStep \/ OpenDiskFailed PROVE Inv'
<1> USE DEF Inv, TypeInv, Running, instanceVars, directVars, recoveryVars
<1>1. CASE OpenDiskStep
  <2> USE <1>1 DEF OpenDiskStep, Acquires
  <2>1. ctl \in Opening \ {"opening", "failed"} /\ ctl' \in (Opening \ {"opening"}) \cup {"idle"}
    BY DEF Opening
  <2>2. DevTypeOK' /\ DevInv'
    BY DevKept
  <2>3. HeldInv'
    BY DEF HeldInv, Opening, Open, Ending, Resources, Irps, devVars
  <2>4. CtlType' /\ DiskType' /\ DirectType' /\ NotifyType'
    <3>1. CtlType'
      BY <2>1 DEF CtlType, Opening
    <3>2. DiskType' /\ DirectType'
      BY DEF DiskType, DirectType
    <3>3. NotifyType'
      <4>1. rundown' \in 0..Notifications
        <5>1. rundown' = 0
          OBVIOUS
        <5> QED BY ONLY <5>1, Parser2016Assumption
      <4>2. rundownOver' = FALSE /\ UNCHANGED <<qos, notify, recovery>>
        OBVIOUS
      <4> QED BY <4>1, <4>2 DEF NotifyType
    <3> QED BY <3>1, <3>2, <3>3
  <2>5. MountInv'
    BY <2>1 DEF MountInv, Opening, Open, Ending
  <2>6. AskInv'
    BY <2>1 DEF AskInv, DirectIrpExclusive, Working, Opening
  <2>7. NotifyInv'
    BY <2>1 DEF NotifyInv, Opening
  <2> QED BY <2>2, <2>3, <2>4, <2>5, <2>6, <2>7
<1>2. CASE OpenDiskFailed
  <2> USE <1>2 DEF OpenDiskFailed
  <2>2. DevTypeOK' /\ DevInv' /\ fault' \in {"none", "null_parser"}
    BY DevKept
  <2>3. HeldInv'
    BY DEF HeldInv, Opening, Open, Ending, Resources, Irps, devVars
  <2>4. CtlType' /\ DiskType' /\ DirectType' /\ NotifyType'
    <3>1. CtlType'
      BY DEF CtlType, Opening
    <3>2. DiskType' /\ DirectType' /\ NotifyType'
      BY DEF DiskType, DirectType, NotifyType
    <3> QED BY <3>1, <3>2
  <2>5. MountInv'
    BY DEF MountInv, Opening, Open, Ending
  <2>6. AskInv'
    BY DEF AskInv, DirectIrpExclusive, Working, Opening
  <2>7. NotifyInv'
    BY DEF NotifyInv, Opening
  <2> QED BY <2>2, <2>3, <2>4, <2>5, <2>6, <2>7
<1> QED BY <1>1, <1>2

-----------------------------------------------------------------------------
(* Mount and dismount *)

LEMMA InvMount ==
    ASSUME Inv, \/ MountDisk \/ RegisterIo \/ GetAddress \/ DismountDisk
                \/ RemoveVirtualDisk \/ UnregisterIo \/ EnableResiliency
    PROVE  Inv'
<1> USE DEF Inv, TypeInv, Running, Goes, MountFailed, instanceVars, directVars, recoveryVars
<1> DEFINE Mounting == MountDisk \/ RegisterIo \/ GetAddress
           Removing == DismountDisk \/ RemoveVirtualDisk \/ UnregisterIo
<1>1. /\ UNCHANGED <<held, pushLock, carries, ioStatus, answered, qos, recoveryVars, devVars>>
      /\ fault = "none" /\ fault' = "none"
      /\ ctl \in Open /\ ctl' \in Open \cup {"cancel"}
  <2>1. CASE Mounting
    BY <2>1 DEF MountDisk, RegisterIo, GetAddress, Open
  <2>2. CASE Removing
    BY <2>2 DEF DismountDisk, RemoveVirtualDisk, UnregisterIo, Open
  <2>3. CASE EnableResiliency
    BY <2>3 DEF EnableResiliency, Open
  <2> QED BY <2>1, <2>2, <2>3
<1>2. DevTypeOK' /\ DevInv'
  BY <1>1, DevKept
<1>3. HeldInv'
  BY <1>1 DEF HeldInv, Open, devVars
<1>4. CtlType' /\ DiskType' /\ MountInv'
  <2> USE DEF CtlType, DiskType, MountInv, Opening, Ending
  <2>1. CASE MountDisk
    BY <2>1 DEF MountDisk
  <2>2. CASE RegisterIo
    BY <2>2 DEF RegisterIo
  <2>3. CASE GetAddress
    <3>1. CASE ctl' = "idle"
      BY <2>3, <3>1 DEF GetAddress
    <3>2. CASE ctl' # "idle"
      BY <2>3, <3>2 DEF GetAddress
    <3> QED BY <3>1, <3>2
  <2>4. CASE DismountDisk
    BY <2>4 DEF DismountDisk
  <2>5. CASE RemoveVirtualDisk
    BY <2>5 DEF RemoveVirtualDisk
  <2>6. CASE UnregisterIo
    BY <2>6 DEF UnregisterIo
  <2>7. CASE EnableResiliency
    BY <2>7 DEF EnableResiliency
  <2> QED BY <2>1, <2>2, <2>3, <2>4, <2>5, <2>6, <2>7
<1>5. DirectType' /\ AskInv'
  <2> USE DEF DirectType, AskInv, DirectIrpExclusive, Working
  <2>1. CASE Mounting \/ DismountDisk \/ EnableResiliency
    BY <2>1 DEF MountDisk, RegisterIo, GetAddress, DismountDisk, EnableResiliency
  <2>2. CASE RemoveVirtualDisk
    <3>1. asking[Vsp] = "idle" /\ ctl = "remove" /\ ctl' = "unregister" /\ caller' = caller
      BY <2>2 DEF RemoveVirtualDisk, Askers
    <3>2. /\ asking' \in [Askers -> {"idle", "lock", "sent"}]
          /\ \A t \in Askers : asking'[t] = asking[t] \/ (t = Vsp /\ asking'[t] = "lock")
      BY <2>2 DEF RemoveVirtualDisk, Askers
    <3> QED BY <1>1, <3>1, <3>2, Parser2016Assumption DEF Askers
  <2>3. CASE UnregisterIo
    BY <2>3 DEF UnregisterIo
  <2> QED BY <2>1, <2>2, <2>3
<1>6. NotifyType' /\ NotifyInv'
  BY <1>1 DEF NotifyType, NotifyInv, Open, Opening
<1> QED BY <1>1, <1>2, <1>3, <1>4, <1>5, <1>6

-----------------------------------------------------------------------------
(* EvhdDirectIoControl *)

LEMMA InvDirect ==
    ASSUME Inv, NEW t \in Askers,
           Asking(t) \/ CompleteDirect \/ (t \in Queriers /\ GetRecoveryStatus(t))
    PROVE  Inv'
<1> USE DEF Inv, TypeInv, Running, diskVars, recoveryVars
<1>1. UNCHANGED <<diskVars, qos, recoveryVars, devVars>> /\ fault = "none" /\ fault' = "none"
  BY DEF Asking, DirectSend, DirectReturn, CompleteDirect, GetRecoveryStatus
<1>2. DevTypeOK' /\ DevInv'
  BY <1>1, DevKept
<1>3. CtlType' /\ DiskType' /\ NotifyType'
  BY <1>1 DEF CtlType, DiskType, NotifyType
<1>4. HeldInv' /\ MountInv' /\ NotifyInv'
  <2>1. HeldInv' /\ NotifyInv'
    BY <1>1 DEF HeldInv, NotifyInv, devVars
  <2>2. MountInv'
    BY <1>1 DEF MountInv
  <2> QED BY <2>1, <2>2
<1>5. DirectType' /\ AskInv'
  <2>1. UNCHANGED <<Working, qos, ctl>>
    BY <1>1 DEF Working
  <2> USE DEF DirectType, AskInv, DirectIrpExclusive
  <2>2. CASE DirectSend(t)
    <3>1. pushLock = NoOne /\ pushLock' = t /\ carries' = t /\ ioStatus' = "pending"
      BY <2>2 DEF DirectSend, LockFree
    <3>2. asking[t] = "lock" /\ asking' = [asking EXCEPT ![t] = "sent"] /\ answered' = answered
      BY <2>2 DEF DirectSend
    <3>3. \A u \in Askers : asking[u] # "sent"
      BY <3>1, Parser2016Assumption DEF Askers
    <3>4. DirectType' /\ DirectIrpExclusive' /\ (pushLock' # NoOne => asking'[pushLock'] = "sent")
      BY <3>1, <3>2, <3>3
    <3> QED BY <2>1, <3>2, <3>4, Parser2016Assumption DEF Askers
  <2>3. CASE DirectReturn(t)
    BY <2>1, <2>3, Parser2016Assumption DEF DirectReturn, Released, Askers
  <2>4. CASE CompleteDirect
    BY <2>1, <2>4 DEF CompleteDirect
  <2>5. CASE t \in Queriers /\ GetRecoveryStatus(t)
    BY <2>1, <2>5, Parser2016Assumption DEF GetRecoveryStatus
  <2> QED BY <2>2, <2>3, <2>4, <2>5 DEF Asking
<1> QED BY <1>1, <1>2, <1>3, <1>4, <1>5

-----------------------------------------------------------------------------
(* QoS status and recovery notifications *)

LEMMA InvQos == ASSUME Inv, GetQosStatus \/ CompleteQos PROVE Inv'
<1> USE DEF Inv, TypeInv, Running, diskVars, directVars, recoveryVars
<1>1. UNCHANGED <<diskVars, directVars, recoveryVars, devVars>> /\ qos' \in BOOLEAN
  <2>1. CASE GetQosStatus
    BY <2>1 DEF GetQosStatus, NotifyType
  <2>2. CASE CompleteQos
    BY <2>2 DEF CompleteQos
  <2> QED BY <2>1, <2>2
<1>2. fault' \in {"none", "overrun_qos"}
  <2>1. CASE GetQosStatus
    BY <2>1 DEF GetQosStatus
  <2>2. CASE CompleteQos
    BY <2>2 DEF CompleteQos, AskInv, Working, HeldInv, Open, Resources, Irps
  <2> QED BY <2>1, <2>2
<1>3. qos' => Working
  <2>1. CASE GetQosStatus
    <3>1. Working
      BY <2>1 DEF GetQosStatus
    <3> QED BY <3>1
  <2>2. CASE CompleteQos
    <3>1. qos' = FALSE
      BY <2>2 DEF CompleteQos
    <3> QED BY <3>1
  <2> QED BY <2>1, <2>2
<1>4. DevTypeOK' /\ DevInv'
  BY <1>1, <1>2, DevKept
<1>5. CtlType' /\ DiskType' /\ DirectType' /\ NotifyType'
  BY <1>1 DEF CtlType, DiskType, DirectType, NotifyType
<1>6. HeldInv' /\ NotifyInv'
  BY <1>1 DEF HeldInv, NotifyInv, devVars
<1>7. MountInv'
  BY <1>1 DEF MountInv
<1>8. AskInv'
  BY <1>1, <1>3 DEF AskInv, DirectIrpExclusive, Working
<1> QED BY <1>2, <1>4, <1>5, <1>6, <1>7, <1>8

LEMMA InvNotify ==
    ASSUME Inv, NotifyRecoveryStatus \/ Notifying \/ CompleteRecovery
    PROVE  Inv'
<1> USE DEF Inv, TypeInv, Running, diskVars, directVars
<1>1. UNCHANGED <<diskVars, directVars, qos, rundownOver, devVars>>
  BY DEF Notifying, NotifyRecoveryStatus, AcquireRundown, SendNotification, CompleteRecovery
<1>2. "recovery irp" \in held => {"instance", "recovery irp"} \subseteq held
  BY HeldWithIrp
<1>3. fault' \in {"none", "freed_parser"}
  <2>1. CASE NotifyRecoveryStatus \/ Notifying
    BY <2>1 DEF Notifying, NotifyRecoveryStatus, AcquireRundown, SendNotification
  <2>2. CASE CompleteRecovery
    BY <1>2, <2>2 DEF CompleteRecovery, NotifyInv
  <2> QED BY <2>1, <2>2
<1>4. DevTypeOK' /\ DevInv'
  BY <1>1, <1>3, DevKept
<1>5. CtlType' /\ DiskType' /\ DirectType'
  BY <1>1 DEF CtlType, DiskType, DirectType
<1>6. HeldInv' /\ AskInv'
  BY <1>1 DEF HeldInv, AskInv, DirectIrpExclusive, Working, devVars
<1>7. MountInv'
  BY <1>1 DEF MountInv
<1>8. NotifyType'
  <2> USE DEF NotifyType
  <2>1. CASE NotifyRecoveryStatus
    BY <1>1, <2>1 DEF NotifyRecoveryStatus
  <2>2. CASE AcquireRundown
    <3>1. notify = "acquire" /\ rundown < Notifications
      BY <2>2 DEF AcquireRundown, NotifyInv
    <3>2. rundown' \in 0..Notifications /\ notify' \in {"idle", "send"}
      BY <2>2, <3>1, Parser2016Assumption DEF AcquireRundown
    <3>3. recovery' = recovery
      BY <2>2 DEF AcquireRundown
    <3> QED BY <1>1, <3>2, <3>3
  <2>3. CASE SendNotification
    BY <1>1, <2>3 DEF SendNotification
  <2>4. CASE CompleteRecovery
    BY <1>1, <2>4 DEF CompleteRecovery
  <2> QED BY <2>1, <2>2, <2>3, <2>4 DEF Notifying
<1>9. NotifyInv'
  <2> USE DEF NotifyInv
  <2>1. CASE NotifyRecoveryStatus
    BY <1>1, <2>1 DEF NotifyRecoveryStatus, Working, Opening, HeldInv, Open, Resources, Irps
  <2>2. CASE AcquireRundown
    <3>1. notify = "acquire" /\ UNCHANGED recovery
      BY <2>2 DEF AcquireRundown
    <3>2. CASE rundownOver
      <4>1. notify' = "idle" /\ UNCHANGED rundown
        BY <2>2, <3>2 DEF AcquireRundown
      <4> QED BY <1>1, <3>1, <3>2, <4>1
    <3>3. CASE ~ rundownOver
      <4>1. rundown' = rundown + 1 /\ notify' = "send"
        BY <2>2, <3>3 DEF AcquireRundown
      <4>2. rundown' > 0
        BY ONLY <4>1, NotifyType, Parser2016Assumption DEF NotifyType
      <4>3. "recovery irp" \in held /\ ctl \notin Opening \cup {"closed", "free"}
        BY <3>1, <3>3
      <4>4. UNCHANGED <<ctl, held, rundownOver>>
        BY <1>1
      <4> QED BY <4>1, <4>2, <4>3, <4>4
    <3> QED BY <3>2, <3>3
  <2>3. CASE SendNotification
    <3>1. notify = "send" /\ notify' = "idle" /\ UNCHANGED <<ctl, held, rundown, rundownOver>>
      BY <1>1, <2>3 DEF SendNotification
    <3> QED BY <3>1
  <2>4. CASE CompleteRecovery
    <3>1. recovery /\ UNCHANGED <<ctl, held, notify, rundown, rundownOver>>
      BY <1>1, <2>4 DEF CompleteRecovery
    <3> QED BY <3>1
  <2> QED BY <2>1, <2>2, <2>3, <2>4 DEF Notifying
<1> QED BY <1>3, <1>4, <1>5, <1>6, <1>7, <1>8, <1>9

-----------------------------------------------------------------------------
(* EVhdCloseDisk *)

LEMMA InvClose ==
    ASSUME Inv, CloseDisk \/ CancelRecovery \/ WaitForRundown \/ EndWait \/ Free
    PROVE  Inv'
<1> USE DEF Inv, TypeInv, Running, Goes, instanceVars, directVars, recoveryVars
<1> DEFINE Waiting == CancelRecovery \/ WaitForRundown \/ EndWait
<1>1. /\ UNCHANGED <<registered, mounted, resilient, directVars, qos, notify, recovery, rundown,
                     devVars>>
      /\ fault = "none" /\ fault' = "none" /\ rundownOver' \in BOOLEAN
  BY DEF CloseDisk, CancelRecovery, WaitForRundown, EndWait, Free, NotifyType
<1>2. DevTypeOK' /\ DevInv'
  BY <1>1, DevKept
<1>3. HeldInv'
  <2> USE DEF HeldInv, Opening, Open, Ending, devVars
  <2>1. CASE CloseDisk
    BY <2>1 DEF CloseDisk
  <2>2. CASE Waiting
    <3>1. UNCHANGED <<held, dev>> /\ ctl # "opening" /\ ctl' # "opening"
      BY <2>2 DEF CancelRecovery, WaitForRundown, EndWait
    <3>2. ctl' = "wait" => held = Resources
      BY <2>2, HeldWithIrp DEF CancelRecovery, WaitForRundown, EndWait, Resources, Irps
    <3>3. ctl' = "free" => held = Resources \/ held \subseteq Resources \ {"recovery irp"}
      BY <2>2 DEF CancelRecovery, WaitForRundown, EndWait
    <3>4. ctl' \in {"wait", "waiting", "free"} /\ (ctl' = "waiting" => ctl = "wait")
      BY <2>2 DEF CancelRecovery, WaitForRundown, EndWait
    <3> QED BY <3>1, <3>2, <3>3, <3>4
  <2>3. CASE Free
    BY <2>3 DEF Free
  <2> QED BY <2>1, <2>2, <2>3
<1>4. CtlType' /\ MountInv'
  <2> USE DEF CtlType, MountInv, Opening, Ending
  <2>1. CASE CloseDisk
    BY <2>1 DEF CloseDisk
  <2>2. CASE Waiting
    <3>1. ctl \in Ending /\ ctl' \in Ending /\ UNCHANGED <<caller, registered, mounted>>
      BY <2>2 DEF CancelRecovery, WaitForRundown, EndWait
    <3> QED BY <3>1
  <2>3. CASE Free
    BY <2>3 DEF Free
  <2> QED BY <2>1, <2>2, <2>3
<1>5. DiskType' /\ DirectType' /\ NotifyType'
  BY <1>1 DEF DiskType, DirectType, NotifyType
<1>6. AskInv'
  <2>1. ~ qos /\ asking[Vsp] = "idle" /\ \A t \in Queriers : asking[t] = "idle"
    BY DEF AskInv, Working, CloseDisk, CancelRecovery, WaitForRundown, EndWait, Free
  <2> QED BY <1>1, <2>1 DEF AskInv, DirectIrpExclusive
<1>7. NotifyInv'
  <2> USE DEF NotifyInv, Opening
  <2>1. CASE CloseDisk
    BY <2>1, HeldWithIrp DEF CloseDisk, HeldInv, Open
  <2>2. CASE CancelRecovery
    BY <2>2 DEF CancelRecovery
  <2>3. CASE WaitForRundown
    BY <2>3 DEF WaitForRundown
  <2>4. CASE EndWait
    BY <2>4 DEF EndWait, RundownReleased
  <2>5. CASE Free
    BY <2>5 DEF Free
  <2> QED BY <2>1, <2>2, <2>3, <2>4, <2>5
<1> QED BY <1>1, <1>2, <1>3, <1>4, <1>5, <1>6, <1>7

-----------------------------------------------------------------------------
\* A call without an IRP changes nothing that the invariant speaks of.
LEMMA InvCall == ASSUME Inv, CallWithoutIrp PROVE Inv'
<1> USE DEF CallWithoutIrp, diskVars, instanceVars, directVars, recoveryVars, Inv, TypeInv
<1>1. CtlType' /\ DiskType' /\ DirectType' /\ NotifyType'
  BY DEF CtlType, DiskType, DirectType, NotifyType
<1>2. DevTypeOK' /\ DevInv'
  BY DevKept
<1>3. HeldInv' /\ NotifyInv'
  BY DEF HeldInv, NotifyInv, devVars
<1>4. MountInv' /\ AskInv'
  BY DEF MountInv, AskInv, DirectIrpExclusive, Working
<1> QED BY <1>1, <1>2, <1>3, <1>4

-----------------------------------------------------------------------------
LEMMA InvNext == Inv /\ [Next]_vars => Inv'
<1> SUFFICES ASSUME Inv, [Next]_vars PROVE Inv'
  OBVIOUS
<1>1. CASE Control
  BY <1>1, InvOpenDevice, InvOpenDisk, InvMount, InvClose DEF Control
<1>2. ASSUME NEW t \in Askers, Asking(t) PROVE Inv'
  BY <1>2, InvDirect
<1>3. ASSUME NEW t \in Queriers, GetRecoveryStatus(t) PROVE Inv'
  BY <1>3, InvDirect DEF Askers
<1>4. CASE CompleteDirect
  <2>1. Vsp \in Askers
    BY DEF Askers
  <2> QED BY <1>4, <2>1, InvDirect
<1>5. CASE GetQosStatus \/ CompleteQos \/ CallWithoutIrp
  BY <1>5, InvQos, InvCall
<1>6. CASE NotifyRecoveryStatus \/ Notifying \/ CompleteRecovery
  BY <1>6, InvNotify
<1>7. CASE UNCHANGED vars
  <2> USE <1>7 DEF vars, diskVars, instanceVars, directVars, recoveryVars, devVars, Inv, TypeInv
  <2>1. CtlType' /\ DiskType' /\ DirectType' /\ NotifyType'
    BY DEF CtlType, DiskType, DirectType, NotifyType
  <2>2. DevTypeOK' /\ DevInv'
    BY DEF DevTypeOK, DevInv, ClosedOnce
  <2>5. HeldInv' /\ NotifyInv'
    BY DEF HeldInv, NotifyInv
  <2>3. MountInv'
    BY DEF MountInv
  <2>4. AskInv'
    BY DEF AskInv, DirectIrpExclusive, Working
  <2> QED BY <2>1, <2>2, <2>3, <2>4, <2>5
<1> QED BY <1>1, <1>2, <1>3, <1>4, <1>5, <1>6, <1>7 DEF Next

LEMMA InvAlways == Spec => []Inv
<1>1. Init => Inv
  BY InvInit
<1>2. Inv /\ [Next]_vars => Inv'
  BY InvNext
<1> QED BY <1>1, <1>2, PTL DEF Spec

-----------------------------------------------------------------------------
(* Theorems *)

\* Every variable keeps its type; the control call has a caller exactly while it is
\* inside EvhdUnregisterIo, a mount or EvhdFinalize.
THEOREM TypeCorrect == Spec => []TypeOK
<1>1. Inv => TypeOK
  BY DEF Inv, TypeInv, CtlType, DiskType, DirectType, NotifyType, HeldInv, TypeOK
<1> QED BY <1>1, InvAlways, PTL

\* However many threads call EvhdDirectIoControl, one at a time fills and sends the
\* direct IRP, and the status that it reads is the answer to its own request.
THEOREM DirectIrpIsExclusive == Spec => []DirectIrpExclusive
<1>1. Inv => DirectIrpExclusive
  BY DEF Inv, AskInv
<1> QED BY <1>1, InvAlways, PTL

\* Whenever a notification is asked for, sent, completed or cancelled while the disk is
\* being closed, EvhdFinalize frees nothing that it uses, and no IRP that vhdmp has.
THEOREM RundownProtects == Spec => []RundownCovers
<1>1. Inv => RundownCovers
  <2> SUFFICES ASSUME Inv PROVE RundownCovers
    OBVIOUS
  <2> QED BY HeldWithIrp DEF Inv, TypeInv, NotifyInv, RundownCovers
<1> QED BY <1>1, InvAlways, PTL

\* A close, and an open that fails at any of its steps, leave nothing; nobody is left
\* inside EvhdDirectIoControl, and bMounted and bIoRegistered agree between calls.
THEOREM InstanceIsReleased == Spec => []InstanceReleased
<1>1. Inv => InstanceReleased
  <2> SUFFICES ASSUME Inv PROVE InstanceReleased
    OBVIOUS
  <2>1. ClosedOnce /\ (ctl = "idle" => (mounted <=> registered))
    BY DEF Inv, DevInv, MountInv
  <2>2. ASSUME ctl = "closed"
        PROVE  held = {} /\ temps = {} /\ ~ registered /\ ~ qos /\ ~ recovery /\ pushLock = NoOne
    <3>1. held = {} /\ temps = {} /\ ~ registered
      BY <2>2 DEF Inv, HeldInv, DevInv, MountInv
    <3>2. ~ qos /\ ~ recovery
      BY <2>2 DEF Inv, AskInv, Working, NotifyInv
    <3>3. pushLock = NoOne
      BY <2>2 DEF Inv, TypeInv, DirectType, AskInv, Working, Askers
    <3> QED BY <3>1, <3>2, <3>3
  <2> QED BY <2>1, <2>2 DEF InstanceReleased
<1> QED BY <1>1, InvAlways, PTL
=============================================================================
