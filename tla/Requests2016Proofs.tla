------------------------- MODULE Requests2016Proofs -------------------------
(***************************************************************************)
(* Requests2016 proved for any meta operations and packets, any width of a *)
(* ULONG32, and any sizes that fit in one.                                 *)
(***************************************************************************)
EXTENDS Requests2016, TLAPS

-----------------------------------------------------------------------------
(* The inductive invariant *)

\* What there is of a meta operation in each phase: all of it once it is prepared,
\* nothing but a leaked system buffer before, and after a failure the VSP's own buffer.
OwnedInv ==
    \A o \in Operations :
       /\ phase[o] \in {"prepared", "started", "refused"} =>
             {"operation", "irp"} \subseteq owned[o] /\ userBuffer[o] = "driver"
       /\ phase[o] \in {"none", "failed"} =>
             owned[o] \subseteq {"system buffer"} /\ userBuffer[o] # "driver"
       /\ phase[o] = "failed" => userBuffer[o] = "vsp"

\* A buffer for an IOCTL is there while its call is, but for the leaked lists of parents.
BufferInv == call # "request" => buffers \subseteq {"names"}

Inv == TypeOK /\ OwnedInv /\ BufferInv /\ CalledBackOnce /\ PacketAnsweredOnce /\ RequestsSafe

-----------------------------------------------------------------------------
(* The arithmetic of a ULONG32 *)

\* A sum below its modulus is the sum, and one that is not is smaller than each term.
LEMMA SumWithoutWrap ==
    ASSUME NEW m \in Nat, NEW a \in 0..(m - 1), NEW b \in 0..(m - 1), ~ ((a + b) % m < a)
    PROVE  (a + b) % m = a + b
<1>1. CASE a + b < m
  BY <1>1
<1>2. CASE a + b >= m
  <2>1. (a + b) % m = a + b - m
    BY <1>2
  <2> QED BY <2>1
<1> QED BY <1>1, <1>2

\* The size check of save, restore and extract lets no sum through that has wrapped.
LEMMA CheckedSum ==
    ASSUME NEW size \in Sizes, ~ Overflows(size)
    PROVE  Sum(size) = HeaderSize + size
<1>1. size \in 0..(2^Width - 1) /\ HeaderSize \in 0..(2^Width - 1) /\ 2^Width \in Nat
  BY RequestsAssumption
<1>2. Sum(size) = size + HeaderSize
  BY <1>1, SumWithoutWrap DEF Overflows, Sum
<1> QED BY <1>1, <1>2

-----------------------------------------------------------------------------
LEMMA InvInit == Init => Inv
<1> SUFFICES ASSUME Init PROVE Inv
  OBVIOUS
<1> USE DEF Init
<1>1. TypeOK
  <2>1. /\ mounted \in BOOLEAN /\ routines \in BOOLEAN
        /\ call \in Calls \cup Operations /\ fault \in Faults
    BY DEF Calls, Faults
  <2>2. /\ buffers \in SUBSET {"names", "request"}
        /\ atVhdmp \in SUBSET Operations /\ cancelled \in SUBSET Operations
    OBVIOUS
  <2>3. /\ packet \in [Packets -> {"idle", "pending", "ok", "failed"}]
        /\ srb \in [Packets -> SrbStatus] /\ told \in [Packets -> SrbStatus]
        /\ answers \in [Packets -> 0..1] /\ callbacks \in [Operations -> 0..1]
    BY DEF SrbStatus
  <2>4. /\ phase \in [Operations -> {"none", "failed", "prepared", "started", "refused"}]
        /\ owned \in [Operations -> SUBSET Parts]
        /\ userBuffer \in [Operations -> {"none", "vsp", "driver"}]
        /\ written \in [Operations -> {"nothing", "done", "cancelled"}]
    OBVIOUS
  <2> QED BY <2>1, <2>2, <2>3, <2>4 DEF TypeOK
<1>2. OwnedInv /\ CalledBackOnce
  BY DEF OwnedInv, CalledBackOnce
<1>3. BufferInv /\ PacketAnsweredOnce /\ RequestsSafe
  BY DEF BufferInv, PacketAnsweredOnce, RequestsSafe
<1> QED BY <1>1, <1>2, <1>3 DEF Inv

-----------------------------------------------------------------------------
(* Steps that leave packets and meta operations alone *)

LEMMA InvOther ==
    ASSUME Inv, UNCHANGED <<packetVars, metaVars>>,
           mounted' \in BOOLEAN, routines' \in BOOLEAN, call' \in Calls \cup Operations,
           buffers' \subseteq {"names", "request"}, BufferInv', RequestsSafe'
    PROVE  Inv'
<1> USE DEF Inv, packetVars, metaVars
<1>1. TypeOK'
  BY DEF TypeOK, RequestsSafe, Faults
<1>2. OwnedInv' /\ CalledBackOnce'
  BY DEF OwnedInv, CalledBackOnce
<1>3. PacketAnsweredOnce'
  BY DEF PacketAnsweredOnce
<1> QED BY <1>1, <1>2, <1>3

LEMMA InvQuery == ASSUME Inv, MountOrDismount \/ Query PROVE Inv'
<1> USE DEF Inv, TypeOK, BufferInv, MayCall, Running, Calls, RequestsSafe, diskVars
<1>1. CASE MountOrDismount
  <2>1. mounted' \in BOOLEAN /\ routines' \in BOOLEAN
    BY <1>1 DEF MountOrDismount
  <2> QED BY <1>1, <2>1, InvOther DEF MountOrDismount
<1>2. CASE Ask
  BY <1>2, InvOther DEF Ask
<1>3. ASSUME NEW b \in {"names", "request"}, AskWithBuffer(b) PROVE Inv'
  BY <1>3, InvOther DEF AskWithBuffer
<1>4. ASSUME NEW status \in {"ok", "failed", "no parent"}, Answered(status) PROVE Inv'
  BY <1>4, InvOther DEF Answered, FreedOnReturn
<1>5. CASE NamesOverrun \/ CallWithoutIrp
  BY <1>5, InvOther DEF NamesOverrun, CallWithoutIrp
<1> QED BY <1>1, <1>2, <1>3, <1>4, <1>5 DEF Query

LEMMA InvSave ==
    ASSUME Inv, NEW saved \in Sizes, NEW size \in Sizes, SaveOrRestore(saved, size)
    PROVE  Inv'
<1>1. HeaderSize + saved <= size
  <2>1. saved \in Nat /\ HeaderSize \in Nat
    BY RequestsAssumption
  <2> QED BY <2>1, CheckedSum DEF SaveOrRestore
<1>2. fault' = IF routines THEN "none" ELSE "null_call"
  <2>1. saved \in Nat /\ size \in Nat /\ HeaderSize \in Nat
    BY RequestsAssumption
  <2> QED BY <1>1, <2>1 DEF SaveOrRestore
<1>3. UNCHANGED <<diskVars, call, buffers, packetVars, metaVars>> /\ mounted
  BY DEF SaveOrRestore
<1>4. RequestsSafe'
  BY <1>2, <1>3 DEF RequestsSafe, Inv, TypeOK, diskVars
<1> QED BY <1>3, <1>4, InvOther DEF Inv, TypeOK, BufferInv, diskVars

LEMMA InvReturn == ASSUME Inv, NEW o \in Operations, StartReturns(o) PROVE Inv'
<1>1. fault' = "none" /\ call = o /\ call' = "none" /\ o # "request"
  BY RequestsAssumption DEF StartReturns, UsedAfterCall
<1> QED BY <1>1, InvOther DEF StartReturns, Inv, TypeOK, BufferInv, Calls, RequestsSafe, diskVars

-----------------------------------------------------------------------------
(* SCSI packets *)

\* What a call of pfnStartIo leaves of a packet.
LEMMA PacketExecuted ==
    ASSUME TypeOK, PacketAnsweredOnce, NEW p \in Packets, NEW asked \in SrbStatus,
           NEW status \in {"ok", "failed", "pending"}, NEW s \in SrbStatus,
           Executed(p, asked, status, s)
    PROVE  /\ packet' \in [Packets -> {"idle", "pending", "ok", "failed"}]
           /\ srb' \in [Packets -> SrbStatus] /\ told' \in [Packets -> SrbStatus]
           /\ answers' \in [Packets -> 0..1]
           /\ PacketAnsweredOnce'
<1> USE DEF Executed, Completes, Reported, TypeOK
<1>1. Reported(s, status) \in SrbStatus
  BY DEF SrbStatus
<1>2. /\ packet' \in [Packets -> {"idle", "pending", "ok", "failed"}]
      /\ srb' \in [Packets -> SrbStatus] /\ told' \in [Packets -> SrbStatus]
      /\ answers' \in [Packets -> 0..1]
  BY <1>1
<1>3. PacketAnsweredOnce'
  BY DEF PacketAnsweredOnce
<1> QED BY <1>2, <1>3

LEMMA InvPacket == ASSUME Inv, NEW p \in Packets, Packet(p) PROVE Inv'
<1> USE DEF Inv, Running
<1> DEFINE Moved == /\ packet' \in [Packets -> {"idle", "pending", "ok", "failed"}]
                    /\ srb' \in [Packets -> SrbStatus] /\ told' \in [Packets -> SrbStatus]
                    /\ answers' \in [Packets -> 0..1]
                    /\ PacketAnsweredOnce'
<1>1. UNCHANGED <<diskVars, call, buffers, metaVars>>
  BY DEF Packet, ExecuteScsiRequest, CompleteScsiRequest
<1>2. Moved /\ RequestsSafe'
  <2>1. ASSUME ExecuteScsiRequest(p) PROVE Moved /\ RequestsSafe'
    <3>1. PICK asked \in SrbStatus :
             \/ /\ \E s \in SrbStatus, status \in {"ok", "failed", "pending"} :
                      Executed(p, asked, status, s)
                /\ UNCHANGED fault
             \/ mounted /\ ~ routines /\ fault' = "null_call" /\ UNCHANGED packetVars
      BY <2>1 DEF ExecuteScsiRequest
    <3>2. Moved
      BY <3>1, PacketExecuted DEF TypeOK, packetVars, PacketAnsweredOnce
    <3>3. RequestsSafe'
      BY <1>1, <3>1 DEF RequestsSafe, diskVars
    <3> QED BY <3>2, <3>3
  <2>2. ASSUME NEW status \in {"ok", "failed"}, CompleteScsiRequest(p, status)
        PROVE  Moved /\ RequestsSafe'
    <3>1. PICK s \in SrbStatus : Executed(p, s, status, s)
      <4>1. answers[p] = 0
        BY <2>2 DEF CompleteScsiRequest, PacketAnsweredOnce
      <4>2. answers' = [answers EXCEPT ![p] = answers[p] + 1]
        BY <2>2 DEF CompleteScsiRequest
      <4>3. answers' = [answers EXCEPT ![p] = 1]
        BY ONLY <4>1, <4>2
      <4> QED BY <2>2, <4>3 DEF CompleteScsiRequest, Executed, Completes
    <3>2. UNCHANGED fault
      BY <2>2 DEF CompleteScsiRequest
    <3> QED BY <1>1, <3>1, <3>2, PacketExecuted DEF RequestsSafe, diskVars
  <2> QED BY <2>1, <2>2 DEF Packet
<1>3. TypeOK'
  BY <1>1, <1>2 DEF TypeOK, metaVars, diskVars, RequestsSafe, Faults
<1>4. OwnedInv' /\ CalledBackOnce' /\ BufferInv'
  BY <1>1 DEF OwnedInv, CalledBackOnce, BufferInv, metaVars
<1> QED BY <1>2, <1>3, <1>4

-----------------------------------------------------------------------------
(* Meta operations *)

LEMMA InvPrepare ==
    ASSUME Inv, NEW o \in Operations, PrepareMetaOperation(o) \/ FreeUserBuffer(o) \/ Refuse(o)
    PROVE  Inv'
<1> USE DEF Inv, MayCall, Running, packetVars, diskVars
<1>1. CASE PrepareMetaOperation(o)
  <2>1. PICK parts \in SUBSET Parts :
           /\ \/ /\ phase' = [phase EXCEPT ![o] = "prepared"]
                 /\ parts = {"operation", "irp"}
                 /\ userBuffer' = [userBuffer EXCEPT ![o] = "driver"]
              \/ /\ phase' = [phase EXCEPT ![o] = "failed"]
                 /\ parts = {}
                 /\ userBuffer' = [userBuffer EXCEPT ![o] = "vsp"]
           /\ owned' = [owned EXCEPT ![o] = parts]
    BY <1>1 DEF PrepareMetaOperation, FreesUserBuffer, Parts
  <2>2. /\ UNCHANGED <<diskVars, call, buffers, packetVars, atVhdmp, cancelled, written,
                       callbacks, fault>>
        /\ phase[o] = "none"
    BY <1>1 DEF PrepareMetaOperation
  <2>3. TypeOK'
    BY <2>1, <2>2 DEF TypeOK
  <2>4. OwnedInv'
    <3>1. ASSUME NEW q \in Operations, q # o
          PROVE  UNCHANGED <<phase[q], owned[q], userBuffer[q]>>
      BY <2>1, <3>1 DEF TypeOK
    <3>2. /\ owned'[o] = parts
          /\ \/ phase'[o] = "prepared" /\ userBuffer'[o] = "driver" /\ parts = {"operation", "irp"}
             \/ phase'[o] = "failed" /\ userBuffer'[o] = "vsp" /\ parts = {}
      BY <2>1 DEF TypeOK
    <3> QED BY <3>1, <3>2 DEF OwnedInv
  <2>5. CalledBackOnce'
    BY <2>1, <2>2 DEF CalledBackOnce, TypeOK
  <2> QED BY <2>2, <2>3, <2>4, <2>5 DEF BufferInv, PacketAnsweredOnce, RequestsSafe
<1>2. CASE FreeUserBuffer(o)
  <2> USE <1>2 DEF FreeUserBuffer
  <2>1. fault' = "none"
    BY DEF OwnedInv
  <2>2. TypeOK'
    BY <2>1 DEF TypeOK
  <2>3. OwnedInv'
    BY DEF OwnedInv, TypeOK
  <2>4. CalledBackOnce'
    BY DEF CalledBackOnce, TypeOK
  <2> QED BY <2>1, <2>2, <2>3, <2>4 DEF BufferInv, PacketAnsweredOnce, RequestsSafe
<1>3. CASE Refuse(o)
  <2> USE <1>3 DEF Refuse
  <2>1. TypeOK'
    BY DEF TypeOK
  <2>2. OwnedInv' /\ CalledBackOnce'
    BY DEF OwnedInv, CalledBackOnce, TypeOK
  <2> QED BY <2>1, <2>2 DEF BufferInv, PacketAnsweredOnce, RequestsSafe
<1> QED BY <1>1, <1>2, <1>3

LEMMA InvStart ==
    ASSUME Inv, NEW o \in Operations, NEW type \in {"resize", "optimize", "extract"},
           NoMemory(o, type) \/ \E inner \in Sizes : StartMetaOperation(o, type, inner)
    PROVE  Inv'
<1> USE DEF Inv, MayCall, Running, packetVars, diskVars
<1>1. CASE NoMemory(o, type)
  <2> USE <1>1 DEF NoMemory, KeptBack
  <2>1. TypeOK'
    BY DEF TypeOK, Faults
  <2>2. OwnedInv'
    <3>1. \A x \in Operations : x # o => /\ phase'[x] = phase[x] /\ owned'[x] = owned[x]
                                         /\ userBuffer'[x] = userBuffer[x]
      BY DEF TypeOK
    <3>2. phase[o] = "prepared" /\ phase'[o] \in {"prepared", "refused"}
      BY DEF TypeOK
    <3>3. owned[o] \subseteq owned'[o] /\ userBuffer'[o] = userBuffer[o]
      BY DEF TypeOK
    <3> QED BY <3>1, <3>2, <3>3 DEF OwnedInv
  <2>3. CalledBackOnce'
    BY DEF CalledBackOnce, TypeOK
  <2>4. RequestsSafe'
    BY DEF RequestsSafe
  <2> QED BY <2>1, <2>2, <2>3, <2>4 DEF BufferInv, PacketAnsweredOnce
<1>2. ASSUME NEW inner \in Sizes, StartMetaOperation(o, type, inner) PROVE Inv'
  <2>1. fault' = "none"
    BY <1>2, CheckedSum DEF StartMetaOperation
  <2> USE <1>2 DEF StartMetaOperation
  <2>2. TypeOK'
    BY <2>1 DEF TypeOK, Parts, Calls
  <2>3. OwnedInv'
    BY DEF OwnedInv, TypeOK
  <2>4. CalledBackOnce'
    BY DEF CalledBackOnce, TypeOK
  <2> QED BY <2>1, <2>2, <2>3, <2>4 DEF BufferInv, PacketAnsweredOnce, RequestsSafe
<1> QED BY <1>1, <1>2

LEMMA InvComplete ==
    ASSUME Inv, NEW o \in Operations,
           Complete(o) \/ CancelMetaOperation(o) \/ CleanupMetaOperation(o)
    PROVE  Inv'
<1> USE DEF Inv, Running, packetVars, diskVars
<1>1. CASE Complete(o)
  <2> USE <1>1 DEF Complete
  <2>1. phase[o] = "started" /\ callbacks[o] = 0
    BY DEF CalledBackOnce
  <2>2. fault' = "none"
    BY <2>1 DEF OwnedInv
  <2>3. TypeOK'
    BY <2>1, <2>2 DEF TypeOK
  <2>4. OwnedInv'
    BY DEF OwnedInv
  <2>5. CalledBackOnce'
    BY <2>1 DEF CalledBackOnce, TypeOK
  <2> QED BY <2>2, <2>3, <2>4, <2>5 DEF BufferInv, PacketAnsweredOnce, RequestsSafe
<1>2. CASE CancelMetaOperation(o)
  <2> USE <1>2 DEF CancelMetaOperation
  <2>1. TypeOK'
    BY DEF TypeOK
  <2>2. OwnedInv' /\ CalledBackOnce'
    BY DEF OwnedInv, CalledBackOnce, TypeOK
  <2> QED BY <2>1, <2>2 DEF BufferInv, PacketAnsweredOnce, RequestsSafe
<1>3. CASE CleanupMetaOperation(o)
  <2> USE <1>3 DEF CleanupMetaOperation
  <2>1. phase[o] \in {"prepared", "refused", "started"} /\ "irp" \in owned[o] /\ o \notin atVhdmp
    <3>1. phase[o] \in {"prepared", "refused", "started"}
      OBVIOUS
    <3>2. "irp" \in owned[o]
      BY <3>1 DEF OwnedInv
    <3>3. o \notin atVhdmp
      BY DEF CalledBackOnce
    <3> QED BY <3>1, <3>2, <3>3
  <2>2. TypeOK'
    BY DEF TypeOK
  <2>3. OwnedInv'
    <3>1. \A x \in Operations : x # o => /\ phase'[x] = phase[x] /\ owned'[x] = owned[x]
                                         /\ userBuffer'[x] = userBuffer[x]
      BY DEF TypeOK
    <3>2. phase'[o] = "none" /\ userBuffer'[o] = "none"
      BY <2>1 DEF TypeOK, FreesUserBuffer
    <3>3. owned'[o] \subseteq {"system buffer"}
      BY DEF TypeOK, Cleaned, Parts
    <3>4. ASSUME NEW x \in Operations, x # o
          PROVE  UNCHANGED <<phase[x], owned[x], userBuffer[x]>>
      BY <3>1, <3>4
    <3> QED BY ONLY OwnedInv, <3>2, <3>3, <3>4 DEF OwnedInv
  <2>4. CalledBackOnce'
    BY <2>1 DEF CalledBackOnce, TypeOK
  <2> QED BY <2>2, <2>3, <2>4 DEF BufferInv, PacketAnsweredOnce, RequestsSafe
<1> QED BY <1>1, <1>2, <1>3

-----------------------------------------------------------------------------
LEMMA InvNext == Inv /\ [Next]_vars => Inv'
<1> SUFFICES ASSUME Inv, [Next]_vars PROVE Inv'
  OBVIOUS
<1>1. CASE MountOrDismount \/ Query
  BY <1>1, InvQuery
<1>2. ASSUME NEW saved \in Sizes, NEW size \in Sizes, SaveOrRestore(saved, size) PROVE Inv'
  BY <1>2, InvSave
<1>3. ASSUME NEW p \in Packets, Packet(p) PROVE Inv'
  BY <1>3, InvPacket
<1>4. ASSUME NEW o \in Operations, Meta(o) PROVE Inv'
  BY <1>4, InvPrepare, InvStart, InvReturn, InvComplete DEF Meta
<1>5. CASE UNCHANGED vars
  BY <1>5, InvOther DEF vars, Inv, TypeOK, BufferInv, RequestsSafe, diskVars
<1> QED BY <1>1, <1>2, <1>3, <1>4, <1>5 DEF Next, Faulted

LEMMA InvAlways == Spec => []Inv
<1>1. Init => Inv
  BY InvInit
<1>2. Inv /\ [Next]_vars => Inv'
  BY InvNext
<1> QED BY <1>1, <1>2, PTL DEF Spec

-----------------------------------------------------------------------------
(* Theorems *)

\* Every variable keeps its type: in particular a packet is completed at most once and
\* an operation called back at most once before it is cleaned up.
THEOREM TypeCorrect == Spec => []TypeOK
<1>1. Inv => TypeOK
  BY DEF Inv
<1> QED BY <1>1, InvAlways, PTL

\* Wherever its callback runs, during EVhdStartMetaOperation or after, and whenever the
\* VSP cleans it up, nothing of a meta operation is used after it was freed or freed
\* twice; and the checks of a 32-bit sum keep every copy of a saved state or an inner
\* request inside its buffer, whatever its size.  The undefined behaviour that is left is
\* the four cases of RequestsSafe.
THEOREM RequestsAreSafe == Spec => []RequestsSafe
<1>1. Inv => RequestsSafe
  BY DEF Inv
<1> QED BY <1>1, InvAlways, PTL

\* An operation is called back exactly when EVhdStartMetaOperation went through to
\* vhdmp: once, when vhdmp completes the IRP, cancelled or not.
THEOREM OperationsCalledBackOnce == Spec => []CalledBackOnce
<1>1. Inv => CalledBackOnce
  BY DEF Inv
<1> QED BY <1>1, InvAlways, PTL

\* What a call has allocated is freed when it returns, what a meta operation has when it
\* is cleaned up, but for the empty list of parents and the system buffer.
THEOREM NothingIsKept == Spec => []NothingKept
<1>1. Inv => NothingKept
  BY DEF Inv, OwnedInv, BufferInv, NothingKept
<1> QED BY <1>1, InvAlways, PTL

\* Whatever status and SrbStatus vhdmp returns and whatever SrbStatus the VSC sends, a
\* SCSI packet is completed by EVhdExecuteScsiRequestDisk or by vhdmp's callback, never
\* by both; a failed one is told as an error unless its Srb says success.
THEOREM PacketsAnsweredOnce == Spec => []PacketAnsweredOnce
<1>1. Inv => PacketAnsweredOnce
  BY DEF Inv
<1> QED BY <1>1, InvAlways, PTL
=============================================================================
