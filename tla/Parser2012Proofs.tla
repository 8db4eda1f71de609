-------------------------- MODULE Parser2012Proofs --------------------------
(***************************************************************************)
(* Parser2012 proved for any packets, pool memory, ciphers and sizes.      *)
(***************************************************************************)
EXTENDS Parser2012, ExtensionProofs

-----------------------------------------------------------------------------
(* The inductive invariant *)

CtlType ==
    /\ ctl \in {"closed", "instance", "geometry", "extension", "idle", "qos", "register",
                "address", "remove", "unregister", "destroyed", "forgotten", "deleted",
                "finalize"}
    /\ caller \in {"none", "mount", "dismount", "delete", "cleanup"}
    /\ held \subseteq Resources /\ pends \in BOOLEAN

DiskType ==
    /\ registered \in BOOLEAN /\ qos \in BOOLEAN /\ mounted \in BOOLEAN
    /\ saveSize \in Sizes \cup {0} /\ routines \in BOOLEAN
    /\ ~ qos => saveSize = 0 /\ ~ routines

HistoryType == unremoved \in BOOLEAN /\ orphaned \subseteq Packets

Unopened == {"closed", "instance", "geometry", "extension"}
Mounting == {"qos", "register", "address"}
Dismounting == {"destroyed", "forgotten"}

\* Between control calls, and while EVhd_Cleanup deletes the extension.
Settled == ctl \in {"idle", "deleted"} \/ (ctl \in Dismounting /\ caller = "delete")

\* The instance is there for the packets that vhdmp completes.
HeldInv ==
    /\ ctl = "closed" => held \subseteq {"stray"}
    /\ ctl = "instance" => "instance" \notin held
    /\ ctl \notin {"closed", "instance"} => "instance" \in held

\* Who called EVhd_UnregisterIo and Ext_Dismount.
CallerInv ==
    /\ ctl \in Unopened \cup {"idle"} => caller = "none"
    /\ ctl \in Mounting => caller = "mount"
    /\ ctl \in {"remove", "unregister"} => caller \in {"mount", "dismount", "cleanup"}
    /\ ctl \in Dismounting => caller # "none"
    /\ ctl = "deleted" => caller = "delete"
    /\ ctl = "finalize" => caller = "cleanup"

\* bMounted, the two registrations and the routines, whatever vhdmp refuses ...
MountedInv ==
    /\ ctl \in Unopened \cup Mounting \cup {"finalize"} => ~ mounted
    /\ Settled /\ mounted => registered /\ qos
    /\ qos => routines \/ pends
    /\ ctl \in {"register", "address"} => qos
    /\ ctl = "address" => registered
    /\ ctl = "unregister" => ~ registered
    /\ ctl \in Dismounting /\ caller # "delete" => ~ registered /\ ~ qos

\* ... and as long as it refuses nothing.
UnmountedInv ==
    ~ unremoved =>
       /\ ctl \in Unopened \cup {"finalize", "qos"} => ~ registered /\ ~ qos
       /\ ctl = "register" => ~ registered
       /\ Settled /\ ~ mounted => ~ registered /\ ~ qos

\* There is a cipher only with an extension, and a context only with a cipher; it goes
\* in three steps.
CipherInv ==
    /\ ~ extension \/ ctl = "deleted" => engine = Null
    /\ ctl \in Unopened \/ caller = "cleanup" => ~ extension
    /\ ~ unremoved => /\ ctl \notin Dismounting => ContextOwned
                      /\ ctl = "destroyed" => Destroyed
                      /\ ctl = "forgotten" => Forgotten
                      /\ ctl = "idle" /\ ~ mounted => engine = Null

\* The pages of a packet's inner MDL are freed when it comes back, or its cipher was
\* forgotten.
InnerInv ==
    /\ \A p \in Pending :
          inner[p] = "live" => p \in orphaned \/ (Encrypts(op[p]) /\ mdl[p] = "inner")
    /\ \A p \in Packets : state[p] = "decrypting" => op[p] = "read"
    /\ InnerFreed

\* As long as vhdmp refuses nothing, it has packets of a registered disk only, their
\* inner MDLs are there to be freed, and reads have their cipher, up to EVhd_Cleanup.
PacketInv ==
    ~ unremoved =>
       /\ Pending # {} => registered
       /\ \A p \in Pending : FreesInner(op[p]) => mdl[p] = "inner"
       /\ \A p \in Packets :
             state[p] = "decrypting" =>
                caller \in {"delete", "cleanup"} \/ (extension /\ engine # Null)

FaultInv ==
    /\ MemorySafe
    /\ fault \in {"none", "freed_extension", "lost_cipher", "freed_source", "freed_parser",
                  "null_call"} \cup Unchecked

TypeInv == CtlType /\ DiskType /\ HistoryType /\ CipherType /\ PacketType

Inv ==
    /\ TypeInv /\ HeldInv /\ CallerInv /\ MountedInv /\ UnmountedInv /\ CipherInv
    /\ InnerInv /\ PacketInv /\ FaultInv

-----------------------------------------------------------------------------
LEMMA InvInit == Init => Inv
<1> SUFFICES ASSUME Init PROVE Inv
  OBVIOUS
<1> USE DEF Init, ExtInit
<1>1. CtlType /\ HistoryType
  BY DEF CtlType, HistoryType
<1>2. DiskType
  BY DEF DiskType
<1>3. CipherType /\ PacketType
  BY DEF CipherType, PacketType, Operations
<1>4. HeldInv /\ CallerInv /\ MountedInv /\ UnmountedInv
  BY DEF HeldInv, CallerInv, MountedInv, UnmountedInv, Unopened, Mounting, Dismounting, Settled
<1>5. CipherInv
  BY DEF CipherInv, ContextOwned, Dismounting
<1>6. InnerInv /\ PacketInv
  BY DEF InnerInv, PacketInv, Pending, InnerFreed
<1>7. FaultInv
  BY DEF FaultInv, MemorySafe
<1> QED BY <1>1, <1>2, <1>3, <1>4, <1>5, <1>6, <1>7 DEF Inv, TypeInv

-----------------------------------------------------------------------------
(* What a step does not disturb *)

\* The MDLs of packets, by a step that keeps the cipher of those that have one.
LEMMA InnerKept ==
    ASSUME InnerInv, UNCHANGED packetVars, orphaned \subseteq orphaned',
           \A p \in Pending : Encrypts(op[p]) => Encrypts(op[p])' \/ p \in orphaned'
    PROVE  InnerInv'
<1>1. Pending' = Pending /\ UNCHANGED <<state, op, mdl, inner>>
  BY DEF Pending, packetVars
<1>2. InnerFreed'
  BY <1>1 DEF InnerInv, InnerFreed
<1> QED BY <1>1, <1>2 DEF InnerInv

LEMMA PacketsKept ==
    ASSUME PacketInv, UNCHANGED <<packetVars, extension, engine>>,
           registered /\ Pending # {} => registered', unremoved => unremoved',
           caller \in {"delete", "cleanup"} /\ Pending # {} => caller' \in {"delete", "cleanup"}
    PROVE  PacketInv'
<1>1. Pending' = Pending /\ UNCHANGED <<state, op, mdl>>
  BY DEF Pending, packetVars
<1>2. \A p \in Packets : UNCHANGED FreesInner(op[p])
  BY <1>1 DEF FreesInner
<1>3. \A p \in Packets : state[p] = "decrypting" => p \in Pending
  BY DEF Pending
<1>4. ASSUME ~ unremoved', NEW p \in Packets, state'[p] = "decrypting"
      PROVE  caller' \in {"delete", "cleanup"} \/ (extension' /\ engine' # Null)
  BY <1>1, <1>3, <1>4 DEF PacketInv
<1>5. ~ unremoved' => /\ Pending' # {} => registered'
                      /\ \A p \in Pending' : FreesInner(op[p])' => mdl'[p] = "inner"
  BY <1>1, <1>2 DEF PacketInv, Pending
<1> QED BY <1>4, <1>5 DEF PacketInv

\* Without packets at vhdmp, whatever becomes of the cipher.
LEMMA PacketsNone ==
    ASSUME PacketInv, UNCHANGED packetVars, unremoved' \/ Pending = {}
    PROVE  PacketInv'
BY DEF PacketInv, Pending, packetVars

LEMMA CipherTypeKept ==
    ASSUME CipherType, UNCHANGED <<cipherVars, store>>, extension' \in BOOLEAN
    PROVE  CipherType'
BY DEF CipherType, cipherVars

-----------------------------------------------------------------------------
(* Init *)

LEMMA InvOpen ==
    ASSUME Inv, OpenDevice \/ AllocateParser \/ Initialize \/ InitializeExtension
    PROVE  Inv'
<1> USE DEF Inv, TypeInv, Running
<1>1. /\ UNCHANGED <<caller, registered, qos, routines, saveSize, mounted, pends, unremoved,
                     orphaned, cipherVars, store, packetVars>>
      /\ fault = "none" /\ fault' \in {"none", "double_close"}
      /\ ctl \in Unopened /\ ctl' \in Unopened \cup {"idle"}
      /\ UNCHANGED extension \/ (ctl' = "idle" /\ extension' \in BOOLEAN)
  BY DEF OpenDevice, AllocateParser, Initialize, InitializeExtension, Unopened, qosVars,
         historyVars
<1>2. ~ mounted /\ ~ extension /\ engine = Null /\ engine' = Null
  BY <1>1 DEF MountedInv, CipherInv, cipherVars
<1>3. CtlType' /\ HeldInv'
  <2> USE DEF CtlType, HeldInv, Resources
  <2>1. CASE OpenDevice
    BY <1>1, <2>1 DEF OpenDevice
  <2>2. CASE AllocateParser
    <3>1. CASE ctl' = "geometry" /\ held' = held \cup {"instance"}
      BY <1>1, <3>1
    <3>2. CASE ctl' = "closed" /\ held' = (held \ {"handle", "object"}) \cup {"stray"}
      <4>1. ctl = "instance"
        BY <2>2 DEF AllocateParser
      <4> QED BY <1>1, <3>2, <4>1
    <3> QED BY <2>2, <3>1, <3>2 DEF AllocateParser
  <2>3. CASE Initialize
    BY <1>1, <2>3 DEF Initialize
  <2>4. CASE InitializeExtension
    BY <1>1, <2>4 DEF InitializeExtension
  <2> QED BY <2>1, <2>2, <2>3, <2>4
<1>4. DiskType' /\ HistoryType' /\ CipherType' /\ PacketType'
  <2>1. DiskType' /\ HistoryType'
    BY <1>1 DEF DiskType, HistoryType
  <2>2. CipherType'
    BY <1>1, CipherTypeKept DEF CipherType
  <2>3. PacketType'
    BY <1>1 DEF PacketType, packetVars
  <2> QED BY <2>1, <2>2, <2>3
<1>5. CallerInv' /\ MountedInv' /\ UnmountedInv'
  BY <1>1, <1>2 DEF CallerInv, MountedInv, UnmountedInv, Unopened, Mounting, Dismounting, Settled
<1>6. CipherInv'
  BY <1>1, <1>2 DEF CipherInv, CallerInv, ContextOwned, Unopened, Dismounting, cipherVars
<1>7. InnerInv'
  BY <1>1, <1>2, InnerKept DEF Encrypts
<1>8. PacketInv'
  <2>1. unremoved \/ Pending = {}
    BY <1>1 DEF PacketInv, UnmountedInv
  <2> QED BY <1>1, <2>1, PacketsNone
<1>9. FaultInv'
  BY <1>1 DEF FaultInv, MemorySafe, Unchecked
<1> QED BY <1>3, <1>4, <1>5, <1>6, <1>7, <1>8, <1>9

-----------------------------------------------------------------------------
(* Mount and dismount: steps that leave the cipher alone *)

Registering == RegisterQoS \/ RegisterIo \/ GetAddress \/ Dismount

LEMMA InvRegister ==
    ASSUME Inv, Registering \/ RemoveVirtualDisk \/ Finalize
    PROVE  Inv'
<1> USE DEF Inv, TypeInv, Running
<1>1. /\ UNCHANGED <<extension, orphaned, pends, cipherVars, store, packetVars>>
      /\ fault = "none" /\ fault' = "none"
      /\ unremoved => unremoved'
  <2>1. CASE Registering \/ Finalize
    BY <2>1 DEF Registering, RegisterQoS, RegisterIo, GetAddress, Dismount, Finalize, historyVars
  <2>2. CASE RemoveVirtualDisk
    BY <2>2 DEF RemoveVirtualDisk
  <2> QED BY <2>1, <2>2
<1>2. CtlType' /\ HeldInv' /\ CallerInv'
  <2> USE DEF CtlType, HeldInv, CallerInv, Resources, Unopened, Mounting, Dismounting
  <2>1. CASE Registering
    BY <2>1 DEF Registering, RegisterQoS, RegisterIo, GetAddress, Dismount, MountFailed
  <2>2. CASE RemoveVirtualDisk
    BY <2>2 DEF RemoveVirtualDisk, UnregisterIoReturns
  <2>3. CASE Finalize
    BY <2>3 DEF Finalize
  <2> QED BY <2>1, <2>2, <2>3
<1>3. DiskType' /\ MountedInv' /\ UnmountedInv'
  <2> USE DEF DiskType, MountedInv, UnmountedInv, CallerInv, Unopened, Mounting, Dismounting,
              Settled
  <2>1. CASE RegisterQoS
    <3>1. /\ UNCHANGED <<registered, mounted, unremoved>> /\ ctl = "qos"
          /\ \/ /\ qos' = TRUE /\ routines' \in BOOLEAN /\ saveSize' \in Sizes \cup {0}
                /\ (routines' \/ pends) /\ ctl' = "register"
             \/ /\ ctl' \in {"register", "remove"} /\ (ctl' = "register" => qos)
                /\ UNCHANGED <<qos, routines, saveSize>>
      BY <2>1 DEF RegisterQoS, MountFailed, historyVars, qosVars
    <3>2. DiskType'
      <4>1. /\ registered' \in BOOLEAN /\ qos' \in BOOLEAN /\ mounted' \in BOOLEAN
            /\ routines' \in BOOLEAN
        BY <3>1
      <4>2. saveSize' \in Sizes \cup {0} /\ (~ qos' => saveSize' = 0 /\ ~ routines')
        BY <3>1
      <4> QED BY <4>1, <4>2
    <3>3. ~ Settled' /\ ~ mounted
      BY <3>1
    <3>4. MountedInv'
      BY <1>1, <3>1, <3>3
    <3>5. UnmountedInv'
      BY <3>1, <3>3
    <3> QED BY <3>2, <3>4, <3>5
  <2>2. CASE RegisterIo
    BY <2>2 DEF RegisterIo, MountFailed, historyVars, qosVars
  <2>3. CASE GetAddress
    BY <2>3 DEF GetAddress, MountFailed, historyVars, qosVars
  <2>4. CASE Dismount
    BY <2>4 DEF Dismount, historyVars, qosVars
  <2>5. CASE RemoveVirtualDisk
    BY <2>5 DEF RemoveVirtualDisk, UnregisterIoReturns, qosVars
  <2>6. CASE Finalize
    BY <2>6 DEF Finalize, historyVars, qosVars
  <2> QED BY <2>1, <2>2, <2>3, <2>4, <2>5, <2>6 DEF Registering
<1>4. HistoryType' /\ PacketType' /\ CipherType'
  <2>1. HistoryType'
    BY <1>1 DEF HistoryType, Registering, RegisterQoS, RegisterIo, GetAddress, Dismount, Finalize,
       RemoveVirtualDisk, historyVars
  <2>2. PacketType'
    BY <1>1 DEF PacketType, packetVars
  <2>3. CipherType'
    BY <1>1, CipherTypeKept DEF CipherType
  <2> QED BY <2>1, <2>2, <2>3
<1>5. CipherInv'
  <2>1. /\ ctl \notin Dismounting /\ ctl' \notin Dismounting
        /\ ctl' # "deleted"
        /\ ctl' \in Unopened => ~ extension
        /\ caller' = "cleanup" => caller = "cleanup"
        /\ ctl' = "idle" /\ ~ mounted' => unremoved'
    <3> USE DEF Dismounting, Unopened, CallerInv, CipherInv
    <3>1. CASE Registering
      BY <3>1 DEF Registering, RegisterQoS, RegisterIo, GetAddress, Dismount, MountFailed
    <3>2. CASE RemoveVirtualDisk
      BY <3>2 DEF RemoveVirtualDisk, UnregisterIoReturns
    <3>3. CASE Finalize
      BY <3>3 DEF Finalize
    <3> QED BY <3>1, <3>2, <3>3
  <2>2. UNCHANGED <<extension, engine, context, live>> /\ (unremoved => unremoved')
    BY <1>1 DEF cipherVars
  <2> QED BY <2>1, <2>2 DEF CipherInv, ContextOwned, Dismounting
<1>6. InnerInv'
  BY <1>1, InnerKept DEF Encrypts, cipherVars, packetVars
<1>7. PacketInv'
  <2>1. CASE Finalize
    <3>1. unremoved' \/ Pending = {}
      BY <2>1 DEF Finalize, UnmountedInv, PacketInv, historyVars
    <3> QED BY <1>1, <3>1, PacketsNone
  <2>2. CASE Registering \/ RemoveVirtualDisk
    <3>1. caller \in {"delete", "cleanup"} => caller' \in {"delete", "cleanup"}
      BY <2>2 DEF Registering, RegisterQoS, RegisterIo, GetAddress, Dismount, RemoveVirtualDisk,
         UnregisterIoReturns, CallerInv, Mounting
    <3>2. unremoved' \/ (registered /\ Pending # {} => registered')
      BY <2>2 DEF Registering, RegisterQoS, RegisterIo, GetAddress, Dismount, RemoveVirtualDisk
    <3>3. CASE unremoved'
      BY <1>1, <3>3, PacketsNone
    <3>4. CASE registered /\ Pending # {} => registered'
      BY <1>1, <3>1, <3>4, PacketsKept DEF cipherVars
    <3> QED BY <3>2, <3>3, <3>4
  <2> QED BY <2>1, <2>2
<1>8. FaultInv'
  BY <1>1 DEF FaultInv, MemorySafe
<1> QED BY <1>2, <1>3, <1>4, <1>5, <1>6, <1>7, <1>8

-----------------------------------------------------------------------------
(* Steps that change the cipher *)

LEMMA InvMount == ASSUME Inv, Mount PROVE Inv'
<1> USE DEF Inv, TypeInv, Running
<1>1. /\ UNCHANGED <<held, extension, registered, qos, routines, saveSize, mounted, pends,
                     unremoved, orphaned, store, packetVars>>
      /\ fault = "none" /\ fault' = "none"
      /\ ctl = "idle" /\ ctl' \in {"qos", "remove"} /\ caller' = "mount" /\ ~ mounted
      /\ UNCHANGED cipherVars \/ (extension /\ \E status : ExtMount(status))
  BY DEF Mount, historyVars, qosVars
<1>2. ~ unremoved => ~ registered /\ ~ qos /\ engine = Null /\ ContextOwned
  BY <1>1 DEF UnmountedInv, CipherInv, Settled, Dismounting
<1>3. CtlType' /\ HeldInv' /\ CallerInv'
  BY <1>1 DEF CtlType, HeldInv, CallerInv, Unopened, Mounting, Dismounting
<1>4. DiskType' /\ HistoryType' /\ PacketType'
  BY <1>1 DEF DiskType, HistoryType, PacketType, packetVars
<1>5. MountedInv' /\ UnmountedInv'
  BY <1>1, <1>2 DEF MountedInv, UnmountedInv, Unopened, Mounting, Dismounting, Settled
<1>6. /\ CipherType' /\ (engine # Null => engine' # Null)
      /\ ~ unremoved => ContextOwned'
      /\ ~ extension => engine' = Null
  <2>1. CASE UNCHANGED cipherVars
    BY <1>1, <1>2, <2>1 DEF cipherVars, CipherType, CipherInv, ContextOwned
  <2>2. CASE extension /\ \E status : ExtMount(status)
    <3>1. PICK status : ExtMount(status)
      BY <2>2
    <3>2. CipherType' /\ (engine # Null => engine' # Null)
      BY <1>1, <3>1, MountInv DEF CipherType
    <3>3. ~ unremoved => ContextOwned'
      BY <1>2, <3>1, MountInv
    <3> QED BY <2>2, <3>2, <3>3
  <2> QED BY <1>1, <2>1, <2>2
<1>7. CipherInv'
  BY <1>1, <1>6 DEF CipherInv, Unopened, Dismounting
<1>8. InnerInv' /\ PacketInv'
  <2>1. \A p \in Packets : Encrypts(op[p]) => Encrypts(op[p])'
    BY <1>1, <1>6 DEF Encrypts, packetVars
  <2>2. InnerInv'
    BY <1>1, <2>1, InnerKept DEF Pending
  <2>3. unremoved' \/ Pending = {}
    BY <1>1, <1>2 DEF PacketInv
  <2> QED BY <1>1, <2>2, <2>3, PacketsNone
<1>9. FaultInv'
  BY <1>1 DEF FaultInv, MemorySafe
<1> QED BY <1>3, <1>4, <1>5, <1>6, <1>7, <1>8, <1>9

\* The end of EVhd_UnregisterQoS, EVhd_Cleanup and the three steps of Ext_Dismount.
LEMMA InvDismount ==
    ASSUME Inv, UnregisterQoS \/ Cleanup \/ ForgetContext \/ ForgetEngine \/ CleanupMount
    PROVE  Inv'
<1> USE DEF Inv, TypeInv, Running
<1>1. /\ UNCHANGED <<held, registered, pends, store, packetVars>>
      /\ fault = "none" /\ fault' = "none"
      /\ unremoved => unremoved'
  BY DEF UnregisterQoS, Cleanup, ForgetContext, ForgetEngine, CleanupMount, historyVars
<1>2. CtlType' /\ HeldInv' /\ CallerInv'
  <2> USE DEF CtlType, HeldInv, CallerInv, Unopened, Mounting, Dismounting
  <2>1. CASE UnregisterQoS
    BY <1>1, <2>1 DEF UnregisterQoS, UnregisterIoReturns
  <2>2. CASE Cleanup \/ CleanupMount
    BY <1>1, <2>2 DEF Cleanup, CleanupMount
  <2>3. CASE ForgetContext
    BY <1>1, <2>3 DEF ForgetContext
  <2>4. CASE ForgetEngine
    BY <1>1, <2>4 DEF ForgetEngine, UnregisterIoReturns
  <2> QED BY <2>1, <2>2, <2>3, <2>4
<1>3. DiskType' /\ MountedInv' /\ UnmountedInv'
  <2> USE DEF DiskType, MountedInv, UnmountedInv, CallerInv, Unopened, Mounting, Dismounting,
              Settled
  <2>1. CASE UnregisterQoS
    <3>1. CASE /\ qos' = FALSE /\ routines' = FALSE /\ saveSize' = 0
               /\ ctl' = "destroyed" /\ UNCHANGED <<caller, mounted>>
      <4>1. DiskType'
        BY <1>1, <3>1
      <4>2. MountedInv'
        BY <1>1, <2>1, <3>1 DEF UnregisterQoS
      <4>3. UnmountedInv'
        BY <1>1, <2>1, <3>1 DEF UnregisterQoS
      <4> QED BY <4>1, <4>2, <4>3
    <3>2. CASE unremoved' = TRUE /\ UnregisterIoReturns /\ UNCHANGED qosVars
      <4>1. DiskType'
        BY <1>1, <3>2 DEF UnregisterIoReturns, qosVars
      <4>2. MountedInv'
        BY <1>1, <2>1, <3>2 DEF UnregisterQoS, UnregisterIoReturns, qosVars
      <4> QED BY <3>2, <4>1, <4>2
    <3> QED BY <2>1, <3>1, <3>2 DEF UnregisterQoS
  <2>2. CASE Cleanup
    BY <1>1, <2>2 DEF Cleanup, historyVars, qosVars
  <2>3. CASE CleanupMount
    BY <1>1, <2>3 DEF CleanupMount, Unmounts, historyVars, qosVars
  <2>4. CASE ForgetContext
    BY <1>1, <2>4 DEF ForgetContext, historyVars, qosVars
  <2>5. CASE ForgetEngine
    <3>1. UNCHANGED <<qos, routines, saveSize, unremoved>> /\ ctl = "forgotten"
      BY <2>5 DEF ForgetEngine, qosVars
    <3>2. CASE caller = "delete" /\ ctl' = "deleted" /\ UNCHANGED mounted
      BY <1>1, <3>1, <3>2
    <3>3. CASE caller # "delete" /\ UnregisterIoReturns
      BY <1>1, <3>1, <3>3 DEF UnregisterIoReturns
    <3> QED BY <2>5, <3>2, <3>3 DEF ForgetEngine
  <2> QED BY <2>1, <2>2, <2>3, <2>4, <2>5
<1>4. HistoryType' /\ PacketType'
  <2>1. HistoryType'
    BY <1>1 DEF HistoryType, Pending, UnregisterQoS, Cleanup, ForgetContext, ForgetEngine,
       CleanupMount, historyVars
  <2>2. PacketType'
    BY <1>1 DEF PacketType, packetVars
  <2> QED BY <2>1, <2>2
<1>5. CipherType' /\ CipherInv'
  <2> USE DEF Dismounting, Unopened
  <2>1. CASE UnregisterQoS \/ Cleanup
    <3>1. CASE ExtDestroy /\ ctl' = "destroyed"
      <4>1. /\ ctl \notin Dismounting /\ UNCHANGED extension
            /\ caller' = "cleanup" => caller = "cleanup"
        BY <2>1, <3>1 DEF UnregisterQoS, Cleanup, UnregisterIoReturns
      <4>2. (~ extension => engine' = Null) /\ (~ unremoved => Destroyed')
        BY <3>1, <4>1, DismountInv DEF CipherInv, ExtDestroy
      <4> QED BY <1>1, <3>1, <4>1, <4>2, DismountInv DEF CipherInv, CipherType
    <3>2. CASE ctl = "unregister" /\ unremoved' /\ UnregisterIoReturns /\ UNCHANGED cipherVars
      <4>1. UNCHANGED <<extension, engine, context, live>>
        BY <2>1, <3>2 DEF UnregisterQoS, Cleanup, cipherVars
      <4> QED BY <1>1, <3>2, <4>1 DEF CipherInv, CipherType, UnregisterIoReturns
    <3> QED BY <2>1, <3>1, <3>2 DEF UnregisterQoS, Cleanup
  <2>2. CASE ForgetContext
    <3>1. /\ ExtForgetContext /\ ctl = "destroyed" /\ ctl' = "forgotten"
          /\ UNCHANGED <<caller, extension, unremoved>>
      BY <2>2 DEF ForgetContext, historyVars
    <3>2. (~ extension => engine' = Null) /\ (~ unremoved => Forgotten')
      BY <3>1, DismountInv DEF CipherInv, ExtForgetContext
    <3> QED BY <1>1, <3>1, <3>2, DismountInv DEF CipherInv, CipherType
  <2>3. CASE ForgetEngine
    <3>1. /\ ExtForgetEngine /\ ctl = "forgotten" /\ ctl' \in {"deleted", "finalize", "idle"}
          /\ UNCHANGED <<extension, unremoved>>
          /\ caller' = "cleanup" => caller = "cleanup"
      BY <2>3 DEF ForgetEngine, UnregisterIoReturns
    <3>2. engine' = Null /\ (~ unremoved => ContextOwned')
      BY <3>1, DismountInv DEF CipherInv
    <3> QED BY <1>1, <3>1, <3>2, DismountInv DEF CipherInv, CipherType
  <2>4. CASE CleanupMount
    <3>1. /\ UNCHANGED <<engine, context, live, unremoved>> /\ ctl = "deleted"
          /\ ctl' \in {"remove", "finalize"} /\ extension' = FALSE
      BY <2>4 DEF CleanupMount, cipherVars, historyVars
    <3> QED BY <1>1, <3>1 DEF CipherInv, CipherType, ContextOwned
  <2> QED BY <2>1, <2>2, <2>3, <2>4
<1>6. InnerInv'
  <2>1. CASE UnregisterQoS \/ Cleanup \/ ForgetContext
    <3>1. UNCHANGED <<extension, engine, orphaned>>
      BY <2>1 DEF UnregisterQoS, Cleanup, ForgetContext, ExtDestroy, ExtForgetContext, historyVars,
         cipherVars
    <3> QED BY <1>1, <3>1, InnerKept DEF Encrypts, packetVars
  <2>2. CASE ForgetEngine
    <3>1. orphaned' = IF extension THEN orphaned \cup Pending ELSE orphaned
      BY <2>2 DEF ForgetEngine
    <3>2. \A p \in Pending : Encrypts(op[p]) => p \in orphaned'
      BY <3>1 DEF Encrypts
    <3> QED BY <1>1, <3>1, <3>2, InnerKept
  <2>3. CASE CleanupMount
    <3>1. engine = Null /\ UNCHANGED orphaned
      BY <2>3 DEF CleanupMount, CipherInv, historyVars
    <3> QED BY <1>1, <3>1, InnerKept DEF Encrypts
  <2> QED BY <2>1, <2>2, <2>3
<1>7. PacketInv'
  <2>1. CASE ctl \notin {"idle", "deleted"} /\ caller # "delete"
    <3>1. unremoved \/ Pending = {}
      BY <2>1 DEF UnregisterQoS, Cleanup, ForgetContext, ForgetEngine, CleanupMount, MountedInv,
         PacketInv, Dismounting
    <3> QED BY <1>1, <3>1, PacketsNone
  <2>2. CASE ctl \in {"idle", "deleted"} \/ caller = "delete"
    <3>1. caller' \in {"delete", "cleanup"} /\ UNCHANGED unremoved
      BY <2>2 DEF UnregisterQoS, Cleanup, ForgetContext, ForgetEngine, CleanupMount, CallerInv,
         historyVars
    <3>2. \A p \in Packets : FreesInner(op[p])' => FreesInner(op[p])
      BY <1>1, <2>2 DEF UnregisterQoS, Cleanup, ForgetContext, ForgetEngine, CleanupMount,
         CallerInv, FreesInner, ExtDestroy, ExtForgetContext, ExtForgetEngine, packetVars,
         cipherVars
    <3> QED BY <1>1, <3>1, <3>2 DEF PacketInv, Pending, packetVars
  <2> QED BY <2>1, <2>2
<1>8. FaultInv'
  BY <1>1 DEF FaultInv, MemorySafe
<1> QED BY <1>2, <1>3, <1>4, <1>5, <1>6, <1>7, <1>8

-----------------------------------------------------------------------------
(* Steps that leave the disk and its cipher alone *)

LEMMA InvDiskKept ==
    ASSUME Inv, UNCHANGED <<controlVars, unremoved, cipherVars>>, store' \in Algorithms \cup {Null},
           orphaned' \subseteq Packets, PacketType', InnerInv', PacketInv', FaultInv'
    PROVE  Inv'
<1> USE DEF Inv, TypeInv, controlVars, qosVars, cipherVars
<1>1. CtlType' /\ HeldInv' /\ CallerInv'
  BY DEF CtlType, HeldInv, CallerInv
<1>2. DiskType' /\ HistoryType'
  BY DEF DiskType, HistoryType
<1>3. CipherType'
  BY DEF CipherType
<1>4. MountedInv' /\ UnmountedInv'
  BY DEF MountedInv, UnmountedInv, Settled
<1>5. CipherInv'
  BY DEF CipherInv, ContextOwned, Destroyed, Forgotten
<1> QED BY <1>1, <1>2, <1>3, <1>4, <1>5

\* The size check of save and restore lets no sum through that has wrapped.
LEMMA FitsInBuffer ==
    ASSUME DiskType, NEW size \in Sizes, Fits(size)
    PROVE  ~ (StateSize + saveSize > size)
<1>1. /\ saveSize \in 0..(2^Width - 1) /\ StateSize \in 0..(2^Width - 1) /\ 2^Width \in Nat
      /\ size \in Nat
  BY ParserAssumption DEF DiskType
<1>2. ~ ((saveSize + StateSize) % 2^Width < saveSize) /\ (saveSize + StateSize) % 2^Width <= size
  BY <1>1 DEF Fits, FinalSaveSize
<1>3. (saveSize + StateSize) % 2^Width = saveSize + StateSize
  BY <1>1, <1>2, SumWithoutWrap
<1> QED BY <1>1, <1>2, <1>3

LEMMA InvFault ==
    ASSUME Inv, \/ SetCipherOpts \/ CallWithoutIrp \/ UNCHANGED vars
                \/ \E size \in Sizes : SaveOrRestoreData(size)
                \/ \E p \in Packets : ExecuteSrbNoMemory(p)
    PROVE  Inv'
<1> USE DEF Inv, TypeInv, Running
<1>1. /\ UNCHANGED <<controlVars, unremoved, orphaned, cipherVars, packetVars>>
      /\ store' \in Algorithms \cup {Null}
  BY DEF SetCipherOpts, CallWithoutIrp, vars, SaveOrRestoreData, ExecuteSrbNoMemory, CipherType,
         historyVars
<1>2. fault' \in {fault} \cup Unchecked \/ (pends /\ fault' = "null_call")
  <2>1. ASSUME NEW size \in Sizes, SaveOrRestoreData(size)
        PROVE  fault' = fault \/ (pends /\ fault' = "null_call")
    <3>1. routines \/ pends
      BY <2>1 DEF SaveOrRestoreData, MountedInv, Settled
    <3>2. ~ (StateSize + saveSize > size)
      BY <2>1, FitsInBuffer DEF SaveOrRestoreData
    <3> QED BY <2>1, <3>1, <3>2 DEF SaveOrRestoreData
  <2> QED BY <2>1 DEF SetCipherOpts, CallWithoutIrp, vars, ExecuteSrbNoMemory, NoMemory, Unchecked
<1>3. InnerInv'
  BY <1>1, InnerKept DEF Encrypts, packetVars, controlVars, cipherVars
<1>4. PacketType' /\ PacketInv'
  BY <1>1, PacketsKept DEF PacketType, packetVars, controlVars, cipherVars
<1>5. FaultInv'
  BY <1>1, <1>2 DEF FaultInv, MemorySafe, controlVars
<1> QED BY <1>1, <1>3, <1>4, <1>5, InvDiskKept DEF HistoryType

\* A step of one packet.
LEMMA OnePacket ==
    ASSUME Inv, NEW p \in Packets, UNCHANGED <<controlVars, unremoved, cipherVars>>,
           orphaned \ {p} \subseteq orphaned',
           \A q \in Packets \ {p} : UNCHANGED <<state[q], op[q], mdl[q], inner[q], result[q]>>,
           state'[p] = "decrypting" => op'[p] = "read",
           p \in Pending' /\ inner'[p] = "live" =>
              p \in orphaned' \/ (Encrypts(op'[p]) /\ mdl'[p] = "inner"),
           state'[p] = "done" /\ inner'[p] = "live" => p \in orphaned',
           ~ unremoved => /\ p \in Pending' => registered
                          /\ p \in Pending' /\ FreesInner(op'[p]) => mdl'[p] = "inner"
                          /\ state'[p] = "decrypting" =>
                                caller \in {"delete", "cleanup"} \/ (extension /\ engine # Null)
    PROVE  InnerInv' /\ PacketInv'
<1> USE DEF Inv, controlVars, cipherVars, Encrypts, FreesInner
<1>1. ASSUME NEW q \in Pending', inner'[q] = "live"
      PROVE  q \in orphaned' \/ (Encrypts(op[q])' /\ mdl'[q] = "inner")
  <2>1. CASE q = p
    BY <1>1, <2>1
  <2>2. CASE q # p
    BY <1>1, <2>2 DEF InnerInv, Pending
  <2> QED BY <2>1, <2>2
<1>2. InnerFreed'
  BY DEF InnerInv, InnerFreed
<1>3. ASSUME NEW q \in Packets, state'[q] = "decrypting" PROVE op'[q] = "read"
  BY <1>3 DEF InnerInv
<1>4. InnerInv'
  BY <1>1, <1>2, <1>3 DEF InnerInv
<1>5. ~ unremoved' /\ Pending' # {} => registered'
  BY DEF PacketInv, Pending
<1>6. ASSUME ~ unremoved', NEW q \in Pending', FreesInner(op[q])' PROVE mdl'[q] = "inner"
  <2>1. CASE q = p
    BY <1>6, <2>1
  <2>2. CASE q # p
    BY <1>6, <2>2 DEF PacketInv, Pending
  <2> QED BY <2>1, <2>2
<1>7. ASSUME ~ unremoved', NEW q \in Packets, state'[q] = "decrypting"
      PROVE  caller' \in {"delete", "cleanup"} \/ (extension' /\ engine' # Null)
  <2>1. CASE q = p
    BY <1>7, <2>1
  <2>2. CASE q # p
    BY <1>7, <2>2 DEF PacketInv
  <2> QED BY <2>1, <2>2
<1> QED BY <1>4, <1>5, <1>6, <1>7 DEF PacketInv

LEMMA InvExecute ==
    ASSUME Inv, NEW p \in Packets, NEW o \in Operations, ExecuteSrb(p, o)
    PROVE  Inv'
<1> USE DEF Inv, TypeInv, Running
<1>1. /\ UNCHANGED <<controlVars, unremoved, cipherVars, store>> /\ fault = "none"
      /\ ctl = "idle" /\ mounted /\ p \notin Pending /\ routines
      /\ StartPacket(routines, p, o) /\ orphaned' = orphaned \ {p}
  BY DEF ExecuteSrb
<1>2. routines \in BOOLEAN /\ UNCHANGED <<extension, engine>>
  BY <1>1 DEF DiskType, controlVars, cipherVars
<1>3. /\ PacketType' /\ PacketInOrder(p)' /\ fault' = "none"
      /\ state'[p] \in {"pending", "done"}
      /\ \A q \in Packets \ {p} : UNCHANGED <<state[q], op[q], mdl[q], inner[q], result[q]>>
  BY <1>1, <1>2, Started
<1>4. /\ p \in Pending' => (mdl'[p] = "inner" <=> Encrypts(op'[p]))
      /\ p \in Pending' => (mdl'[p] = "inner" <=> inner'[p] = "live")
      /\ state'[p] = "done" => inner'[p] # "live"
  BY <1>2, <1>3 DEF PacketInOrder, Encrypts, Pending
<1>5. InnerInv' /\ PacketInv'
  <2>1. registered
    BY <1>1 DEF MountedInv, Settled
  <2> QED BY <1>1, <1>2, <1>3, <1>4, <2>1, OnePacket DEF Encrypts, FreesInner
<1>6. FaultInv'
  BY <1>3 DEF FaultInv, MemorySafe
<1> QED BY <1>1, <1>3, <1>5, <1>6, InvDiskKept DEF HistoryType, CipherType

\* A packet that finds the parser or its extension gone.
LEMMA NotThere ==
    ASSUME Inv, Pending # {}, ~ unremoved
    PROVE  "instance" \in held /\ (ctl = "deleted" => caller = "delete")
BY DEF Inv, HeldInv, CallerInv, UnmountedInv, PacketInv, Unopened

LEMMA InvComplete ==
    ASSUME Inv, NEW p \in Packets, NEW status \in {"ok", "failed"}, SrbCompleteRequest(p, status)
    PROVE  Inv'
<1> USE DEF Inv, TypeInv, Running
<1>1. /\ UNCHANGED <<controlVars, unremoved, orphaned, cipherVars, store>> /\ fault = "none"
      /\ state[p] = "pending" /\ UNCHANGED <<extension, engine, caller>> /\ p \in Pending
  BY DEF SrbCompleteRequest, controlVars, cipherVars, historyVars, Pending
<1>2. ASSUME Complete(p, status, ctl = "deleted") PROVE Inv'
  <2> DEFINE deleted == ctl = "deleted"
  <2>1. deleted \in BOOLEAN /\ Complete(p, status, deleted)
    BY <1>2
  <2> HIDE DEF deleted
  <2>2. /\ PacketType'
        /\ \A q \in Packets \ {p} :
              UNCHANGED <<state[q], op[q], mdl[q], inner[q], result[q]>>
        /\ \/ extension /\ deleted /\ fault' = "freed_extension" /\ UNCHANGED packetVars
           \/ /\ state'[p] = "decrypting" /\ op[p] = "read" /\ extension /\ engine # Null
              /\ UNCHANGED <<op[p], mdl[p], inner[p], result[p], fault>>
           \/ /\ state'[p] = "done"
              /\ \/ ~ FreesInner(op[p]) /\ inner'[p] = inner[p] /\ fault' = fault
                 \/ inner'[p] = "hollow" /\ fault' = fault
                 \/ /\ FreesInner(op[p]) /\ mdl[p] = "own" /\ fault' = "freed_source"
                    /\ UNCHANGED inner
    BY <1>1, <2>1, Completion
  <2>3. CASE extension /\ deleted /\ fault' = "freed_extension" /\ UNCHANGED packetVars
    <3>1. unremoved \/ caller = "delete"
      BY <1>1, <2>3, NotThere DEF deleted
    <3>2. FaultInv'
      BY <1>1, <2>3, <3>1 DEF FaultInv, MemorySafe
    <3>3. InnerInv' /\ PacketInv'
      BY <1>1, <2>3, InnerKept, PacketsKept DEF Encrypts, packetVars, controlVars
    <3> QED BY <1>1, <2>2, <3>2, <3>3, InvDiskKept DEF HistoryType, CipherType
  <2>4. CASE /\ state'[p] = "decrypting" /\ op[p] = "read" /\ extension /\ engine # Null
             /\ UNCHANGED <<op[p], mdl[p], inner[p], result[p], fault>>
    <3>1. InnerInv' /\ PacketInv'
      BY <1>1, <2>2, <2>4, OnePacket DEF InnerInv, PacketInv, Encrypts, FreesInner
    <3>2. FaultInv'
      BY <1>1, <2>4 DEF FaultInv, MemorySafe
    <3> QED BY <1>1, <2>2, <3>1, <3>2, InvDiskKept DEF HistoryType, CipherType
  <2>5. CASE state'[p] = "done" /\ fault' \in {fault, "freed_source"} /\ ~ UNCHANGED packetVars
    <3>1. inner'[p] = "live" => p \in orphaned
      BY <1>1, <2>2, <2>5 DEF InnerInv, Encrypts, FreesInner
    <3>2. InnerInv' /\ PacketInv'
      BY <1>1, <2>2, <2>5, <3>1, OnePacket DEF Pending
    <3>3. fault' = "freed_source" => unremoved
      BY <1>1, <2>2, <2>5 DEF PacketInv
    <3>4. FaultInv'
      BY <1>1, <2>5, <3>3 DEF FaultInv, MemorySafe
    <3> QED BY <1>1, <2>2, <3>2, <3>4, InvDiskKept DEF HistoryType, CipherType
  <2> QED BY <1>1, <2>2, <2>3, <2>4, <2>5 DEF packetVars
<1>3. CASE "instance" \notin held /\ fault' = "freed_parser" /\ UNCHANGED packetVars
  <2>1. FaultInv'
    BY <1>1, <1>3, NotThere DEF FaultInv, MemorySafe
  <2>2. PacketType' /\ InnerInv' /\ PacketInv'
    BY <1>1, <1>3, InnerKept, PacketsKept DEF PacketType, Encrypts, packetVars, controlVars
  <2> QED BY <1>1, <2>1, <2>2, InvDiskKept DEF HistoryType, CipherType
<1> QED BY <1>2, <1>3 DEF SrbCompleteRequest

LEMMA InvCrypt == ASSUME Inv, NEW p \in Packets, CryptBlocks(p) PROVE Inv'
<1> USE DEF Inv, TypeInv, Running
<1>1. /\ UNCHANGED <<controlVars, unremoved, orphaned, cipherVars, store>> /\ fault = "none"
      /\ state[p] = "decrypting" /\ UNCHANGED <<extension, engine, caller>> /\ p \in Pending
  BY DEF CryptBlocks, controlVars, cipherVars, historyVars, Pending
<1> DEFINE deleted == ctl = "deleted"
<1>2. deleted \in BOOLEAN /\ Decrypt(p, deleted)
  BY DEF CryptBlocks
<1> HIDE DEF deleted
<1>3. /\ PacketType'
      /\ \A q \in Packets \ {p} : UNCHANGED <<state[q], op[q], mdl[q], inner[q], result[q]>>
      /\ \/ /\ ~ extension \/ deleted
            /\ fault' = "freed_extension" /\ UNCHANGED packetVars
         \/ /\ engine = Null \/ context \notin live
            /\ fault' = "lost_cipher" /\ UNCHANGED packetVars
         \/ state'[p] = "done" /\ UNCHANGED <<op[p], mdl[p], inner[p], fault>>
  BY <1>1, <1>2, Decryption
<1>4. \/ unremoved \/ caller \in {"delete", "cleanup"}
      \/ extension /\ ~ deleted /\ engine # Null /\ context \in live
  <2>1. ASSUME ~ unremoved, caller \notin {"delete", "cleanup"}
        PROVE  extension /\ ~ deleted /\ engine # Null /\ context \in live
    <3>1. ctl \notin Dismounting /\ ~ deleted
      BY <1>1, <2>1, NotThere DEF PacketInv, MountedInv, deleted
    <3>2. extension /\ engine # Null /\ ContextOwned
      BY <1>1, <2>1, <3>1 DEF PacketInv, CipherInv
    <3> QED BY <3>1, <3>2 DEF ContextOwned
  <2> QED BY <2>1
<1>5. CASE fault' # fault
  <2>1. /\ unremoved \/ caller \in {"delete", "cleanup"}
        /\ UNCHANGED packetVars /\ fault' \in {"freed_extension", "lost_cipher"}
    BY <1>3, <1>4, <1>5
  <2>2. FaultInv'
    BY <1>1, <2>1 DEF FaultInv, MemorySafe
  <2>3. InnerInv' /\ PacketInv'
    BY <1>1, <2>1, InnerKept, PacketsKept DEF Encrypts, packetVars, controlVars
  <2> QED BY <1>1, <1>3, <2>2, <2>3, InvDiskKept DEF HistoryType, CipherType
<1>6. CASE fault' = fault
  <2>1. state'[p] = "done" /\ UNCHANGED <<op[p], mdl[p], inner[p]>>
    BY <1>1, <1>3, <1>6
  <2>2. inner[p] = "live" => p \in orphaned
    BY <1>1 DEF InnerInv, Encrypts
  <2>3. InnerInv' /\ PacketInv'
    BY <1>1, <1>3, <2>1, <2>2, OnePacket DEF Pending
  <2>4. FaultInv'
    BY <1>1, <1>6 DEF FaultInv, MemorySafe
  <2> QED BY <1>1, <1>3, <2>3, <2>4, InvDiskKept DEF HistoryType, CipherType
<1> QED BY <1>5, <1>6

-----------------------------------------------------------------------------
LEMMA InvNext == Inv /\ [Next]_vars => Inv'
<1> SUFFICES ASSUME Inv, [Next]_vars PROVE Inv'
  OBVIOUS
<1>1. CASE Control
  <2>1. CASE OpenDevice \/ AllocateParser \/ Initialize \/ InitializeExtension
    BY <2>1, InvOpen
  <2>2. CASE RegisterQoS \/ RegisterIo \/ GetAddress \/ Dismount \/ RemoveVirtualDisk \/ Finalize
    BY <2>2, InvRegister DEF Registering
  <2>3. CASE Mount
    BY <2>3, InvMount
  <2>4. CASE UnregisterQoS \/ Cleanup \/ ForgetContext \/ ForgetEngine \/ CleanupMount
    BY <2>4, InvDismount
  <2>5. CASE CallWithoutIrp \/ \E size \in Sizes : SaveOrRestoreData(size)
    BY <2>5, InvFault
  <2> QED BY <1>1, <2>1, <2>2, <2>3, <2>4, <2>5 DEF Control
<1>2. ASSUME NEW p \in Packets, Packet(p) PROVE Inv'
  BY <1>2, InvExecute, InvComplete, InvCrypt, InvFault DEF Packet
<1>3. CASE SetCipherOpts \/ UNCHANGED vars
  BY <1>3, InvFault
<1> QED BY <1>1, <1>2, <1>3 DEF Next, Faulted

LEMMA InvAlways == Spec => []Inv
<1>1. Init => Inv
  BY InvInit
<1>2. Inv /\ [Next]_vars => Inv'
  BY InvNext
<1> QED BY <1>1, <1>2, PTL DEF Spec

-----------------------------------------------------------------------------
(* Theorems *)

\* Every variable of the parser, of its extension and of its packets keeps its type; the
\* routines of vhdmp and the size of a saved state are known only with the registration
\* that goes with them.
THEOREM TypeCorrect == Spec => []TypeOK
<1>1. Inv => TypeOK
  <2> SUFFICES ASSUME Inv PROVE TypeOK
    OBVIOUS
  <2>1. ExtTypeOK
    BY ExtTypes DEF Inv, TypeInv
  <2> QED BY <2>1 DEF Inv, TypeInv, CtlType, DiskType, HistoryType, FaultInv, Unchecked, TypeOK
<1> QED BY <1>1, InvAlways, PTL

\* As long as vhdmp lets a disk go when it is asked to, mounts, dismounts, cleanups,
\* packets and completions in any order run into nothing but the allocations that are not
\* checked, the second close in EVhd_Init, a read or a completion in the middle of
\* EVhd_Cleanup, and the routines that an IOCTL which pends and then fails leaves unset.
THEOREM MemoryIsSafe == Spec => []MemorySafe
<1>1. Inv => MemorySafe
  BY DEF Inv, FaultInv
<1> QED BY <1>1, InvAlways, PTL

\* Also when vhdmp refuses to let a disk go and it is mounted again with another cipher,
\* a write comes back with the pages of its inner MDL freed, unless it was at vhdmp while
\* EVhd_Cleanup, or a dismount that took the refusal for a success, forgot the cipher.
THEOREM InnerIsFreed == Spec => []InnerFreed
<1>1. Inv => InnerFreed
  BY DEF Inv, InnerInv
<1> QED BY <1>1, InvAlways, PTL

\* Between control calls a disk has both registrations if it is mounted and neither if
\* it is not; EVhd_Cleanup and a failed EVhd_Init leave nothing but a stray object.
THEOREM CleanupIsComplete == Spec => []CleanupReleases
<1>1. Inv => CleanupReleases
  <2> SUFFICES ASSUME Inv PROVE CleanupReleases
    OBVIOUS
  <2> USE DEF Inv
  <2>1. ctl = "idle" => /\ mounted => registered /\ qos /\ (routines \/ pends)
                        /\ ~ mounted => ~ (registered \/ qos) \/ unremoved
    BY DEF MountedInv, UnmountedInv, Settled
  <2>2. ctl = "closed" => engine = Null /\ (unremoved \/ live = {})
    BY NoEngine DEF CipherInv, Unopened, Dismounting
  <2>3. ctl = "closed" => held \subseteq {"stray"} /\ (unremoved \/ ~ (registered \/ qos))
    BY DEF HeldInv, UnmountedInv, Unopened
  <2> QED BY <2>1, <2>2, <2>3 DEF CleanupReleases
<1> QED BY <1>1, InvAlways, PTL
=============================================================================
