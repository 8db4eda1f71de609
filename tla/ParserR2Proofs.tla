--------------------------- MODULE ParserR2Proofs ---------------------------
(***************************************************************************)
(* ParserR2 proved for any packets, pool memory, ciphers, environments,    *)
(* and sizes.                                                              *)
(***************************************************************************)
EXTENDS ParserR2, ExtensionProofs

-----------------------------------------------------------------------------
(* The inductive invariant *)

CtlType ==
    /\ env \in Environments
    /\ ctl \in Opening \cup {"closed", "idle", "register", "address", "remove", "unregister",
                            "destroyed", "forgotten", "finalize", "deleted", "ask", "names"}
    /\ caller \in {"none", "mount", "dismount", "close", "delete"}
    /\ held \subseteq {"handle", "object", "instance", "irp", "qos", "names"}

DiskType ==
    /\ registered \in BOOLEAN /\ io \in BOOLEAN /\ mounted \in BOOLEAN
    /\ saveSize \in Sizes \cup {0}

\* Between control calls, and before the disk is open or after it is closed.
Between == {"idle", "ask", "names"}
Unopened == Opening \cup {"closed"}

\* EVhd_UnregisterIo up to Ext_Dismount, and Ext_Dismount.
Removing == {"remove", "unregister"}
Dismounting == {"destroyed", "forgotten"}

\* What the instance holds: it is there for the packets that vhdmp completes.
HeldInv ==
    /\ ctl \notin {"closed", "instance", "failed"} => "instance" \in held
    /\ ctl = "closed" => held \subseteq {"names"}
    /\ caller \in {"close", "delete"} => "qos" \notin held
    /\ ctl = "finalize" => caller = "close"
    /\ ctl = "deleted" => caller = "delete"
    /\ ctl \in Unopened => caller = "none"
    /\ ctl \in {"register", "address"} => caller = "mount"
    /\ ctl \in Removing => caller \notin {"none", "delete"}
    /\ ctl \in Dismounting => caller # "none"

\* bIoRegistered, the routines that come with it, and bMounted.
RegisteredInv ==
    /\ io => registered
    /\ registered => io \/ env.pends
    /\ registered /\ ctl \notin {"address"} \cup Removing => mounted
    /\ ctl = "address" => registered
    /\ ctl \in Unopened \cup Dismounting \cup {"finalize", "deleted"} => ~ registered
    /\ ctl \in Unopened => ~ mounted

\* Unless a mounted disk is mounted again, it is not mounted until that is through.
MountedInv ==
    ~ env.remounts => /\ ctl \in Between /\ mounted => registered
                      /\ ctl \in {"register", "address"} => ~ mounted
                      /\ ctl \in Removing \cup Dismounting /\ caller = "mount" => ~ mounted

\* The cipher is there from a mount to its end, and goes in three steps.
CipherInv ==
    /\ ctl \notin Dismounting => ContextAlive /\ (env.remounts \/ ContextOwned)
    /\ ~ env.remounts => /\ ctl = "destroyed" => Destroyed
                         /\ ctl = "forgotten" => Forgotten
    /\ ~ extension \/ ctl \in Unopened \cup {"deleted"} => engine = Null
    /\ ~ env.remounts /\ ctl \in Between /\ ~ mounted => engine = Null

\* If a removal waits for them, vhdmp has packets of a registered disk only; then a read
\* that is decrypted has its cipher, and MDLs are in order, if the cipher does not change
\* under them.
PacketInv ==
    env.drains =>
       /\ Pending # {} => registered /\ ctl \in Between \cup {"register", "remove"}
       /\ \A p \in Packets : state[p] = "decrypting" => extension /\ engine # Null
       /\ ~ env.remounts => \A p \in Packets : PacketInOrder(p)

TypeInv == CtlType /\ DiskType /\ CipherType /\ PacketType

Inv ==
    /\ TypeInv /\ HeldInv /\ RegisteredInv /\ MountedInv /\ CipherInv /\ PacketInv
    /\ MemorySafe

-----------------------------------------------------------------------------
LEMMA InvInit == Init => Inv
<1> SUFFICES ASSUME Init PROVE Inv
  OBVIOUS
<1> USE DEF Init, ExtInit
<1>1. CtlType
  BY DEF CtlType
<1>2. DiskType
  BY DEF DiskType
<1>3. CipherType /\ PacketType
  BY DEF CipherType, PacketType, Operations
<1>4. Pending = {} /\ \A p \in Packets : PacketInOrder(p)
  BY DEF Pending, PacketInOrder
<1>5. HeldInv /\ RegisteredInv /\ MountedInv
  BY DEF HeldInv, RegisteredInv, MountedInv, Unopened, Opening, Between, Removing, Dismounting
<1>6. CipherInv
  BY DEF CipherInv, ContextAlive, ContextOwned, Dismounting
<1>7. PacketInv /\ MemorySafe
  BY <1>4 DEF PacketInv, MemorySafe
<1> QED BY <1>1, <1>2, <1>3, <1>5, <1>6, <1>7 DEF Inv, TypeInv

-----------------------------------------------------------------------------
(* Steps that leave ciphers and packets alone *)

LEMMA Untouched ==
    ASSUME Inv, UNCHANGED <<env, cipherVars, store, packetVars>>, extension' \in BOOLEAN,
           fault' \in {"none"} \cup Unchecked,
           UNCHANGED extension \/ (ctl = "extension" /\ fault = "none"),
           CtlType', DiskType', HeldInv', RegisteredInv', MountedInv',
           ctl \notin Dismounting, ctl' \notin Dismounting \cup {"deleted"},
           ctl' \in Unopened => ctl \in Unopened,
           ctl' \in Between /\ ~ mounted' => ctl \in Unopened \/ (ctl \in Between /\ ~ mounted),
           registered => registered',
           ctl \in Between \cup {"register", "remove"} =>
              \/ ctl' \in Between \cup {"register", "remove"} \/ ~ registered
              \/ env.drains => Pending = {}
    PROVE  Inv'
<1> USE DEF Inv, TypeInv, cipherVars
<1>1. CipherType' /\ PacketType'
  BY DEF CipherType, PacketType, packetVars
<1>2. CipherInv'
  <2>1. /\ ContextAlive' /\ (env.remounts \/ ContextOwned)'
        /\ engine' = engine /\ env' = env
    BY DEF CipherInv, ContextAlive, ContextOwned
  <2>2. ctl \in Unopened => engine = Null
    BY DEF CipherInv
  <2>3. ~ extension' => engine = Null
    BY <2>2 DEF CipherInv, Unopened, Opening
  <2>4. ~ env.remounts /\ ctl \in Between /\ ~ mounted => engine = Null
    BY DEF CipherInv
  <2> QED BY <2>1, <2>2, <2>3, <2>4 DEF CipherInv, Dismounting
<1>3. PacketInv'
  <2>1. Pending' = Pending /\ env' = env /\ UNCHANGED state
    BY DEF Pending, packetVars
  <2>2. env.drains /\ Pending # {} => UNCHANGED extension /\ ctl # "extension"
    BY DEF PacketInv, Between
  <2>3. Pending = {} \/ UNCHANGED <<extension, engine>> \/ ~ env.drains
    BY <2>2
  <2>4. env.drains /\ ~ env.remounts => \A p \in Packets : PacketInOrder(p)'
    BY <2>3, InOrderKept DEF PacketInv
  <2>5. env.drains => \A p \in Packets : state[p] = "decrypting" => extension' /\ engine' # Null
    BY <2>3 DEF PacketInv, Pending
  <2> QED BY <2>1, <2>4, <2>5 DEF PacketInv
<1>4. MemorySafe'
  BY DEF MemorySafe
<1> QED BY <1>1, <1>2, <1>3, <1>4

LEMMA InvOpen ==
    ASSUME Inv, OpenDisk \/ OpenDiskStep \/ InitializeExtension
    PROVE  Inv'
<1> USE DEF Inv, TypeInv, Running
<1>1. /\ UNCHANGED <<env, caller, registered, io, mounted, saveSize, cipherVars, store,
                     packetVars>>
      /\ fault = "none" /\ fault' = "none"
      /\ ctl \in Unopened /\ ctl' \in (Unopened \ {"closed"}) \cup {"idle"}
      /\ caller = "none" /\ ~ registered /\ ~ mounted
  BY DEF OpenDisk, OpenDiskStep, Acquires, InitializeExtension, Unopened, Opening, HeldInv,
         RegisteredInv
<1>2. /\ held' \subseteq {"handle", "object", "instance", "irp", "qos", "names"}
      /\ ctl' \notin {"instance", "failed"} => "instance" \in held'
  <2>1. CASE OpenDisk
    BY <2>1 DEF OpenDisk
  <2>2. CASE OpenDiskStep
    BY <2>2 DEF OpenDiskStep, Acquires, CtlType, HeldInv
  <2>3. CASE InitializeExtension
    BY <2>3 DEF InitializeExtension, CtlType, HeldInv
  <2> QED BY <2>1, <2>2, <2>3
<1>3. /\ extension' \in BOOLEAN
      /\ UNCHANGED extension \/ ctl = "extension"
  BY DEF OpenDisk, OpenDiskStep, InitializeExtension, CipherType
<1>4. CtlType' /\ HeldInv'
  BY <1>1, <1>2 DEF CtlType, HeldInv, Unopened, Opening, Removing, Dismounting
<1>5. DiskType'
  BY <1>1 DEF DiskType
<1>6. RegisteredInv' /\ MountedInv'
  BY <1>1 DEF RegisteredInv, MountedInv, Unopened, Opening, Between, Removing, Dismounting
<1> QED BY <1>1, <1>3, <1>4, <1>5, <1>6, Untouched
    DEF Unopened, Opening, Between, Removing, Dismounting, Unchecked

LEMMA InvClose == ASSUME Inv, OpenDiskFailed \/ CloseDisk PROVE Inv'
<1> USE DEF Inv, TypeInv, Running
<1>1. /\ UNCHANGED <<env, extension, registered, io, mounted, saveSize, cipherVars, store,
                     packetVars>>
      /\ fault = "none" /\ fault' \in {"none", "null_parser"}
      /\ ctl \in {"failed", "idle"} /\ (ctl = "failed" => ~ mounted)
      /\ held' \subseteq held
      /\ \/ /\ "instance" \in held' /\ "qos" \notin held' /\ caller' = "close"
            /\ ctl' = IF mounted THEN "remove" ELSE "finalize"
         \/ UNCHANGED <<ctl, caller>> /\ ctl = "failed"
  BY DEF OpenDiskFailed, CloseDisk, Close, HeldInv, RegisteredInv, Unopened, Opening
<1>2. CtlType' /\ HeldInv'
  BY <1>1 DEF CtlType, HeldInv, Unopened, Opening, Removing, Dismounting
<1>3. DiskType'
  BY <1>1 DEF DiskType
<1>4. RegisteredInv'
  BY <1>1 DEF RegisteredInv, Unopened, Opening, Removing, Dismounting
<1>5. MountedInv'
  BY <1>1 DEF MountedInv, Between, Removing, Dismounting
<1> QED BY <1>1, <1>2, <1>3, <1>4, <1>5, Untouched
        DEF Unopened, Opening, Between, Removing, Dismounting, Unchecked, CipherType, RegisteredInv

\* IOCTL_STORAGE_REGISTER_IO brings the routines, unless it could pend.
LEMMA RegisterIoDoes ==
    ASSUME RegisterIo
    PROVE  /\ ctl = "register" /\ ~ registered /\ UNCHANGED <<env, caller, mounted>>
           /\ \/ ctl' = "address" /\ registered' = TRUE /\ io' = TRUE
              \/ ctl' = "address" /\ registered' = TRUE /\ io' = FALSE /\ env.pends
              \/ ctl' = "remove" /\ UNCHANGED <<registered, io>>
<1>1. PICK reply \in Replies :
         \/ ctl' = "address" /\ registered' = TRUE /\ io' = reply[2] /\ reply[1] = "ok"
         \/ ctl' = "remove" /\ UNCHANGED <<registered, io>>
  BY DEF RegisterIo
<1>2. reply[1] = "ok" => reply[2] = TRUE \/ (reply[2] = FALSE /\ env.pends)
  <2>1. reply \in {<<"ok", TRUE>>, <<"failed", FALSE>>} \/ (reply = <<"ok", FALSE>> /\ env.pends)
    BY DEF Replies
  <2>2. CASE reply = <<"ok", TRUE>>
    BY <2>2
  <2>3. CASE reply = <<"failed", FALSE>>
    BY <2>3
  <2>4. CASE reply = <<"ok", FALSE>> /\ env.pends
    BY <2>4
  <2> QED BY <2>1, <2>2, <2>3, <2>4
<1>3. ctl = "register" /\ ~ registered /\ UNCHANGED <<env, caller, mounted>>
  BY DEF RegisterIo
<1> QED BY <1>1, <1>2, <1>3

LEMMA InvRegister ==
    ASSUME Inv, RegisterIo \/ GetAddress \/ AlreadyRegistered \/ DismountDisk
    PROVE  Inv'
<1> USE DEF Inv, TypeInv, Running
<1>1. /\ UNCHANGED <<env, held, extension, cipherVars, store, packetVars>>
      /\ fault = "none" /\ fault' = "none"
      /\ ctl \in {"register", "address", "idle"}
      /\ ctl' \in {"address", "remove", "idle"}
      /\ \/ ctl' = "idle" /\ caller' = "none"
         \/ ctl' = "remove" /\ caller' = "dismount"
         \/ ctl # "idle" /\ ctl' \in {"address", "remove"} /\ caller' = caller
  <2>1. CASE RegisterIo
    BY <2>1 DEF RegisterIo
  <2>2. CASE GetAddress
    BY <2>2 DEF GetAddress, MountFailed
  <2>3. CASE AlreadyRegistered
    BY <2>3 DEF AlreadyRegistered
  <2>4. CASE DismountDisk
    BY <2>4 DEF DismountDisk
  <2> QED BY <2>1, <2>2, <2>3, <2>4
<1>2. CtlType' /\ HeldInv'
  BY <1>1 DEF CtlType, HeldInv, Unopened, Opening, Removing, Dismounting
<1>3. DiskType' /\ (registered => registered')
  <2>1. saveSize' \in Sizes \cup {0}
    BY DEF RegisterIo, GetAddress, AlreadyRegistered, DismountDisk, DiskType
  <2>2. registered' \in BOOLEAN /\ io' \in BOOLEAN /\ mounted' \in BOOLEAN
    <3>1. CASE RegisterIo
      BY <3>1, RegisterIoDoes DEF DiskType
    <3>2. CASE GetAddress \/ AlreadyRegistered \/ DismountDisk
      BY <3>2 DEF GetAddress, AlreadyRegistered, DismountDisk, DiskType
    <3> QED BY <3>1, <3>2
  <2>3. registered => registered'
    BY DEF RegisterIo, GetAddress, AlreadyRegistered, DismountDisk
  <2> QED BY <2>1, <2>2, <2>3 DEF DiskType
<1>4. RegisteredInv' /\ MountedInv'
  <2> USE DEF RegisteredInv, MountedInv, Unopened, Opening, Between, Removing, Dismounting
  <2>1. CASE RegisterIo
    <3>1. \/ ctl' = "address" /\ registered' = TRUE /\ io' = TRUE
          \/ ctl' = "address" /\ registered' = TRUE /\ io' = FALSE /\ env.pends
          \/ ctl' = "remove" /\ UNCHANGED <<registered, io>>
      BY <2>1, RegisterIoDoes
    <3>2. ctl = "register" /\ ~ registered /\ UNCHANGED <<env, caller, mounted>>
      BY <2>1, RegisterIoDoes
    <3>3. RegisteredInv'
      BY <1>1, <3>1, <3>2
    <3>4. MountedInv'
      BY <1>1, <3>1, <3>2
    <3> QED BY <3>3, <3>4
  <2>2. CASE GetAddress
    BY <1>1, <2>2 DEF GetAddress, MountFailed
  <2>3. CASE AlreadyRegistered
    BY <1>1, <2>3 DEF AlreadyRegistered
  <2>4. CASE DismountDisk
    BY <1>1, <2>4 DEF DismountDisk
  <2> QED BY <2>1, <2>2, <2>3, <2>4
<1>5. ctl' = "idle" => mounted'
  BY DEF RegisterIo, GetAddress, AlreadyRegistered, DismountDisk, MountFailed
<1>6. ctl' = "address" => ~ registered
  BY DEF RegisterIo, GetAddress, AlreadyRegistered, DismountDisk, MountFailed
<1> QED BY <1>1, <1>2, <1>3, <1>4, <1>5, <1>6, Untouched
    DEF Unopened, Opening, Between, Removing, Dismounting, Unchecked, CipherType

LEMMA InvRemove == ASSUME Inv, RemoveVirtualDisk \/ Ask \/ Answered PROVE Inv'
<1> USE DEF Inv, TypeInv, Running
<1>1. /\ UNCHANGED <<env, caller, extension, registered, io, mounted, saveSize, cipherVars,
                     store, packetVars>>
      /\ fault = "none" /\ fault' \in {"none", "overrun_names"}
      /\ \/ ctl \in Between /\ ctl' \in Between
         \/ ctl = "remove" /\ ctl' = "unregister" /\ (registered /\ env.drains => Pending = {})
      /\ held' \subseteq held \cup {"names"} /\ held \ {"names"} \subseteq held'
  BY DEF RemoveVirtualDisk, Removed, Ask, Answered, Between
<1>2. CtlType' /\ HeldInv'
  BY <1>1 DEF CtlType, HeldInv, Unopened, Opening, Removing, Dismounting, Between
<1>3. DiskType'
  BY <1>1 DEF DiskType
<1>4. RegisteredInv'
  BY <1>1 DEF RegisteredInv, Unopened, Opening, Between, Removing, Dismounting
<1>5. MountedInv'
  BY <1>1 DEF MountedInv, Between, Removing, Dismounting
<1> QED BY <1>1, <1>2, <1>3, <1>4, <1>5, Untouched
    DEF Unopened, Opening, Between, Removing, Dismounting, Unchecked, CipherType

-----------------------------------------------------------------------------
(* Steps that change the cipher *)

\* A disk that is not mounted has no packets at vhdmp, and no cipher.
LEMMA NotMounted ==
    ASSUME Inv, ctl \in Between, ~ mounted
    PROVE  /\ ~ registered
           /\ env.drains => Pending = {}
           /\ ~ env.remounts => engine = Null
<1>1. ~ registered
  BY DEF Inv, RegisteredInv, MountedInv, Between, Unopened, Opening, Removing, Dismounting
<1> QED BY <1>1 DEF Inv, PacketInv, CipherInv, Between, Dismounting

LEMMA InvMountDisk == ASSUME Inv, MountDisk PROVE Inv'
<1> USE DEF Inv, TypeInv, Running
<1>1. /\ UNCHANGED <<env, held, extension, registered, io, mounted, saveSize, store, packetVars>>
      /\ fault = "none" /\ fault' = "none"
      /\ ctl = "idle" /\ ctl' \in {"register", "remove"} /\ caller' = "mount"
      /\ mounted => env.remounts
      /\ UNCHANGED cipherVars \/ (extension /\ \E status : ExtMount(status))
  BY DEF MountDisk
<1>2. CtlType' /\ HeldInv'
  BY <1>1 DEF CtlType, HeldInv, Unopened, Opening, Removing, Dismounting
<1>3. DiskType'
  BY <1>1 DEF DiskType
<1>4. RegisteredInv' /\ MountedInv'
  BY <1>1 DEF RegisteredInv, MountedInv, Unopened, Opening, Between, Removing, Dismounting
<1>5. env.remounts \/ (~ mounted /\ engine = Null)
  BY <1>1, NotMounted DEF Between
<1>6. /\ CipherType' /\ ContextAlive' /\ (env.remounts \/ ContextOwned')
      /\ (~ extension' => engine' = Null) /\ (engine # Null => engine' # Null)
  <2>1. ContextAlive /\ (env.remounts \/ ContextOwned)
    BY <1>1 DEF CipherInv, Dismounting
  <2>2. CASE UNCHANGED cipherVars
    BY <1>1, <2>1, <2>2 DEF cipherVars, CipherType, CipherInv, ContextAlive, ContextOwned
  <2>3. CASE extension /\ \E status : ExtMount(status)
    <3>1. PICK status : ExtMount(status)
      BY <2>3
    <3>2. CipherType' /\ ContextAlive' /\ (engine # Null => engine' # Null)
      BY <1>1, <2>1, <3>1, MountInv DEF CipherType
    <3>3. env.remounts \/ ContextOwned'
      BY <1>5, <2>1, <3>1, MountInv
    <3> QED BY <1>1, <2>3, <3>2, <3>3
  <2> QED BY <1>1, <2>2, <2>3
<1>7. CipherInv'
  BY <1>1, <1>6 DEF CipherInv, Unopened, Opening, Between, Dismounting
<1>8. PacketType' /\ PacketInv'
  <2>1. PacketType' /\ Pending' = Pending /\ UNCHANGED state
    BY <1>1 DEF PacketType, Pending, packetVars
  <2>2. env.drains /\ ~ env.remounts => Pending = {}
    BY <1>1, NotMounted DEF Between
  <2>3. env.drains /\ ~ env.remounts => \A p \in Packets : PacketInOrder(p)'
    BY <1>1, <2>2, InOrderKept DEF PacketInv
  <2>4. env.drains => /\ Pending # {} => registered
                      /\ \A p \in Packets : state[p] = "decrypting" => extension /\ engine # Null
    BY DEF PacketInv
  <2> QED BY <1>1, <1>6, <2>1, <2>3, <2>4 DEF PacketInv
<1>9. MemorySafe'
  BY <1>1 DEF MemorySafe
<1> QED BY <1>2, <1>3, <1>4, <1>6, <1>7, <1>8, <1>9

\* The steps from EVhd_UnregisterIo's removal to the end of Ext_Dismount and Ext_Delete.
LEMMA InvDismount ==
    ASSUME Inv, UnregisterIo \/ DeleteExtension \/ ForgetContext \/ ForgetEngine \/ Finalize
    PROVE  Inv'
<1> USE DEF Inv, TypeInv, Running
<1>1. /\ UNCHANGED <<env, store, packetVars>> /\ fault = "none" /\ fault' = "none"
      /\ ctl \in Dismounting \cup {"unregister", "finalize", "deleted"}
      /\ ctl' \in Dismounting \cup {"idle", "finalize", "deleted", "closed"}
      /\ extension' \in BOOLEAN
  BY DEF UnregisterIo, DeleteExtension, ForgetContext, ForgetEngine, Finalize, CipherType,
         Dismounting
<1>2. CtlType' /\ HeldInv'
  <2> USE DEF CtlType, HeldInv, Unopened, Opening, Removing, Dismounting
  <2>1. CASE UnregisterIo \/ ForgetContext
    BY <2>1 DEF UnregisterIo, ForgetContext
  <2>2. CASE DeleteExtension
    BY <2>2 DEF DeleteExtension
  <2>3. CASE ForgetEngine
    <3>1. /\ ctl = "forgotten" /\ UNCHANGED <<env, held>> /\ caller # "none"
          /\ \/ caller = "delete" /\ ctl' = "deleted" /\ caller' = "delete"
             \/ caller = "close" /\ ctl' = "finalize" /\ caller' = "close"
             \/ caller \notin {"close", "delete"} /\ ctl' = "idle" /\ caller' = "none"
      BY <2>3 DEF ForgetEngine
    <3> QED BY <3>1
  <2>4. CASE Finalize
    BY <2>4 DEF Finalize
  <2> QED BY <2>1, <2>2, <2>3, <2>4
<1>3. DiskType' /\ ~ registered' /\ ~ io'
  <2> USE DEF DiskType, RegisteredInv, Dismounting
  <2>1. CASE UnregisterIo
    BY <2>1 DEF UnregisterIo
  <2>2. CASE DeleteExtension \/ ForgetContext
    BY <2>2 DEF DeleteExtension, ForgetContext
  <2>3. CASE ForgetEngine
    BY <2>3 DEF ForgetEngine
  <2>4. CASE Finalize
    BY <2>4 DEF Finalize
  <2> QED BY <2>1, <2>2, <2>3, <2>4
<1>4. RegisteredInv' /\ MountedInv'
  <2> USE DEF RegisteredInv, MountedInv, Unopened, Opening, Between, Removing, Dismounting
  <2>1. CASE UnregisterIo \/ ForgetContext
    BY <1>3, <2>1 DEF UnregisterIo, ForgetContext
  <2>2. CASE DeleteExtension
    BY <1>3, <2>2 DEF DeleteExtension
  <2>3. CASE ForgetEngine
    <3>1. /\ UNCHANGED env /\ ctl = "forgotten"
          /\ caller \in {"mount", "dismount", "close", "delete"}
          /\ mounted' = (mounted /\ caller # "dismount")
          /\ ctl' \in {"deleted", "finalize", "idle"}
          /\ ctl' = "idle" => caller \in {"mount", "dismount"}
      BY <2>3 DEF ForgetEngine, CtlType, HeldInv
    <3> QED BY <1>3, <3>1
  <2>4. CASE Finalize
    BY <1>3, <2>4 DEF Finalize
  <2> QED BY <2>1, <2>2, <2>3, <2>4
<1>5. CipherType' /\ CipherInv'
  <2>1. CASE UnregisterIo \/ DeleteExtension
    <3>1. ExtDestroy /\ ctl' = "destroyed" /\ UNCHANGED <<extension, env>> /\ ctl \notin Dismounting
      BY <2>1 DEF UnregisterIo, DeleteExtension, Dismounting
    <3>2. ~ extension => engine' = Null
      BY <3>1 DEF CipherInv, ExtDestroy
    <3>3. ~ env.remounts => Destroyed'
      BY <3>1, DismountInv DEF CipherInv
    <3> QED BY <1>1, <3>1, <3>2, <3>3, DismountInv
            DEF CipherInv, CipherType, Dismounting, Unopened, Opening, Between
  <2>2. CASE ForgetContext
    <3>1. /\ ExtForgetContext /\ ctl = "destroyed" /\ ctl' = "forgotten"
          /\ UNCHANGED <<extension, env>>
      BY <2>2 DEF ForgetContext
    <3>2. ~ extension => engine' = Null
      BY <3>1 DEF CipherInv, ExtForgetContext
    <3>3. ~ env.remounts => Forgotten'
      BY <3>1, DismountInv DEF CipherInv
    <3> QED BY <1>1, <3>1, <3>2, <3>3, DismountInv
            DEF CipherInv, CipherType, Dismounting, Unopened, Opening, Between
  <2>3. CASE ForgetEngine
    <3>1. /\ ExtForgetEngine /\ ctl = "forgotten" /\ UNCHANGED <<extension, env>>
          /\ ctl' \notin Dismounting
      BY <2>3 DEF ForgetEngine, Dismounting
    <3>2. engine' = Null /\ ContextAlive' /\ (~ env.remounts => ContextOwned')
      BY <3>1, DismountInv DEF CipherInv
    <3> QED BY <1>1, <3>1, <3>2, DismountInv DEF CipherInv, CipherType, Dismounting
  <2>4. CASE Finalize
    <3>1. /\ UNCHANGED <<env, engine, context, live>> /\ ctl = "deleted" /\ ctl' = "closed"
      BY <2>4 DEF Finalize, cipherVars
    <3>2. engine' = Null /\ ContextAlive' /\ (env.remounts \/ ContextOwned')
      BY <3>1 DEF CipherInv, Dismounting, ContextAlive, ContextOwned
    <3> QED BY <1>1, <3>1, <3>2 DEF CipherInv, CipherType, Dismounting
  <2> QED BY <2>1, <2>2, <2>3, <2>4
<1>6. PacketType' /\ PacketInv'
  <2>1. PacketType' /\ Pending' = Pending /\ UNCHANGED state
    BY <1>1 DEF PacketType, Pending, packetVars
  <2>2. env.drains => Pending = {}
    BY <1>1 DEF PacketInv, Between, Dismounting
  <2>3. env.drains /\ ~ env.remounts => \A p \in Packets : PacketInOrder(p)'
    BY <1>1, <2>2, InOrderKept DEF PacketInv
  <2>4. env.drains => \A p \in Packets : state[p] # "decrypting"
    BY <2>2 DEF Pending
  <2> QED BY <1>1, <2>1, <2>2, <2>3, <2>4 DEF PacketInv
<1>7. MemorySafe'
  BY <1>1 DEF MemorySafe
<1> QED BY <1>2, <1>3, <1>4, <1>5, <1>6, <1>7

-----------------------------------------------------------------------------
(* Steps that leave the disk and its cipher alone *)

LEMMA InvDiskKept ==
    ASSUME Inv, UNCHANGED <<env, controlVars, cipherVars>>, store' \in Algorithms \cup {Null},
           PacketType', PacketInv', MemorySafe'
    PROVE  Inv'
<1> USE DEF Inv, TypeInv, controlVars, cipherVars
<1>1. CtlType' /\ HeldInv'
  BY DEF CtlType, HeldInv
<1>2. DiskType' /\ CipherType'
  BY DEF DiskType, CipherType
<1>3. RegisteredInv' /\ MountedInv'
  BY DEF RegisteredInv, MountedInv
<1>4. CipherInv'
  BY DEF CipherInv, ContextAlive, ContextOwned, Destroyed, Forgotten
<1> QED BY <1>1, <1>2, <1>3, <1>4

LEMMA PacketsKept ==
    ASSUME Inv, UNCHANGED <<env, controlVars, cipherVars, packetVars>>
    PROVE  PacketType' /\ PacketInv'
<1> USE DEF Inv, TypeInv, controlVars, cipherVars
<1>1. PacketType' /\ Pending' = Pending /\ UNCHANGED state
  BY DEF PacketType, Pending, packetVars
<1>2. env.drains /\ ~ env.remounts => \A p \in Packets : PacketInOrder(p)'
  BY InOrderKept DEF PacketInv
<1> QED BY <1>1, <1>2 DEF PacketInv

\* The size check of save and restore lets no sum through that has wrapped.
LEMMA FitsInBuffer ==
    ASSUME DiskType, NEW size \in Sizes, Fits(size)
    PROVE  ~ (StateSize + saveSize > size)
<1>1. /\ saveSize \in 0..(2^Width - 1) /\ StateSize \in 0..(2^Width - 1) /\ 2^Width \in Nat
      /\ size \in Nat
  BY ParserAssumption DEF DiskType
<1>2. ~ ((saveSize + StateSize) % 2^Width < saveSize) /\ (saveSize + StateSize) % 2^Width <= size
  BY <1>1 DEF Fits, StoredSize
<1>3. (saveSize + StateSize) % 2^Width = saveSize + StateSize
  BY <1>1, <1>2, SumWithoutWrap
<1> QED BY <1>1, <1>2, <1>3

LEMMA InvSave == ASSUME Inv, NEW size \in Sizes, SaveOrRestore(size) PROVE Inv'
<1> USE DEF Inv, TypeInv
<1>1. /\ UNCHANGED <<env, controlVars, cipherVars, store, packetVars>>
      /\ ctl = "idle" /\ mounted /\ Fits(size)
  BY DEF SaveOrRestore
<1>2. fault' = IF io THEN "none" ELSE "null_call"
  BY <1>1, FitsInBuffer DEF SaveOrRestore
<1>3. io \/ env.pends \/ env.remounts
  BY <1>1 DEF RegisteredInv, MountedInv, Between
<1>4. MemorySafe'
  BY <1>1, <1>2, <1>3 DEF MemorySafe
<1>5. store' \in Algorithms \cup {Null}
  BY <1>1 DEF CipherType
<1> QED BY <1>1, <1>4, <1>5, PacketsKept, InvDiskKept

\* A step of one packet that leaves it in order.
LEMMA OnePacket ==
    ASSUME Inv, NEW p \in Packets, UNCHANGED <<env, controlVars, cipherVars, store>>, PacketType',
           env.drains /\ ~ env.remounts => PacketInOrder(p)',
           \A q \in Packets \ {p} : UNCHANGED <<state[q], op[q], mdl[q], inner[q], result[q]>>,
           env.drains /\ p \in Pending' =>
              registered /\ ctl \in Between \cup {"register", "remove"},
           env.drains /\ state'[p] = "decrypting" => extension /\ engine # Null
    PROVE  PacketInv'
<1> USE DEF Inv, controlVars, cipherVars
<1>1. env.drains /\ Pending' # {} => registered /\ ctl \in Between \cup {"register", "remove"}
  BY DEF PacketInv, Pending
<1>2. ASSUME env.drains, ~ env.remounts, NEW q \in Packets PROVE PacketInOrder(q)'
  <2>1. CASE q = p
    BY <1>2, <2>1
  <2>2. CASE q # p
    <3>1. PacketInOrder(q)
      BY <1>2 DEF PacketInv
    <3> QED BY <2>2, <3>1 DEF PacketInOrder, Pending, Encrypts
  <2> QED BY <2>1, <2>2
<1>3. env.drains => \A q \in Packets : state'[q] = "decrypting" => extension /\ engine # Null
  BY DEF PacketInv
<1> QED BY <1>1, <1>2, <1>3 DEF PacketInv

LEMMA InvExecute ==
    ASSUME Inv, NEW p \in Packets, NEW o \in Operations, ExecuteScsiRequest(p, o)
    PROVE  Inv'
<1> USE DEF Inv, TypeInv, Running
<1>1. /\ UNCHANGED <<env, controlVars, cipherVars, store>> /\ fault = "none"
      /\ ctl = "idle" /\ mounted /\ state[p] \notin {"pending", "decrypting"}
      /\ StartPacket(io, p, o)
  BY DEF ExecuteScsiRequest, Pending
<1>2. io \in BOOLEAN /\ UNCHANGED <<extension, engine>>
  BY <1>1 DEF DiskType, controlVars, cipherVars
<1>3. /\ PacketType'
      /\ \A q \in Packets \ {p} : UNCHANGED <<state[q], op[q], mdl[q], inner[q], result[q]>>
      /\ \/ PacketInOrder(p)' /\ fault' = "none"
         \/ ~ io /\ fault' = "null_call" /\ UNCHANGED packetVars
      /\ state'[p] = "pending" => io
      /\ state'[p] # "decrypting"
  BY <1>1, <1>2, Started
<1>4. PacketInv'
  <2>1. CASE PacketInOrder(p)'
    BY <1>1, <1>3, <2>1, OnePacket DEF RegisteredInv, Between, Pending
  <2>2. CASE UNCHANGED packetVars
    BY <1>1, <2>2, PacketsKept
  <2> QED BY <1>3, <2>1, <2>2
<1>5. MemorySafe'
  <2>1. io \/ env.pends \/ env.remounts
    BY <1>1 DEF RegisteredInv, MountedInv, Between
  <2> QED BY <1>1, <1>3, <2>1 DEF MemorySafe
<1> QED BY <1>1, <1>3, <1>4, <1>5, InvDiskKept DEF CipherType

\* A packet at vhdmp that finds its extension or its parser gone: no removal has waited.
LEMMA NotDrained ==
    ASSUME Inv, Pending # {}, ctl \in {"deleted", "closed", "instance", "failed"}
    PROVE  ~ env.drains
BY DEF Inv, PacketInv, Between

LEMMA InvComplete ==
    ASSUME Inv, NEW p \in Packets, NEW status \in {"ok", "failed"}, CompleteScsiRequest(p, status)
    PROVE  Inv'
<1> USE DEF Inv, TypeInv, Running
<1>1. /\ UNCHANGED <<env, controlVars, cipherVars, store>> /\ fault = "none"
      /\ state[p] = "pending" /\ UNCHANGED <<extension, engine>> /\ p \in Pending
  BY DEF CompleteScsiRequest, controlVars, cipherVars, Pending
<1>2. ASSUME "instance" \in held, Complete(p, status, ctl = "deleted")
      PROVE  Inv'
  <2> DEFINE deleted == ctl = "deleted"
  <2>1. deleted \in BOOLEAN /\ Complete(p, status, deleted)
    BY <1>2
  <2> HIDE DEF deleted
  <2>2. /\ PacketType'
        /\ \A q \in Packets \ {p} :
              UNCHANGED <<state[q], op[q], mdl[q], inner[q], result[q]>>
        /\ \/ extension /\ deleted /\ fault' = "freed_extension" /\ UNCHANGED packetVars
           \/ state'[p] = "decrypting" /\ extension /\ engine # Null /\ fault' = fault
           \/ state'[p] = "done" /\ fault' \in {fault, "freed_source"}
        /\ PacketInOrder(p) => \/ PacketInOrder(p)' /\ fault' = fault
                               \/ deleted /\ fault' = "freed_extension"
    BY <1>1, <2>1, Completion
  <2>3. env.drains => ~ deleted
    BY <1>1, NotDrained DEF deleted
  <2>4. env.drains /\ ~ env.remounts => PacketInOrder(p)' /\ fault' = "none"
    BY <1>1, <2>2, <2>3 DEF PacketInv
  <2>5. PacketInv'
    BY <1>1, <2>2, <2>3, <2>4, OnePacket DEF PacketInv, Pending, packetVars
  <2>6. MemorySafe'
    BY <1>1, <2>2, <2>3, <2>4 DEF MemorySafe
  <2> QED BY <1>1, <2>2, <2>5, <2>6, InvDiskKept DEF CipherType
<1>3. CASE "instance" \notin held /\ fault' = "freed_parser" /\ UNCHANGED packetVars
  <2>1. ~ env.drains
    BY <1>1, <1>3, NotDrained DEF HeldInv
  <2>2. MemorySafe'
    BY <1>1, <1>3, <2>1 DEF MemorySafe
  <2> QED BY <1>1, <1>3, <2>2, PacketsKept, InvDiskKept DEF CipherType
<1> QED BY <1>2, <1>3 DEF CompleteScsiRequest

LEMMA InvCrypt == ASSUME Inv, NEW p \in Packets, CryptBlocks(p) PROVE Inv'
<1> USE DEF Inv, TypeInv, Running
<1>1. /\ UNCHANGED <<env, controlVars, cipherVars, store>> /\ fault = "none"
      /\ state[p] = "decrypting" /\ UNCHANGED <<extension, engine>> /\ p \in Pending
  BY DEF CryptBlocks, controlVars, cipherVars, Pending
<1> DEFINE deleted == ctl = "deleted"
<1>2. deleted \in BOOLEAN /\ Decrypt(p, deleted)
  BY DEF CryptBlocks
<1> HIDE DEF deleted
<1>3. /\ PacketType'
      /\ \A q \in Packets \ {p} : UNCHANGED <<state[q], op[q], mdl[q], inner[q], result[q]>>
      /\ \/ /\ ~ extension \/ deleted
            /\ fault' = "freed_extension" /\ UNCHANGED packetVars
         \/ /\ engine = Null \/ context \notin live
            /\ fault' = "lost_cipher" /\ UNCHANGED packetVars
         \/ /\ state'[p] = "done" /\ fault' = fault
            /\ PacketInOrder(p) => PacketInOrder(p)'
  BY <1>1, <1>2, Decryption
<1>4. env.drains => extension /\ ~ deleted /\ engine # Null /\ context \in live
  <2>1. env.drains => ctl \notin Dismounting /\ ~ deleted
    BY <1>1, NotDrained DEF PacketInv, Between, Dismounting, deleted
  <2> QED BY <1>1, <2>1 DEF PacketInv, CipherInv, ContextAlive
<1>5. CASE fault' # fault
  <2>1. ~ env.drains /\ UNCHANGED packetVars /\ fault' \in {"freed_extension", "lost_cipher"}
    BY <1>3, <1>4, <1>5
  <2>2. MemorySafe'
    BY <1>1, <2>1 DEF MemorySafe
  <2> QED BY <1>1, <2>1, <2>2, PacketsKept, InvDiskKept DEF CipherType
<1>6. CASE fault' = fault
  <2>1. state'[p] = "done" /\ (PacketInOrder(p) => PacketInOrder(p)')
    BY <1>1, <1>3, <1>6
  <2>2. PacketInv'
    BY <1>1, <1>3, <2>1, OnePacket DEF PacketInv, Pending
  <2>3. MemorySafe'
    BY <1>1, <1>6 DEF MemorySafe
  <2> QED BY <1>1, <1>3, <2>2, <2>3, InvDiskKept DEF CipherType
<1> QED BY <1>5, <1>6

LEMMA InvFault ==
    ASSUME Inv, \/ SetCipherOpts \/ CallWithoutIrp \/ UNCHANGED vars
                \/ \E p \in Packets : ExecuteScsiRequestNoMemory(p)
    PROVE  Inv'
<1> USE DEF Inv, TypeInv
<1>1. /\ UNCHANGED <<env, controlVars, cipherVars, packetVars>>
      /\ store' \in Algorithms \cup {Null} /\ fault' \in {fault} \cup Unchecked
  BY DEF SetCipherOpts, CallWithoutIrp, vars, ExecuteScsiRequestNoMemory, NoMemory, CipherType,
         Unchecked
<1>2. MemorySafe'
  BY <1>1 DEF MemorySafe
<1> QED BY <1>1, <1>2, PacketsKept, InvDiskKept

-----------------------------------------------------------------------------
LEMMA InvNext == Inv /\ [Next]_vars => Inv'
<1> SUFFICES ASSUME Inv, [Next]_vars PROVE Inv'
  OBVIOUS
<1>1. CASE Control
  <2>1. CASE OpenDisk \/ OpenDiskStep \/ InitializeExtension
    BY <2>1, InvOpen
  <2>2. CASE OpenDiskFailed \/ CloseDisk
    BY <2>2, InvClose
  <2>3. CASE RegisterIo \/ GetAddress \/ AlreadyRegistered \/ DismountDisk
    BY <2>3, InvRegister
  <2>4. CASE RemoveVirtualDisk \/ Ask \/ Answered
    BY <2>4, InvRemove
  <2>5. CASE MountDisk
    BY <2>5, InvMountDisk
  <2>6. CASE UnregisterIo \/ DeleteExtension \/ ForgetContext \/ ForgetEngine \/ Finalize
    BY <2>6, InvDismount
  <2>7. CASE CallWithoutIrp
    BY <2>7, InvFault
  <2>8. CASE \E size \in Sizes : SaveOrRestore(size)
    BY <2>8, InvSave
  <2> QED BY <1>1, <2>1, <2>2, <2>3, <2>4, <2>5, <2>6, <2>7, <2>8 DEF Control
<1>2. ASSUME NEW p \in Packets, Packet(p) PROVE Inv'
  BY <1>2, InvExecute, InvComplete, InvCrypt, InvFault DEF Packet
<1>3. CASE SetCipherOpts \/ UNCHANGED vars
  BY <1>3, InvFault
<1> QED BY <1>1, <1>2, <1>3 DEF Next, Faulted

LEMMA InvAlways == Spec => []Inv
<1>1. Init => Inv
  BY InvInit
<1>2. Inv /\ [Next]_vars => Inv'
  BY InvNext
<1> QED BY <1>1, <1>2, PTL DEF Spec

-----------------------------------------------------------------------------
(* Theorems *)

\* Every variable of the parser, of its extension and of its packets keeps its type.
THEOREM TypeCorrect == Spec => []TypeOK
<1>1. Inv => TypeOK
  <2> SUFFICES ASSUME Inv PROVE TypeOK
    OBVIOUS
  <2>1. ExtTypeOK
    BY ExtTypes DEF Inv, TypeInv
  <2>2. fault \in {"none", "null_irp", "null_parser", "null_mdl", "short_mdl", "freed_source",
                   "freed_parser", "freed_extension", "lost_cipher", "null_call", "overrun",
                   "overrun_names"}
    BY DEF Inv, MemorySafe, Unchecked
  <2> QED BY <2>1, <2>2 DEF Inv, TypeInv, CtlType, DiskType, TypeOK
<1> QED BY <1>1, InvAlways, PTL

\* Packets, control calls and callbacks of vhdmp in any order touch no memory that is
\* not theirs, but for the allocations that are not checked, the size that is read from
\* memory as it came, and what a VSP or a vhdmp that do not do their part explain: a
\* removal that does not wait, a second mount, an IOCTL that fails after it was pending.
THEOREM MemoryIsSafe == Spec => []MemorySafe
<1>1. Inv => MemorySafe
  BY DEF Inv
<1> QED BY <1>1, InvAlways, PTL

\* If a removal waits for packets, a read is decrypted with a cipher that stays allocated
\* until its last sector, though Ext_Dismount takes three steps without a lock; and
\* outside Ext_Dismount the extension knows every context there is, unless a mounted disk
\* is mounted again.
THEOREM CipherIsOwned == Spec => []CipherOwned
<1>1. Inv => CipherOwned
  <2> SUFFICES ASSUME Inv PROVE CipherOwned
    OBVIOUS
  <2> USE DEF Inv
  <2>1. ctl \notin Dismounting => ContextAlive /\ (env.remounts \/ ContextOwned)
    BY DEF CipherInv
  <2>2. ASSUME env.drains, NEW p \in Packets, state[p] = "decrypting"
        PROVE  extension /\ engine # Null /\ context \in live
    <3>1. p \in Pending
      BY <2>2 DEF Pending
    <3>2. extension /\ engine # Null /\ ctl \notin Dismounting
      BY <2>2, <3>1 DEF PacketInv, Between, Dismounting
    <3> QED BY <2>1, <3>2 DEF ContextAlive
  <2> QED BY <2>1, <2>2 DEF CipherOwned, Dismounting
<1> QED BY <1>1, InvAlways, PTL

\* While the environment is orderly, the inner MDL of a write that vhdmp holds has its
\* pages, and that of a packet that is back has none, however mounts, dismounts and
\* completions interleave.
THEOREM BuffersInOrder == Spec => []BufferDiscipline
<1>1. Inv => BufferDiscipline
  BY DEF Inv, PacketInv, PacketInOrder, BufferDiscipline, Orderly, PacketDiscipline, Pending
<1> QED BY <1>1, InvAlways, PTL

\* EVhd_CloseDisk and every failure of EVhd_OpenDisk leave no handle, registration, cipher
\* or pages of an inner MDL, and bMounted is what vhdmp was told between calls.
THEOREM NothingIsLeaked == Spec => []NothingLeaks
<1>1. Inv => NothingLeaks
  <2> SUFFICES ASSUME Inv PROVE NothingLeaks
    OBVIOUS
  <2> USE DEF Inv
  <2>1. ctl = "closed" => held \subseteq {"names"} /\ ~ registered /\ engine = Null
    BY DEF HeldInv, RegisteredInv, CipherInv, Unopened
  <2>2. ctl = "closed" /\ Orderly => live = {} /\ \A p \in Packets : inner[p] # "live"
    <3> SUFFICES ASSUME ctl = "closed", env.drains, ~ env.remounts
                 PROVE  live = {} /\ \A p \in Packets : inner[p] # "live"
      BY DEF Orderly
    <3>1. live = {}
      BY <2>1, NoEngine DEF CipherInv, Dismounting
    <3>2. Pending = {}
      BY DEF PacketInv, Between
    <3> QED BY <3>1, <3>2 DEF PacketInv, PacketInOrder, Pending
  <2>3. ctl = "idle" /\ ~ env.remounts => (mounted <=> registered)
    BY DEF RegisteredInv, MountedInv, Between, Unopened, Opening, Removing, Dismounting
  <2> QED BY <2>1, <2>2, <2>3 DEF NothingLeaks
<1> QED BY <1>1, InvAlways, PTL

\* No mount, dismount or close changes the cipher while vhdmp holds a packet: what was
\* encrypted on the way in is completed with the same context.
THEOREM CipherIsStable == Spec => CipherStable
<1> DEFINE Stable == Orderly /\ Pending # {} => UNCHANGED <<engine, context>>
<1>1. Inv /\ [Next]_vars => [Stable]_vars
  <2> SUFFICES ASSUME Inv, Next, Orderly, Pending # {} PROVE UNCHANGED <<engine, context>>
    BY DEF Stable
  <2>1. /\ ctl \in Between \cup {"register", "remove"}
        /\ (ctl \in Between => mounted) /\ ~ env.remounts
    BY NotMounted DEF Inv, PacketInv, Orderly
  <2>2. CASE Control
    <3>1. ~ (UnregisterIo \/ DeleteExtension \/ ForgetContext \/ ForgetEngine \/ MountDisk)
      BY <2>1 DEF UnregisterIo, DeleteExtension, ForgetContext, ForgetEngine, MountDisk, Between
    <3>2. UNCHANGED cipherVars
      BY <2>2, <3>1 DEF Control, OpenDisk, OpenDiskStep, InitializeExtension, OpenDiskFailed,
         CloseDisk, RegisterIo, GetAddress, AlreadyRegistered, DismountDisk, RemoveVirtualDisk,
         Ask, Answered, SaveOrRestore, CallWithoutIrp, Finalize
    <3> QED BY <3>2 DEF cipherVars
  <2>3. ASSUME NEW p \in Packets, Packet(p) PROVE UNCHANGED <<engine, context>>
    BY <2>3 DEF Packet, ExecuteScsiRequest, ExecuteScsiRequestNoMemory, CompleteScsiRequest,
       CryptBlocks, cipherVars
  <2>4. CASE SetCipherOpts \/ Faulted
    BY <2>4 DEF SetCipherOpts, Faulted, vars, cipherVars
  <2> QED BY <2>2, <2>3, <2>4 DEF Next
<1>2. Spec => [][Stable]_vars
  BY <1>1, InvAlways, PTL DEF Spec
<1> QED BY <1>2 DEF CipherStable
=============================================================================
