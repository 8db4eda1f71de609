------------------------ MODULE EncryptedDiskProofs -------------------------
(***************************************************************************)
(* EncryptedDisk proved for every disk, every set of requests and every    *)
(* set of keys.  The types are right whatever commands the guest uses; the *)
(* rest is so as long as it uses commands of 10 and 12 bytes and sectors   *)
(* of 512 bytes: then the number a block is encrypted with is its sector,  *)
(* wherever the block is.                                                  *)
(***************************************************************************)
EXTENDS EncryptedDisk, TLAPS

\* The commands and disks for which SectorOffset is the address of the sector.
Flat == CdbLengths \subseteq {10, 12} /\ SectorBlocks = 1

InPlace(block, s) == block.key # NoCipher => block.tweak = s

\* What a request that vhdmp holds looks like: a write is in its inner MDL under
\* the engine's key, a read has blocks in the place they had on the disk.
WriteInv(r) ==
    /\ \A s \in Sectors : buffer[r][s].key = NoCipher
    /\ phase[r] = "pending" =>
          \A s \in Span(command[r]) : /\ inner[r][s].data = buffer[r][s].data
                                      /\ inner[r][s].key = engine
                                      /\ InPlace(inner[r][s], s)

ReadInv(r) ==
    phase[r] = "pending" =>
        \A s \in Sectors : IF s \in moved[r] THEN InPlace(buffer[r][s], s)
                           ELSE buffer[r][s] = Plain(Blank)

RequestInv(r) ==
    /\ moved[r] \subseteq Span(command[r])
    /\ phase[r] = "pending" => mounted
    /\ command[r].kind = "write" => WriteInv(r)
    /\ command[r].kind = "read" => ReadInv(r)

DiskInv == \A s \in Sectors : InPlace(disk[s], s)

Inv == TypeOK /\ DiskInv /\ \A r \in Requests : RequestInv(r)

-----------------------------------------------------------------------------
(* Types *)

\* Every sector of a command is one of the disk.
LEMMA SpanInDisk ==
    ASSUME NEW c \in Commands \cup {NoCommand}
    PROVE  Span(c) \subseteq Sectors
  BY DiskAssumption DEF Commands, NoCommand, Span, Sectors

LEMMA PlainBlock ==
    ASSUME NEW d \in Contents
    PROVE  Plain(d) \in Blocks /\ Plain(d).key = NoCipher /\ Plain(d).data = d
  BY DEF Plain, Blocks

LEMMA EmptyBlocks ==
    /\ Empty \in [Sectors -> Blocks]
    /\ \A s \in Sectors : Empty[s] = Plain(Blank) /\ Empty[s].key = NoCipher
  BY PlainBlock DEF Empty, Contents, Plain

\* Whatever part of a CDB is taken for a sector number, it is one.
LEMMA OffsetIsNatural ==
    ASSUME NEW c \in Commands, c.first <= c.last
    PROVE  SectorOffset(c) \in Nat
<1>1. c.length \in {6, 10, 12, 16} /\ c.first \in Nat /\ c.last \in Nat
  <2>1. c.length \in CdbLengths
    BY DEF Commands
  <2>2. c.length \in {6, 10, 12, 16}
    BY <2>1, DiskAssumption
  <2>3. c.first \in Nat /\ c.last \in Nat
    BY DiskAssumption DEF Commands, Sectors
  <2> QED BY <2>2, <2>3
<1>2. \A a, b \in Nat : a * b \in Nat
  OBVIOUS
<1>3. Word \in Nat /\ Word > 0
  <2>1. \A a \in Nat : a > 0 => a * a > 0
    OBVIOUS
  <2> QED BY <1>2, <2>1, DiskAssumption DEF Word
<1>4. CASE c.length = 6
  <2>1. c.first % Word \in Nat
    BY <1>1, <1>3
  <2>2. (c.first % Word) * Word \in Nat
    BY <1>2, <1>3, <2>1
  <2>3. c.last - c.first + 1 \in Nat
    BY <1>1
  <2>4. (c.last - c.first + 1) * Byte \in Nat
    BY <1>2, <2>3, DiskAssumption
  <2> QED BY <1>4, <2>2, <2>4 DEF SectorOffset
<1>5. CASE c.length \in {10, 12}
  BY <1>1, <1>5 DEF SectorOffset
<1>6. CASE c.length = 16
  <2>1. Word * Word \in Nat /\ Word * Word > 0
    <3>1. \A a \in Nat : a > 0 => a * a > 0
      OBVIOUS
    <3> QED BY <1>2, <1>3, <3>1
  <2> HIDE DEF Word
  <2>2. c.first \div (Word * Word) \in Nat
    BY <1>1, <2>1
  <2> QED BY <1>6, <2>2 DEF SectorOffset
<1> QED BY <1>1, <1>4, <1>5, <1>6

LEMMA TweakIsNatural ==
    ASSUME NEW c \in Commands, NEW s \in Span(c)
    PROVE  Tweak(c, s) \in Nat
<1>1. c.first \in Nat /\ c.last \in Nat /\ s \in Nat /\ c.first <= s /\ s <= c.last
  BY DiskAssumption DEF Commands, Sectors, Span
<1>2. SectorOffset(c) \in Nat
  BY <1>1, OffsetIsNatural
<1>3. s - c.first \in Nat
  BY <1>1
<1>4. (s - c.first) * SectorBlocks \in Nat
  <2>1. \A a, b \in Nat : a * b \in Nat
    OBVIOUS
  <2> QED BY <1>3, <2>1, DiskAssumption
<1> QED BY <1>2, <1>4 DEF Tweak

LEMMA EncryptedTyped ==
    ASSUME engine \in Keys \cup {NoCipher}, NEW c \in Commands, NEW b \in [Sectors -> Blocks]
    PROVE  Encrypted(c, b) \in [Sectors -> Blocks]
<1>1. ASSUME NEW s \in Sectors, s \in Span(c)
      PROVE  Encrypt(engine, Tweak(c, s), b[s]) \in Blocks
  <2>1. Tweak(c, s) \in Nat /\ b[s].data \in Contents
    BY <1>1, TweakIsNatural DEF Blocks
  <2> QED BY <2>1 DEF Encrypt, Blocks
<1> QED BY <1>1 DEF Encrypted

LEMMA DecryptedTyped ==
    ASSUME NEW c \in Commands, NEW b \in [Sectors -> Blocks]
    PROVE  Decrypted(c, b) \in [Sectors -> Blocks]
<1>1. \A s \in Sectors : Decrypt(engine, Tweak(c, s), b[s]) \in Blocks
  BY PlainBlock DEF Decrypt, Blocks, Contents
<1> QED BY <1>1 DEF Decrypted

LEMMA TypeInit == Init => TypeOK
<1> SUFFICES ASSUME Init PROVE TypeOK
  OBVIOUS
<1>1. command \in [Requests -> Commands \cup {NoCommand}]
  BY DEF Init
<1>2. /\ disk \in [Sectors -> Blocks] /\ buffer \in [Requests -> [Sectors -> Blocks]]
      /\ inner \in [Requests -> [Sectors -> Blocks]]
  BY EmptyBlocks DEF Init
<1> QED BY <1>1, <1>2 DEF Init, TypeOK

LEMMA TypeMount == ASSUME TypeOK, Mount \/ Dismount PROVE TypeOK'
BY DEF TypeOK, Mount, Dismount

LEMMA TypeStart ==
    ASSUME TypeOK, NEW r \in Requests, NEW c \in Commands, NEW b \in [Sectors -> Blocks],
           StartScsiRequest(r, c, b)
    PROVE  TypeOK'
<1>1. Encrypted(c, b) \in [Sectors -> Blocks] /\ Empty \in [Sectors -> Blocks]
  BY EncryptedTyped, EmptyBlocks DEF TypeOK
<1>2. engine' \in Keys \cup {NoCipher} /\ mounted' \in BOOLEAN /\ disk' \in [Sectors -> Blocks]
  BY DEF TypeOK, StartScsiRequest, mountVars
<1>3. command' \in [Requests -> Commands \cup {NoCommand}]
  BY DEF TypeOK, StartScsiRequest
<1>4. buffer' \in [Requests -> [Sectors -> Blocks]]
  BY DEF TypeOK, StartScsiRequest
<1>5. inner' \in [Requests -> [Sectors -> Blocks]]
  BY <1>1 DEF TypeOK, StartScsiRequest
<1>6. /\ phase' \in [Requests -> {"idle", "pending", "done"}]
      /\ moved' \in [Requests -> SUBSET Sectors]
      /\ result' \in [Requests -> {"none", "ok", "raw", "failed"}]
  BY DEF TypeOK, StartScsiRequest
<1> QED BY <1>2, <1>3, <1>4, <1>5, <1>6 DEF TypeOK

LEMMA TypeMove ==
    ASSUME TypeOK, NEW r \in Requests, NEW s \in Sectors, MoveSector(r, s)
    PROVE  TypeOK'
<1>1. disk[s] \in Blocks /\ inner[r][s] \in Blocks
  BY DEF TypeOK
<1>2. disk' \in [Sectors -> Blocks]
  BY <1>1 DEF TypeOK, MoveSector
<1>3. buffer' \in [Requests -> [Sectors -> Blocks]]
  <2>1. [buffer[r] EXCEPT ![s] = disk[s]] \in [Sectors -> Blocks]
    BY <1>1 DEF TypeOK
  <2> QED BY <2>1 DEF TypeOK, MoveSector
<1>4. moved' \in [Requests -> SUBSET Sectors]
  BY DEF TypeOK, MoveSector
<1> QED BY <1>2, <1>3, <1>4 DEF TypeOK, MoveSector, mountVars

LEMMA TypeComplete ==
    ASSUME TypeOK, NEW r \in Requests, NEW status \in {"ok", "raw", "failed"},
           NEW b \in [Sectors -> Blocks], Complete(r, status, b)
    PROVE  TypeOK'
BY EmptyBlocks DEF TypeOK, Complete, mountVars

\* The blocks that StartWrite gives its request.
Written(c, contents) ==
    [s \in Sectors |-> IF s \in Span(c) THEN Plain(contents[s]) ELSE Plain(Blank)]

LEMMA WrittenTyped ==
    ASSUME NEW c \in Commands, NEW contents \in [Span(c) -> Data]
    PROVE  /\ Written(c, contents) \in [Sectors -> Blocks]
           /\ \A s \in Sectors : Written(c, contents)[s].key = NoCipher
<1>1. \A s \in Sectors : /\ Written(c, contents)[s] \in Blocks
                         /\ Written(c, contents)[s].key = NoCipher
  BY PlainBlock DEF Contents, Written
<1> QED BY <1>1 DEF Written

LEMMA TypeStep == ASSUME TypeOK, [Next]_vars PROVE TypeOK'
<1>1. CASE Mount \/ Dismount
  BY <1>1, TypeMount
<1>2. ASSUME NEW r \in Requests, StartRead(r) PROVE TypeOK'
  BY <1>2, TypeStart, EmptyBlocks DEF StartRead
<1>3. ASSUME NEW r \in Requests, StartWrite(r) PROVE TypeOK'
  <2>2. PICK c \in Commands : \E contents \in [Span(c) -> Data] :
          StartScsiRequest(r, c, Written(c, contents))
    BY <1>3 DEF StartWrite, Written
  <2>1. PICK contents \in [Span(c) -> Data] : StartScsiRequest(r, c, Written(c, contents))
    BY <2>2
  <2> QED BY <2>1, WrittenTyped, TypeStart
<1>4. ASSUME NEW r \in Requests, NEW s \in Sectors, MoveSector(r, s) PROVE TypeOK'
  BY <1>4, TypeMove
<1>5. ASSUME NEW r \in Requests, CompleteRead(r) PROVE TypeOK'
  <2>1. command[r] \in Commands /\ buffer[r] \in [Sectors -> Blocks]
    BY <1>5 DEF CompleteRead, TypeOK, NoCommand
  <2>2. Decrypted(command[r], buffer[r]) \in [Sectors -> Blocks]
    BY <2>1, DecryptedTyped
  <2> QED BY <1>5, <2>1, <2>2, TypeComplete DEF CompleteRead
<1>6. ASSUME NEW r \in Requests, CompleteWrite(r) PROVE TypeOK'
  <2>1. buffer[r] \in [Sectors -> Blocks]
    BY DEF TypeOK
  <2> QED BY <1>6, <2>1, TypeComplete DEF CompleteWrite
<1>7. CASE UNCHANGED vars
  BY <1>7 DEF vars, mountVars, TypeOK
<1> QED BY <1>1, <1>2, <1>3, <1>4, <1>5, <1>6, <1>7 DEF Next

\* Every block keeps its type, whatever commands of 6, 10, 12 or 16 bytes the guest uses:
\* no sector number below 0 reaches the cipher.
THEOREM TypeCorrect == Spec => []TypeOK
BY TypeInit, TypeStep, PTL DEF Spec

-----------------------------------------------------------------------------
(* The sector number *)

LEMMA TweakIsSector ==
    ASSUME Flat, NEW c \in Commands \cup {NoCommand}, NEW s \in Sectors
    PROVE  Tweak(c, s) = s
<1>1. c.length \in {10, 12} /\ c.first \in Int
  <2>1. CASE c \in Commands
    <3>1. c.length \in CdbLengths /\ c.first \in 0..LastSector
      BY <2>1 DEF Commands, Sectors
    <3>2. c.length \in {10, 12}
      BY <3>1 DEF Flat
    <3>3. c.first \in Int
      BY <3>1, DiskAssumption
    <3> QED BY <3>2, <3>3
  <2>2. CASE c = NoCommand
    BY <2>2 DEF NoCommand
  <2> QED BY <2>1, <2>2
<1>2. SectorOffset(c) = c.first
  BY <1>1 DEF SectorOffset
<1> QED BY <1>1, <1>2, DiskAssumption DEF Flat, Tweak, Sectors

\* A block that is encrypted is under the engine's key and in its place.
LEMMA EncryptedBlocks ==
    ASSUME Flat, NEW c \in Commands, NEW b \in [Sectors -> Blocks],
           \A t \in Sectors : b[t].key = NoCipher, NEW s \in Span(c)
    PROVE  /\ Encrypted(c, b)[s].data = b[s].data
           /\ Encrypted(c, b)[s].key = engine
           /\ InPlace(Encrypted(c, b)[s], s)
<1>1. s \in Sectors
  BY SpanInDisk
<1>2. CASE engine = NoCipher
  BY <1>1, <1>2 DEF Encrypted, InPlace
<1>3. CASE engine # NoCipher
  <2>1. Encrypted(c, b)[s] = [data |-> b[s].data, key |-> engine, tweak |-> s]
    BY <1>1, <1>3, TweakIsSector DEF Encrypted, Encrypt
  <2> QED BY <2>1 DEF InPlace
<1> QED BY <1>2, <1>3

-----------------------------------------------------------------------------
(* The invariant *)

LEMMA InvInit == Init => Inv
<1> SUFFICES ASSUME Init PROVE Inv
  OBVIOUS
<1>1. TypeOK
  BY TypeInit
<1>2. DiskInv
  BY EmptyBlocks DEF Init, DiskInv, InPlace
<1>3. \A r \in Requests : RequestInv(r)
  BY DEF Init, RequestInv, NoCommand
<1> QED BY <1>1, <1>2, <1>3 DEF Inv

LEMMA MountStep ==
    ASSUME Inv, Mount \/ Dismount
    PROVE  Inv'
<1>1. TypeOK'
  BY TypeMount DEF Inv
<1>2. DiskInv'
  BY DEF Inv, DiskInv, Mount, Dismount
<1>3. \A r \in Requests : phase[r] # "pending"
  BY DEF Inv, RequestInv, Mount, Dismount, Pending
<1>4. \A r \in Requests : RequestInv(r)'
  BY <1>3 DEF Inv, RequestInv, WriteInv, ReadInv, Mount, Dismount
<1> QED BY <1>1, <1>2, <1>4 DEF Inv

\* A step of one request leaves the others alone.
LEMMA OtherRequests ==
    ASSUME Inv, NEW r \in Requests, UNCHANGED mountVars,
           \A q \in Requests \ {r} : /\ command'[q] = command[q] /\ phase'[q] = phase[q]
                                     /\ buffer'[q] = buffer[q] /\ inner'[q] = inner[q]
                                     /\ moved'[q] = moved[q]
    PROVE  \A q \in Requests \ {r} : RequestInv(q)'
  BY DEF Inv, RequestInv, WriteInv, ReadInv, mountVars

LEMMA StartStep ==
    ASSUME Flat, Inv, NEW r \in Requests, NEW c \in Commands, NEW b \in [Sectors -> Blocks],
           StartScsiRequest(r, c, b),
           c.kind = "read" => b = Empty,
           c.kind = "write" => \A s \in Sectors : b[s].key = NoCipher
    PROVE  Inv'
<1>2. TypeOK'
  BY TypeStart DEF Inv
<1>3. DiskInv'
  BY DEF Inv, DiskInv, StartScsiRequest
<1>4. /\ command'[r] = c /\ buffer'[r] = b /\ moved'[r] = {} /\ engine' = engine
      /\ phase'[r] = "pending" => mounted' /\ inner'[r] = IF c.kind = "write"
                                                          THEN Encrypted(c, b) ELSE Empty
  BY DEF Inv, TypeOK, StartScsiRequest, mountVars
<1>5. ASSUME c.kind = "write" PROVE WriteInv(r)'
  <2>1. \A s \in Span(c) : /\ Encrypted(c, b)[s].data = b[s].data
                            /\ Encrypted(c, b)[s].key = engine
                            /\ InPlace(Encrypted(c, b)[s], s)
    BY <1>5, EncryptedBlocks DEF Inv, TypeOK
  <2> QED BY <1>4, <1>5, <2>1 DEF WriteInv, InPlace
<1>6. ASSUME c.kind = "read" PROVE ReadInv(r)'
  BY <1>4, <1>6, EmptyBlocks DEF ReadInv
<1>7. RequestInv(r)'
  BY <1>4, <1>5, <1>6 DEF RequestInv
<1>8. \A q \in Requests \ {r} : RequestInv(q)'
  BY OtherRequests DEF Inv, TypeOK, StartScsiRequest, mountVars
<1> QED BY <1>2, <1>3, <1>7, <1>8 DEF Inv

LEMMA MoveStep ==
    ASSUME Inv, NEW r \in Requests, NEW s \in Sectors, MoveSector(r, s)
    PROVE  Inv'
<1>2. TypeOK'
  BY TypeMove DEF Inv
<1>3. DiskInv'
  BY DEF Inv, TypeOK, DiskInv, MoveSector, RequestInv, WriteInv, InPlace
<1>4. /\ command'[r] = command[r] /\ phase'[r] = phase[r] /\ engine' = engine
      /\ inner'[r] = inner[r] /\ mounted' = mounted /\ moved'[r] = moved[r] \cup {s}
  BY DEF Inv, TypeOK, MoveSector, mountVars
<1>5. ASSUME command[r].kind = "write" PROVE WriteInv(r)'
  BY <1>4, <1>5 DEF Inv, RequestInv, WriteInv, MoveSector, InPlace
<1>6. ASSUME command[r].kind = "read" PROVE ReadInv(r)'
  <2>1. buffer'[r] = [buffer[r] EXCEPT ![s] = disk[s]]
    BY <1>6 DEF MoveSector, Inv, TypeOK
  <2>2. InPlace(disk[s], s)
    BY DEF Inv, DiskInv
  <2>3. buffer[r] \in [Sectors -> Blocks] /\ ReadInv(r) /\ phase[r] = "pending"
    BY <1>6 DEF Inv, TypeOK, RequestInv, MoveSector
  <2> QED BY <1>4, <2>1, <2>2, <2>3 DEF ReadInv
<1>7. RequestInv(r)'
  BY <1>4, <1>5, <1>6 DEF Inv, RequestInv, MoveSector
<1>8. \A q \in Requests \ {r} : RequestInv(q)'
  BY OtherRequests DEF Inv, TypeOK, MoveSector
<1> QED BY <1>2, <1>3, <1>7, <1>8 DEF Inv

LEMMA CompleteStep ==
    ASSUME Inv, NEW r \in Requests, NEW status \in {"ok", "raw", "failed"},
           NEW b \in [Sectors -> Blocks], Complete(r, status, b),
           command[r].kind = "write" => b = buffer[r]
    PROVE  Inv'
<1>1. TypeOK'
  BY TypeComplete DEF Inv
<1>2. DiskInv'
  BY DEF Inv, DiskInv, Complete
<1>3. RequestInv(r)'
  BY DEF Inv, TypeOK, Complete, RequestInv, WriteInv, ReadInv
<1>4. \A q \in Requests \ {r} : RequestInv(q)'
  BY OtherRequests DEF Inv, TypeOK, Complete, mountVars
<1> QED BY <1>1, <1>2, <1>3, <1>4 DEF Inv

LEMMA InvStep ==
    ASSUME Flat, Inv, [Next]_vars
    PROVE  Inv'
<1>1. CASE Mount \/ Dismount
  BY <1>1, MountStep
<1>2. ASSUME NEW r \in Requests, StartRead(r) PROVE Inv'
  <2>1. PICK c \in Commands : c.kind = "read" /\ StartScsiRequest(r, c, Empty)
    BY <1>2 DEF StartRead
  <2> QED BY <2>1, StartStep, EmptyBlocks
<1>3. ASSUME NEW r \in Requests, StartWrite(r) PROVE Inv'
  <2>2. PICK c \in Commands : \E contents \in [Span(c) -> Data] :
          c.kind = "write" /\ StartScsiRequest(r, c, Written(c, contents))
    BY <1>3 DEF StartWrite, Written
  <2>1. PICK contents \in [Span(c) -> Data] :
          c.kind = "write" /\ StartScsiRequest(r, c, Written(c, contents))
    BY <2>2
  <2> QED BY <2>1, WrittenTyped, StartStep
<1>4. ASSUME NEW r \in Requests, NEW s \in Sectors, MoveSector(r, s) PROVE Inv'
  BY <1>4, MoveStep
<1>5. ASSUME NEW r \in Requests, CompleteRead(r) PROVE Inv'
  <2>1. command[r] \in Commands /\ buffer[r] \in [Sectors -> Blocks]
    BY <1>5 DEF CompleteRead, Inv, TypeOK, NoCommand
  <2>2. Decrypted(command[r], buffer[r]) \in [Sectors -> Blocks]
    BY <2>1, DecryptedTyped
  <2> QED BY <1>5, <2>1, <2>2, CompleteStep DEF CompleteRead
<1>6. ASSUME NEW r \in Requests, CompleteWrite(r) PROVE Inv'
  <2>1. buffer[r] \in [Sectors -> Blocks]
    BY DEF Inv, TypeOK
  <2> QED BY <1>6, <2>1, CompleteStep DEF CompleteWrite
<1>7. CASE UNCHANGED vars
  BY <1>7 DEF vars, mountVars, Inv, TypeOK, DiskInv, RequestInv, WriteInv, ReadInv
<1> QED BY <1>1, <1>2, <1>3, <1>4, <1>5, <1>6, <1>7 DEF Next

THEOREM InvAlways == ASSUME Flat PROVE Spec => []Inv
<1>1. Inv /\ [Next]_vars => Inv'
  BY InvStep
<1> QED BY <1>1, InvInit, PTL DEF Spec

\* Whatever commands wrote and read it, a sector is decrypted with the number it
\* was encrypted with.
THEOREM AlwaysDecipherable == ASSUME Flat PROVE Spec => []Decipherable
<1>1. Inv => Decipherable
  <2> SUFFICES ASSUME Inv, NEW r \in Pending, NEW s \in moved[r],
                      command[r].kind = "read", buffer[r][s].key = engine, engine # NoCipher
               PROVE  buffer[r][s].tweak = Tweak(command[r], s)
    BY DEF Decipherable
  <2>1. r \in Requests /\ s \in Sectors /\ command[r] \in Commands \cup {NoCommand}
    BY DEF Pending, Inv, TypeOK
  <2>2. buffer[r][s].tweak = s
    BY <2>1 DEF Inv, RequestInv, ReadInv, InPlace, Pending
  <2> QED BY <2>1, <2>2, TweakIsSector
<1> QED BY <1>1, InvAlways, PTL

-----------------------------------------------------------------------------
(* The refinement *)

Asked(r) == [kind |-> command[r].kind, span |-> Span(command[r])]
Stored(s) == [data |-> disk[s].data, cipher |-> disk[s].key]

LEMMA StoreInit == Init => Promise!Init
<1> SUFFICES ASSUME Init PROVE Promise!Init
  OBVIOUS
<1>1. \A s \in Sectors : Stored(s) = [data |-> Blank, cipher |-> NoCipher]
  BY DEF Init, Empty, Plain, Stored
<1>2. \A r \in Requests : Asked(r) = [kind |-> "none", span |-> {}]
  <2>1. 1..0 = {}
    OBVIOUS
  <2> QED BY <2>1 DEF Init, NoCommand, Span, Asked
<1>3. \A r \in Requests : Carried(r) = [s \in Sectors |-> Blank]
  BY DEF Init, NoCommand, Carried, View, Empty, Plain
<1>4. \A r \in Requests : Outcome(r) = "none"
  BY DEF Init, Outcome
<1> QED BY <1>1, <1>2, <1>3, <1>4 DEF Init, Promise!Init, Promise!Nothing, Stored, Asked

\* A step of one request changes nothing that the store knows of the others.
LEMMA OneRequest ==
    ASSUME NEW r \in Requests, engine' = engine,
           \A q \in Requests \ {r} : /\ command'[q] = command[q] /\ phase'[q] = phase[q]
                                     /\ buffer'[q] = buffer[q] /\ moved'[q] = moved[q]
                                     /\ result'[q] = result[q]
    PROVE  /\ [q \in Requests |-> Asked(q)]'
                = [[q \in Requests |-> Asked(q)] EXCEPT ![r] = Asked(r)']
           /\ [q \in Requests |-> Carried(q)]'
                = [[q \in Requests |-> Carried(q)] EXCEPT ![r] = Carried(r)']
           /\ [q \in Requests |-> Outcome(q)]'
                = [[q \in Requests |-> Outcome(q)] EXCEPT ![r] = Outcome(r)']
<1>1. \A q \in Requests \ {r} : Asked(q)' = Asked(q)
  BY DEF Asked
<1>2. \A q \in Requests \ {r} : Carried(q)' = Carried(q)
  BY DEF Carried, Seen
<1>3. \A q \in Requests \ {r} : Outcome(q)' = Outcome(q)
  BY DEF Outcome
<1> QED BY <1>1, <1>2, <1>3

\* What a request carries is contents, and nothing it was not given.
CarriedTyped == \A r \in Requests : Carried(r) \in [Sectors -> Contents]

LEMMA CarriedContents == TypeOK => CarriedTyped
<1> SUFFICES ASSUME TypeOK, NEW r \in Requests PROVE Carried(r) \in [Sectors -> Contents]
  BY DEF CarriedTyped
<1>1. \A s \in Sectors : Seen(buffer[r][s]) \in Contents /\ View(buffer[r][s]) \in Contents
  BY DEF TypeOK, Blocks, Seen, View, Contents
<1> QED BY <1>1 DEF Carried, Contents

LEMMA StoreMount ==
    ASSUME Inv, Mount \/ Dismount
    PROVE  Promise!Next
<1>1. \A r \in Requests : phase[r] # "pending"
  BY DEF Inv, RequestInv, Mount, Dismount, Pending
<1>2. UNCHANGED <<disk, command, phase, buffer, moved, result>>
  BY DEF Mount, Dismount
<1>3. \A r \in Requests : Carried(r)' = Carried(r) /\ Outcome(r)' = Outcome(r)
  BY <1>1, <1>2 DEF Carried, Outcome, View
<1>4. \A r \in Requests : Outcome(r) # "pending"
  BY <1>1 DEF Outcome, Inv, TypeOK
<1>5. engine' \in Keys \cup {NoCipher}
  BY DEF Mount, Dismount
<1>6. Promise!SetCipher(engine')
  BY <1>2, <1>3, <1>4 DEF Promise!SetCipher
<1> QED BY <1>5, <1>6 DEF Promise!Next

LEMMA StoreStart ==
    ASSUME Flat, Inv, Inv', NEW r \in Requests, NEW c \in Commands,
           NEW b \in [Sectors -> Blocks], StartScsiRequest(r, c, b)
    PROVE  Promise!Next
<1>1. /\ phase[r] # "pending" /\ command'[r] = c
      /\ UNCHANGED <<engine, disk>> /\ moved' = [moved EXCEPT ![r] = {}]
  BY DEF StartScsiRequest, Inv, TypeOK, mountVars
<1>2. Outcome(r) # "pending"
  BY <1>1 DEF Outcome, Inv, TypeOK
<1>3. Outcome(r)' \in {"pending", "failed"}
  BY DEF Outcome, StartScsiRequest, Inv, TypeOK
<1>4. Asked(r)' \in [kind : {"read", "write"}, span : SUBSET Sectors]
  BY <1>1, SpanInDisk DEF Asked, Commands
<1>5. Carried(r)' \in [Sectors -> Contents]
  <2>1. TypeOK' => CarriedTyped'
    BY CarriedContents, PTL
  <2> QED BY <2>1 DEF Inv, CarriedTyped
<1>6. \A q \in Requests \ {r} : /\ command'[q] = command[q] /\ phase'[q] = phase[q]
                                /\ buffer'[q] = buffer[q] /\ moved'[q] = moved[q]
                                /\ result'[q] = result[q]
  BY DEF StartScsiRequest, Inv, TypeOK
<1>7. Promise!Submit(r)
  BY <1>1, <1>2, <1>3, <1>4, <1>5, <1>6, OneRequest
  DEF Promise!Submit, Promise!OnlyFor, Promise!Contents, Contents, Asked
<1> QED BY <1>7 DEF Promise!Next

\* vhdmp's step on a write stores what the guest wrote, and on a read gives what
\* the engine's key makes of the sector.
LEMMA StoreMove ==
    ASSUME Inv, NEW r \in Requests, NEW s \in Sectors, MoveSector(r, s)
    PROVE  Promise!Next
<1>1. /\ phase[r] = "pending" /\ s \in Span(command[r]) \ moved[r] /\ engine' = engine
      /\ UNCHANGED <<command, phase, result>>
      /\ moved' = [moved EXCEPT ![r] = @ \cup {s}]
  BY DEF MoveSector, mountVars
<1>2. Outcome(r) = "pending" /\ \A q \in Requests : Outcome(q)' = Outcome(q) /\ Asked(q)' = Asked(q)
  BY <1>1 DEF Outcome, Asked
<1>3. CASE command[r].kind = "write"
  <2>1. disk' = [disk EXCEPT ![s] = inner[r][s]] /\ buffer' = buffer
    BY <1>3 DEF MoveSector
  <2>2. \A q \in Requests : Carried(q)' = Carried(q)
    <3>1. ASSUME NEW q \in Requests, q # r PROVE Carried(q)' = Carried(q)
      BY <1>1, <2>1, <3>1 DEF Carried, Seen, Inv, TypeOK
    <3>2. Carried(r)' = Carried(r)
      BY <1>1, <1>3, <2>1 DEF Carried
    <3> QED BY <3>1, <3>2
  <2>3. Carried(r)[s] = inner[r][s].data /\ inner[r][s].key = engine
    BY <1>1, <1>3 DEF Inv, RequestInv, WriteInv, Carried, View
  <2>4. [t \in Sectors |-> Stored(t)]' =
          [[t \in Sectors |-> Stored(t)] EXCEPT ![s] = [data |-> Carried(r)[s], cipher |-> engine]]
    BY <2>1, <2>3 DEF Stored, Inv, TypeOK
  <2>5. Promise!Write(r, s)
    BY <1>3, <2>2, <2>4 DEF Promise!Write, Stored
  <2> QED BY <1>1, <1>2, <2>5 DEF Promise!Move, Promise!Next, Asked
<1>4. CASE command[r].kind = "read"
  <2>1. disk' = disk /\ buffer' = [buffer EXCEPT ![r][s] = disk[s]]
    BY <1>4 DEF MoveSector
  <2>2. Carried(r)' = [Carried(r) EXCEPT ![s] = Seen(disk[s])]
    BY <1>1, <1>4, <2>1 DEF Carried, Seen, Inv, TypeOK
  <2>3. [q \in Requests |-> Carried(q)]'
          = [[q \in Requests |-> Carried(q)] EXCEPT ![r] = Carried(r)']
    BY <1>1, <2>1, OneRequest DEF Inv, TypeOK
  <2>4. Promise!Read(r, s)
    BY <1>4, <2>1, <2>2, <2>3 DEF Promise!Read, Promise!Seen, Seen
  <2> QED BY <1>1, <1>2, <2>1, <2>4 DEF Promise!Move, Promise!Next, Asked
<1> QED BY <1>3, <1>4 DEF MoveSector

LEMMA StoreComplete ==
    ASSUME Flat, Inv, NEW r \in Requests, CompleteRead(r) \/ CompleteWrite(r)
    PROVE  Promise!Next
<1>1. PICK status \in {"ok", "raw", "failed"}, b \in {buffer[r], Decrypted(command[r], buffer[r])} :
        /\ Complete(r, status, b)
        /\ status # "failed" => moved[r] = Span(command[r])
        /\ command[r].kind = "write" => b = buffer[r] /\ status # "raw"
        /\ command[r].kind = "read" /\ status = "ok" => b = Decrypted(command[r], buffer[r])
        /\ command[r].kind \in {"read", "write"}
  BY DEF CompleteRead, CompleteWrite
<1>2. /\ phase[r] = "pending" /\ UNCHANGED <<engine, disk, command>>
      /\ moved' = [moved EXCEPT ![r] = {}]
      /\ phase'[r] = "done" /\ result'[r] = status /\ buffer'[r] = b
  BY <1>1 DEF Complete, Inv, TypeOK, mountVars
<1>3. Outcome(r) = "pending" /\ Outcome(r)' = IF status = "ok" THEN "ok" ELSE "failed"
  BY <1>2 DEF Outcome
<1>4. \A q \in Requests : Asked(q)' = Asked(q)
  BY <1>2 DEF Asked
<1>5. Carried(r)' = IF command[r].kind = "write" \/ status = "ok" THEN Carried(r)
                    ELSE [s \in Sectors |-> Blank]
  <2>1. CASE command[r].kind = "write"
    BY <1>1, <1>2, <2>1 DEF Carried
  <2>2. CASE command[r].kind = "read" /\ status # "ok"
    BY <1>2, <2>2 DEF Carried
  <2>3. CASE command[r].kind = "read" /\ status = "ok"
    <3>1. ASSUME NEW s \in Sectors
          PROVE  View(Decrypted(command[r], buffer[r])[s])
                   = IF s \in moved[r] THEN Seen(buffer[r][s]) ELSE Blank
      <4>1. s \in moved[r] <=> s \in Span(command[r])
        BY <1>1, <2>3
      <4>2. Tweak(command[r], s) = s
        BY TweakIsSector DEF Inv, TypeOK
      <4>3. CASE s \notin Span(command[r])
        BY <1>2, <2>3, <4>1, <4>3, PlainBlock
        DEF Inv, RequestInv, ReadInv, Decrypted, View, Contents
      <4>4. CASE s \in Span(command[r]) /\ engine = NoCipher
        BY <4>1, <4>4 DEF Decrypted, View, Seen
      <4>5. CASE s \in Span(command[r]) /\ engine # NoCipher
        <5>1. InPlace(buffer[r][s], s)
          BY <1>2, <2>3, <4>1, <4>5 DEF Inv, RequestInv, ReadInv
        <5>2. Decrypted(command[r], buffer[r])[s] = Plain(Seen(buffer[r][s]))
          BY <4>2, <4>5, <5>1 DEF Decrypted, Decrypt, Seen, InPlace
        <5> QED BY <4>1, <4>5, <5>2 DEF View, Plain
      <4> QED BY <4>3, <4>4, <4>5
    <3> QED BY <1>1, <1>2, <2>3, <3>1 DEF Carried
  <2> QED BY <1>1, <2>1, <2>2, <2>3
<1>6. \A q \in Requests \ {r} : /\ command'[q] = command[q] /\ phase'[q] = phase[q]
                                /\ buffer'[q] = buffer[q] /\ moved'[q] = moved[q]
                                /\ result'[q] = result[q]
  BY <1>1 DEF Complete, Inv, TypeOK
<1>7. /\ [q \in Requests |-> Carried(q)]'
           = [[q \in Requests |-> Carried(q)] EXCEPT ![r] = Carried(r)']
      /\ [q \in Requests |-> Outcome(q)]'
           = [[q \in Requests |-> Outcome(q)] EXCEPT ![r] = Outcome(r)']
  BY <1>2, <1>6, OneRequest
<1>8. Promise!Finish(r)
  BY <1>1, <1>2, <1>3, <1>4, <1>5, <1>7
  DEF Promise!Finish, Promise!OnlyFor, Promise!Nothing, Asked
<1> QED BY <1>8 DEF Promise!Next

LEMMA StoreStep ==
    ASSUME Flat, Inv, Inv', [Next]_vars
    PROVE  [Promise!Next]_(Promise!vars)
<1>1. CASE Mount \/ Dismount
  BY <1>1, StoreMount
<1>2. ASSUME NEW r \in Requests, StartRead(r) \/ StartWrite(r) PROVE Promise!Next
  <2>1. ASSUME NEW c \in Commands, NEW b, StartScsiRequest(r, c, b) PROVE Promise!Next
    <3>1. b \in [Sectors -> Blocks]
      BY <2>1 DEF StartScsiRequest, Inv, TypeOK
    <3> QED BY <2>1, <3>1, StoreStart
  <2> QED BY <1>2, <2>1 DEF StartRead, StartWrite
<1>3. ASSUME NEW r \in Requests, NEW s \in Sectors, MoveSector(r, s) PROVE Promise!Next
  BY <1>3, StoreMove
<1>4. ASSUME NEW r \in Requests, CompleteRead(r) \/ CompleteWrite(r) PROVE Promise!Next
  BY <1>4, StoreComplete
<1>5. CASE UNCHANGED vars
  BY <1>5 DEF vars, mountVars, Promise!vars, Carried, Outcome, Seen
<1> QED BY <1>1, <1>2, <1>3, <1>4, <1>5 DEF Next

\* What was written under a key is what is read under it: the extension
\* implements the store.
THEOREM KeepsStore == ASSUME Flat PROVE Spec => ImplementsStore
<1>1. Inv /\ Inv' /\ [Next]_vars => [Promise!Next]_(Promise!vars)
  BY StoreStep
<1> QED BY <1>1, StoreInit, InvAlways, PTL DEF Spec, Promise!Spec, ImplementsStore

=============================================================================
