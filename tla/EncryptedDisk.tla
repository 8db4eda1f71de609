---------------------------- MODULE EncryptedDisk ----------------------------
(***************************************************************************)
(* The data path of an encrypting extension (Extension.c): which key and   *)
(* which sector number a block is encrypted with on its way to vhdmp, and  *)
(* decrypted with on its way back.                                         *)
(*                                                                         *)
(* A cipher is symbolic: a block remembers the key and the number it was   *)
(* encrypted with, and gives its contents to nobody else.  vhdmp, which is *)
(* not part of the repository, moves the sectors of a request one by one   *)
(* in any order.  The cipher of a disk does not change under a pending     *)
(* request: that is CipherStable of ParserR2.                              *)
(***************************************************************************)
EXTENDS Integers

CONSTANTS
    Requests,       \* SCSI packets of the VSP
    LastSector,     \* of the disk
    CdbLengths,     \* of the READ and WRITE commands the guest uses
    Byte,           \* 2^8
    SectorBlocks,   \* blocks of 512 bytes in a sector
    Data, Keys, NoCipher,
    Blank, Noise    \* contents of a new disk, and of a block under a wrong key

ASSUME DiskAssumption ==
    /\ LastSector \in Nat /\ Byte \in Nat \ {0} /\ SectorBlocks \in Nat \ {0}
    /\ CdbLengths \subseteq {6, 10, 12, 16}
    /\ NoCipher \notin Keys

Sectors == 0..LastSector

VARIABLES
    engine,         \* cipher engine and key of the extension's context
    mounted,
    disk,           \* blocks of the virtual disk
    command,        \* of a request: its CDB, ...
    phase,          \* ... where it is, ...
    buffer, inner,  \* ... the VSP's MDL, the inner MDL of a write, ...
    moved,          \* ... the sectors vhdmp has moved, ...
    result          \* ... what the VSP was told ("raw": a success, see Complete)

mountVars == <<engine, mounted>>
vars == <<mountVars, disk, command, phase, buffer, inner, moved, result>>

Contents == Data \cup {Blank, Noise}
Blocks == [data : Contents, key : Keys \cup {NoCipher}, tweak : Nat]
Plain(d) == [data |-> d, key |-> NoCipher, tweak |-> 0]
Empty == [s \in Sectors |-> Plain(Blank)]

Commands == [kind : {"read", "write"}, length : CdbLengths, first : Sectors, last : Sectors]
NoCommand == [kind |-> "none", length |-> 10, first |-> 1, last |-> 0]
Span(c) == c.first .. c.last

TypeOK ==
    /\ engine \in Keys \cup {NoCipher} /\ mounted \in BOOLEAN
    /\ disk \in [Sectors -> Blocks]
    /\ command \in [Requests -> Commands \cup {NoCommand}]
    /\ phase \in [Requests -> {"idle", "pending", "done"}]
    /\ buffer \in [Requests -> [Sectors -> Blocks]]
    /\ inner \in [Requests -> [Sectors -> Blocks]]
    /\ moved \in [Requests -> SUBSET Sectors]
    /\ result \in [Requests -> {"none", "ok", "raw", "failed"}]

Init ==
    /\ engine = NoCipher /\ mounted = FALSE
    /\ disk = Empty
    /\ command = [r \in Requests |-> NoCommand]
    /\ phase = [r \in Requests |-> "idle"]
    /\ buffer = [r \in Requests |-> Empty] /\ inner = [r \in Requests |-> Empty]
    /\ moved = [r \in Requests |-> {}]
    /\ result = [r \in Requests |-> "none"]

-----------------------------------------------------------------------------
(* The sector number of a block *)

Word == Byte * Byte

\* Bytes 2 to 5 of a CDB, most significant first: the low bytes of the address,
\* the length and the control byte of a command of 6 bytes, the address of one of
\* 10 or 12 bytes, and the high half of the address of one of 16 bytes.
SectorOffset_OneBased(c) == c.first - 1 \* mutant
SectorOffset(c) ==
    CASE c.length = 6 -> (c.first % Word) * Word + (c.last - c.first + 1) * Byte
      [] c.length \in {10, 12} -> c.first
      [] c.length = 16 -> c.first \div (Word * Word)

\* Ext_CryptBlocks counts blocks of 512 bytes from there.
Tweak_Constant(c, s) == SectorOffset(c)        \* mutant: the number is not advanced
Tweak(c, s) == SectorOffset(c) + (s - c.first) * SectorBlocks

-----------------------------------------------------------------------------
(* The cipher *)

Encrypt(key, tweak, block) == [data |-> block.data, key |-> key, tweak |-> tweak]

Decrypt(key, tweak, block) ==
    Plain(IF block.key = key /\ block.tweak = tweak THEN block.data ELSE Noise)

\* Ext_CryptBlocks over the blocks of a command; without a context it does nothing.
Encrypted(c, blocks) ==
    [s \in Sectors |-> IF s \in Span(c) /\ engine # NoCipher
                       THEN Encrypt(engine, Tweak(c, s), blocks[s]) ELSE blocks[s]]

Decrypted_Sent(c, blocks) == blocks     \* mutant: the data goes back as it came
Decrypted(c, blocks) ==
    [s \in Sectors |-> IF s \in Span(c) /\ engine # NoCipher
                       THEN Decrypt(engine, Tweak(c, s), blocks[s]) ELSE blocks[s]]

-----------------------------------------------------------------------------
(* Mount and dismount *)

Pending == {r \in Requests : phase[r] = "pending"}

\* Ext_Mount: a key of the service or of the options, or none
Mount ==
    /\ ~ mounted /\ mounted' = TRUE
    /\ engine' \in Keys \cup {NoCipher}
    /\ UNCHANGED <<disk, command, phase, buffer, inner, moved, result>>

\* Ext_Dismount
Dismount ==
    /\ mounted /\ Pending = {}
    /\ mounted' = FALSE /\ engine' = NoCipher
    /\ UNCHANGED <<disk, command, phase, buffer, inner, moved, result>>

-----------------------------------------------------------------------------
(* Requests *)

\* Ext_StartScsiRequest: a write is encrypted into an inner MDL, a read is left
\* alone.  A write whose buffers cannot be mapped fails and never reaches vhdmp.
StartScsiRequest(r, c, blocks) ==
    /\ mounted /\ phase[r] # "pending" /\ c.first <= c.last
    /\ command' = [command EXCEPT ![r] = c]
    /\ buffer' = [buffer EXCEPT ![r] = blocks]
    /\ moved' = [moved EXCEPT ![r] = {}]
    /\ \/ /\ phase' = [phase EXCEPT ![r] = "pending"]
          /\ inner' = [inner EXCEPT ![r] = IF c.kind = "write" THEN Encrypted(c, blocks)
                                           ELSE Empty]
          /\ result' = [result EXCEPT ![r] = "none"]
       \/ /\ c.kind = "write" /\ engine # NoCipher
          /\ phase' = [phase EXCEPT ![r] = "done"]
          /\ inner' = [inner EXCEPT ![r] = Empty]
          /\ result' = [result EXCEPT ![r] = "failed"]
    /\ UNCHANGED <<mountVars, disk>>

StartRead(r) ==
    \E c \in Commands : c.kind = "read" /\ StartScsiRequest(r, c, Empty)

StartWrite(r) ==
    \E c \in Commands : \E contents \in [Span(c) -> Data] :
        /\ c.kind = "write"
        /\ StartScsiRequest(r, c, [s \in Sectors |-> IF s \in Span(c) THEN Plain(contents[s])
                                                     ELSE Plain(Blank)])

\* vhdmp moves one sector between the packet's MDL and the disk.
MoveSector(r, s) ==
    /\ phase[r] = "pending" /\ s \in Span(command[r]) \ moved[r]
    /\ moved' = [moved EXCEPT ![r] = @ \cup {s}]
    /\ \/ /\ command[r].kind = "write"
          /\ disk' = [disk EXCEPT ![s] = inner[r][s]]
          /\ UNCHANGED buffer
       \/ /\ command[r].kind = "read"
          /\ buffer' = [buffer EXCEPT ![r][s] = disk[s]]
          /\ UNCHANGED disk
    /\ UNCHANGED <<mountVars, command, phase, inner, result>>

\* Ext_CompleteScsiRequest decrypts a successful read in place and drops the inner
\* MDL of a write.  It does not look at the status of Ext_CryptBlocks: a read whose
\* MDL cannot be mapped goes back as it is on the disk, as a success.
Complete(r, status, blocks) ==
    /\ phase[r] = "pending"
    /\ phase' = [phase EXCEPT ![r] = "done"]
    /\ result' = [result EXCEPT ![r] = status]
    /\ buffer' = [buffer EXCEPT ![r] = blocks]
    /\ inner' = [inner EXCEPT ![r] = Empty]
    /\ moved' = [moved EXCEPT ![r] = {}]
    /\ UNCHANGED <<mountVars, disk, command>>

CompleteRead(r) ==
    /\ command[r].kind = "read"
    /\ \/ /\ moved[r] = Span(command[r])
          /\ \/ Complete(r, "ok", Decrypted(command[r], buffer[r]))
             \/ engine # NoCipher /\ Complete(r, "raw", buffer[r])
       \/ Complete(r, "failed", buffer[r])

CompleteWrite(r) ==
    /\ command[r].kind = "write"
    /\ \/ moved[r] = Span(command[r]) /\ Complete(r, "ok", buffer[r])
       \/ Complete(r, "failed", buffer[r])

-----------------------------------------------------------------------------
Next ==
    \/ Mount \/ Dismount
    \/ \E r \in Requests :
        \/ StartRead(r) \/ StartWrite(r)
        \/ \E s \in Sectors : MoveSector(r, s)
        \/ CompleteRead(r) \/ CompleteWrite(r)

Spec == Init /\ [][Next]_vars

-----------------------------------------------------------------------------
(* Properties *)

\* A sector that a pending read has got, and that is under the engine's key, was
\* encrypted with the number the completion decrypts it with, whatever command
\* wrote it (Ext_StartScsiRequest and Ext_CompleteScsiRequest agree).
Decipherable ==
    \A r \in Pending : \A s \in moved[r] :
        command[r].kind = "read" /\ buffer[r][s].key = engine /\ engine # NoCipher
          => buffer[r][s].tweak = Tweak(command[r], s)

\* A block as someone sees who decrypts with the engine's key, and one who does not.
Seen(block) == IF block.key = engine THEN block.data ELSE Noise
View(block) == IF block.key = NoCipher THEN block.data ELSE Noise

\* What a request carries: a read that failed, or could not be decrypted, nothing.
Carried(r) ==
    IF command[r].kind # "read" THEN [s \in Sectors |-> View(buffer[r][s])]
    ELSE IF phase[r] = "pending"
    THEN [s \in Sectors |-> IF s \in moved[r] THEN Seen(buffer[r][s]) ELSE Blank]
    ELSE [s \in Sectors |-> IF result[r] = "ok" THEN View(buffer[r][s]) ELSE Blank]

Outcome(r) ==
    IF phase[r] = "pending" THEN "pending"
    ELSE IF result[r] = "raw" THEN "failed" ELSE result[r]

Promise == INSTANCE BlockStore WITH
    cipher <- engine,
    stored <- [s \in Sectors |-> [data |-> disk[s].data, cipher |-> disk[s].key]],
    asked <- [r \in Requests |-> [kind |-> command[r].kind, span |-> Span(command[r])]],
    carried <- [r \in Requests |-> Carried(r)],
    outcome <- [r \in Requests |-> Outcome(r)]

\* The extension keeps the promise of BlockStore, but for a read that could not be
\* mapped when it completed ("raw"), which the refinement takes for a failure.
ImplementsStore == Promise!Spec
=============================================================================
