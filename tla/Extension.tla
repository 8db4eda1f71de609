----------------------------- MODULE Extension ------------------------------
(***************************************************************************)
(* The encrypting extension of an open disk (Extension.c) with the cipher  *)
(* options set for it (cipher.c), and the SCSI packets whose MDL the       *)
(* extension replaces.  The 2012 and the 2012 R2 parser extend this module *)
(* with the control calls that create, mount, dismount and delete it.      *)
(***************************************************************************)
EXTENDS Naturals, FiniteSets

CONSTANTS
    Packets,        \* SCSI packets of the VSP
    Contexts,       \* pool memory for cipher contexts
    Algorithms,     \* ciphers CipherCreate knows
    Null

ASSUME ExtensionAssumption == Null \notin Algorithms \cup Contexts

VARIABLES
    extension,      \* pExtension of the parser is set
    engine, context,\* pCipherEngine and pCipherContext of the extension
    live,           \* cipher contexts that are allocated
    store,          \* g_pCipherOptsHead: the algorithm set for this disk
    state, op, mdl, inner, result,      \* of a packet: ...
                    \* ... a "hollow" inner MDL has lost its pages and stays in the pool
    fault           \* undefined behaviour a step has run into

cipherVars == <<engine, context, live>>
packetVars == <<state, op, mdl, inner, result>>

Operations == {"read", "write", "other"}

ExtTypeOK ==
    /\ extension \in BOOLEAN
    /\ engine \in Algorithms \cup {Null} /\ store \in Algorithms \cup {Null}
    /\ context \in Contexts \cup {Null} /\ live \in SUBSET Contexts
    /\ state \in [Packets -> {"idle", "pending", "decrypting", "done"}]
    /\ op \in [Packets -> Operations]
    /\ mdl \in [Packets -> {"own", "inner"}]
    /\ inner \in [Packets -> {"none", "live", "hollow"}]
    /\ result \in [Packets -> {"none", "ok", "failed"}]

ExtInit ==
    /\ extension = FALSE
    /\ engine = Null /\ context = Null /\ live = {} /\ store = Null
    /\ state = [p \in Packets |-> "idle"]
    /\ op = [p \in Packets |-> "other"]
    /\ mdl = [p \in Packets |-> "own"]
    /\ inner = [p \in Packets |-> "none"]
    /\ result = [p \in Packets |-> "none"]
    /\ fault = "none"

Running == fault = "none"
\* What vhdmp has: a packet it holds, or one whose callback has not returned.
Pending == {p \in Packets : state[p] \in {"pending", "decrypting"}}

-----------------------------------------------------------------------------
(* Ciphers *)

\* CipherCreate sets the engine and context of the extension only if the engine
\* creates a context; an algorithm it does not know is a success.
CipherCreate(algorithm, status) ==
    \/ /\ algorithm \notin Algorithms /\ status = "ok"
       /\ UNCHANGED cipherVars
    \/ /\ algorithm \in Algorithms /\ status = "failed"
       /\ UNCHANGED cipherVars
    \/ /\ algorithm \in Algorithms /\ status = "ok"
       /\ \E c \in Contexts \ live : live' = live \cup {c} /\ context' = c
       /\ engine' = algorithm

\* Ext_Mount: the service's response (or, after a timeout, whatever the stack
\* held) names an algorithm or has another type; without a service the options
\* set for the disk are used, and CipherEngineGet drops the status.
ExtMount(status) ==
    \/ \E algorithm \in Algorithms \cup {Null} : CipherCreate(algorithm, status)
    \/ status = "failed" /\ UNCHANGED cipherVars
    \/ status = "ok" /\ \E created \in {"ok", "failed"} : CipherCreate(store, created)

\* Ext_Dismount of an extension with an engine: the context is destroyed, then
\* forgotten, and then the engine; no lock is held, so callbacks run in between.
ExtDestroy_Leaks == UNCHANGED cipherVars        \* mutant
ExtDestroy ==
    /\ live' = IF engine = Null THEN live ELSE live \ {context}
    /\ UNCHANGED <<engine, context>>

ExtForgetContext ==
    /\ context' = IF engine = Null THEN context ELSE Null
    /\ UNCHANGED <<engine, live>>

ExtForgetEngine == engine' = Null /\ UNCHANGED <<context, live>>

-----------------------------------------------------------------------------
(* Packets *)

\* Ext_StartScsiRequest gives a write an inner MDL.
Encrypts(o) == extension /\ engine # Null /\ o = "write"

\* The parser puts the VSP's own MDL back only after a success.
Restored_NextCleared(status) == IF status = "ok" THEN "none" ELSE "inner"   \* mutant
Restored(status) == IF status = "ok" THEN "own" ELSE "inner"

\* Ext_CompleteScsiRequest has the inner MDL of a write freed.
FreesInner_Never(o) == FALSE            \* mutant
FreesInner(o) == extension /\ engine # Null /\ o = "write"

\* The packet goes back to the VSP.  m and i are its MDL and its inner MDL now:
\* Ext_FreeInnerMdl frees the pages of the inner MDL, never the MDL itself.
PostProcess(p, o, m, i, status) ==
    /\ state' = [state EXCEPT ![p] = "done"]
    /\ op' = [op EXCEPT ![p] = o]
    /\ result' = [result EXCEPT ![p] = status]
    /\ \/ /\ ~ FreesInner(o)
          /\ mdl' = [mdl EXCEPT ![p] = m]
          /\ inner' = [inner EXCEPT ![p] = i]
          /\ UNCHANGED fault
       \/ /\ FreesInner(o) /\ m = "inner"
          /\ mdl' = [mdl EXCEPT ![p] = Restored(status)]
          /\ inner' = [inner EXCEPT ![p] = "hollow"]
          /\ UNCHANGED fault
       \/ /\ FreesInner(o) /\ m = "own"       \* the VSP's pages are freed as if they were inner
          /\ fault' = "freed_source"
          /\ UNCHANGED <<mdl, inner>>

\* Ext_CompleteScsiRequest has a successful read decrypted if there is a cipher.
Decrypts(o, status) ==
    extension /\ o = "read" /\ status = "ok" /\ engine # Null /\ context # Null

\* The callback of vhdmp, up to the pass over the sectors of an encrypted read.
\* deleted: the extension is freed and its pointer still set.
Complete(p, status, deleted) ==
    \/ /\ extension /\ deleted
       /\ fault' = "freed_extension"
       /\ UNCHANGED packetVars
    \/ /\ ~ (extension /\ deleted) /\ Decrypts(op[p], status)
       /\ state' = [state EXCEPT ![p] = "decrypting"]
       /\ UNCHANGED <<op, mdl, inner, result, fault>>
    \/ /\ ~ (extension /\ deleted) /\ ~ Decrypts(op[p], status)
       /\ PostProcess(p, op[p], mdl[p], inner[p], status)

\* Ext_CryptBlocks of a read, after its look at the context: each sector takes the
\* engine and the context anew.
Decrypt(p, deleted) ==
    \/ /\ ~ extension \/ deleted
       /\ fault' = "freed_extension"
       /\ UNCHANGED packetVars
    \/ /\ extension /\ ~ deleted
       /\ engine = Null \/ context \notin live
       /\ fault' = "lost_cipher"
       /\ UNCHANGED packetVars
    \/ /\ extension /\ ~ deleted
       /\ engine # Null /\ context \in live
       /\ state' = [state EXCEPT ![p] = "done"]
       /\ result' = [result EXCEPT ![p] = "ok"]
       /\ UNCHANGED <<op, mdl, inner, fault>>

\* pfnStartIo, if the parser has the routine: vhdmp keeps the packet, or finishes
\* it at once.
StartIo(routine, p, o, m, i) ==
    \/ /\ routine
       /\ state' = [state EXCEPT ![p] = "pending"]
       /\ op' = [op EXCEPT ![p] = o]
       /\ mdl' = [mdl EXCEPT ![p] = m]
       /\ inner' = [inner EXCEPT ![p] = i]
       /\ result' = [result EXCEPT ![p] = "none"]
       /\ UNCHANGED fault
    \/ /\ routine
       /\ \E status \in {"ok", "failed"} : PostProcess(p, o, m, i, status)
    \/ /\ ~ routine
       /\ fault' = "null_call"
       /\ UNCHANGED packetVars

\* What the execute routines of both parsers do with a packet of the VSP.
StartPacket(routine, p, o) ==
    \/ ~ Encrypts(o) /\ StartIo(routine, p, o, "own", "none")
    \/ Encrypts(o) /\ StartIo(routine, p, o, "inner", "live")
    \/ Encrypts(o) /\ PostProcess(p, o, "inner", "live", "failed")  \* encryption failed
    \/ o = "other" /\ PostProcess(p, o, "own", "none", "failed")    \* no system address

\* Ext_AllocateInnerMdl writes through the MDL it failed to allocate; or the MDL has
\* fewer pages than asked for, and Ext_CryptBlocks writes beyond them.
NoMemory == Encrypts("write") /\ fault' \in {"null_mdl", "short_mdl"}

-----------------------------------------------------------------------------
(* Properties of any parser with an extension *)

\* Ext_Mount and Ext_Dismount: the extension owns every cipher context there is,
\* and has an engine exactly when it has a context.
ContextOwned ==
    /\ engine = Null <=> context = Null
    /\ live = {context} \ {Null}

\* The context that packets are encrypted with is allocated.
ContextAlive == engine # Null => context \in live

\* A write that vhdmp holds is encrypted in an inner MDL that still has its pages; the
\* inner MDL of a packet that is back at the VSP has none (the MDL itself is never
\* freed), and after a success the packet has the VSP's own MDL again.
PacketDiscipline ==
    \A p \in Packets :
        /\ p \in Pending => (mdl[p] = "inner" <=> inner[p] = "live")
        /\ state[p] = "done" => inner[p] # "live"
        /\ state[p] = "done" /\ result[p] = "ok" => mdl[p] = "own"
=============================================================================
