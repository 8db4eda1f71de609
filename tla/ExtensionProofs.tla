-------------------------- MODULE ExtensionProofs --------------------------
(***************************************************************************)
(* What the operations of the encrypting extension do to its cipher and to *)
(* a packet, for any packets, pool memory and ciphers: the lemmas that the *)
(* proofs about the 2012 and the 2012 R2 parser share.                     *)
(***************************************************************************)
EXTENDS Extension, TLAPS

CipherType ==
    /\ extension \in BOOLEAN
    /\ engine \in Algorithms \cup {Null} /\ store \in Algorithms \cup {Null}
    /\ context \in Contexts \cup {Null} /\ live \subseteq Contexts

PacketType ==
    /\ state \in [Packets -> {"idle", "pending", "decrypting", "done"}]
    /\ op \in [Packets -> Operations]
    /\ mdl \in [Packets -> {"own", "inner"}]
    /\ inner \in [Packets -> {"none", "live", "hollow"}]
    /\ result \in [Packets -> {"none", "ok", "failed"}]

\* A packet at vhdmp has an inner MDL exactly if Ext_CompleteScsiRequest will free its
\* pages; one that is decrypted is a read.
PacketInOrder(p) ==
    /\ p \in Pending => /\ mdl[p] = "inner" <=> Encrypts(op[p])
                        /\ mdl[p] = "inner" <=> inner[p] = "live"
    /\ p \notin Pending => inner[p] # "live"
    /\ state[p] = "decrypting" => op[p] = "read"
    /\ state[p] = "done" /\ result[p] = "ok" => mdl[p] = "own"

LEMMA ExtTypes == ExtTypeOK <=> CipherType /\ PacketType
BY DEF ExtTypeOK, CipherType, PacketType

-----------------------------------------------------------------------------
(* The arithmetic of a ULONG32 *)

\* A sum below its modulus is the sum, and one that is not is smaller than each term.
LEMMA SumWithoutWrap ==
    ASSUME NEW m \in Nat, NEW a \in 0..(m - 1), NEW b \in 0..(m - 1), ~ ((a + b) % m < a)
    PROVE  (a + b) % m = a + b
<1>1. CASE a + b < m
  BY <1>1
<1>2. CASE a + b >= m
  <2>1. (a + b) % m = a + b - m
    BY <1>2
  <2> QED BY <2>1
<1> QED BY <1>1, <1>2

-----------------------------------------------------------------------------
(* Ciphers *)

\* An extension that owns a cipher without an engine has no context at all.
LEMMA NoEngine == ASSUME ContextOwned, engine = Null PROVE context = Null /\ live = {}
BY DEF ContextOwned

LEMMA CreateInv ==
    ASSUME CipherType, NEW algorithm, NEW status, CipherCreate(algorithm, status)
    PROVE  /\ engine' \in Algorithms \cup {Null} /\ context' \in Contexts \cup {Null}
           /\ live' \subseteq Contexts
           /\ engine # Null => engine' # Null
           /\ ContextAlive => ContextAlive'
           /\ ContextOwned /\ engine = Null => ContextOwned'
<1> USE ExtensionAssumption DEF CipherType, ContextAlive, ContextOwned
<1>1. CASE UNCHANGED cipherVars
  BY <1>1 DEF cipherVars
<1>2. CASE /\ algorithm \in Algorithms /\ engine' = algorithm
           /\ \E c \in Contexts \ live : live' = live \cup {c} /\ context' = c
  BY <1>2
<1> QED BY <1>1, <1>2 DEF CipherCreate

\* Ext_Mount, whatever the service answers: it never takes a cipher away.
LEMMA MountInv ==
    ASSUME CipherType, NEW status, ExtMount(status)
    PROVE  /\ engine' \in Algorithms \cup {Null} /\ context' \in Contexts \cup {Null}
           /\ live' \subseteq Contexts
           /\ engine # Null => engine' # Null
           /\ ContextAlive => ContextAlive'
           /\ ContextOwned /\ engine = Null => ContextOwned'
<1>1. CASE UNCHANGED cipherVars
  BY <1>1 DEF cipherVars, CipherType, ContextAlive, ContextOwned
<1>2. CASE \E algorithm \in Algorithms \cup {Null} : CipherCreate(algorithm, status)
  BY <1>2, CreateInv
<1>3. CASE \E created \in {"ok", "failed"} : CipherCreate(store, created)
  BY <1>3, CreateInv
<1> QED BY <1>1, <1>2, <1>3 DEF ExtMount

\* The three steps of Ext_Dismount, and what holds between them.
Destroyed ==
    /\ live = {} /\ (engine = Null => context = Null)

Forgotten == live = {} /\ context = Null

LEMMA DismountInv ==
    ASSUME CipherType, ExtDestroy \/ ExtForgetContext \/ ExtForgetEngine
    PROVE  /\ engine' \in Algorithms \cup {Null} /\ context' \in Contexts \cup {Null}
           /\ live' \subseteq Contexts
           /\ ExtDestroy /\ ContextOwned => Destroyed'
           /\ ExtForgetContext /\ Destroyed => Forgotten'
           /\ ExtForgetEngine => engine' = Null /\ ContextAlive'
           /\ ExtForgetEngine /\ Forgotten => ContextOwned'
<1>1. /\ engine' \in Algorithms \cup {Null} /\ context' \in Contexts \cup {Null}
      /\ live' \subseteq Contexts
  BY DEF CipherType, ExtDestroy, ExtForgetContext, ExtForgetEngine
<1>2. ASSUME ExtDestroy, ContextOwned PROVE Destroyed'
  BY <1>2 DEF ExtDestroy, ContextOwned, Destroyed
<1>3. ASSUME ExtForgetContext, Destroyed PROVE Forgotten'
  BY <1>3 DEF ExtForgetContext, Destroyed, Forgotten
<1>4. ASSUME ExtForgetEngine PROVE engine' = Null /\ ContextAlive'
  BY <1>4 DEF ExtForgetEngine, ContextAlive
<1>5. ASSUME ExtForgetEngine, Forgotten PROVE ContextOwned'
  BY <1>5 DEF ExtForgetEngine, ContextOwned, Forgotten
<1> QED BY <1>1, <1>2, <1>3, <1>4, <1>5

-----------------------------------------------------------------------------
(* Packets *)

\* Packets stay in order while nothing happens to them, whatever becomes of the cipher
\* if vhdmp has none of them.
LEMMA InOrderKept ==
    ASSUME NEW p \in Packets, PacketInOrder(p), UNCHANGED packetVars,
           UNCHANGED <<extension, engine>> \/ Pending = {}
    PROVE  PacketInOrder(p)'
BY DEF PacketInOrder, packetVars, Pending, Encrypts

\* The parser's callback touches one packet, and frees the VSP's own MDL only if the
\* extension would free an inner one that is not there.
LEMMA PostProcessed ==
    ASSUME PacketType, NEW p \in Packets, NEW o \in Operations, NEW m \in {"own", "inner"},
           NEW i \in {"none", "live", "hollow"}, NEW status \in {"ok", "failed"},
           PostProcess(p, o, m, i, status)
    PROVE  /\ PacketType'
           /\ state'[p] = "done" /\ op'[p] = o /\ result'[p] = status
           /\ \/ ~ FreesInner(o) /\ mdl'[p] = m /\ inner'[p] = i /\ fault' = fault
              \/ /\ FreesInner(o) /\ m = "inner" /\ mdl'[p] = Restored(status)
                 /\ inner'[p] = "hollow" /\ fault' = fault
              \/ /\ FreesInner(o) /\ m = "own" /\ fault' = "freed_source"
                 /\ UNCHANGED <<mdl, inner>>
           /\ \A q \in Packets \ {p} :
                 UNCHANGED <<state[q], op[q], mdl[q], inner[q], result[q]>>
<1> USE DEF PacketType, PostProcess
<1>1. /\ state' \in [Packets -> {"idle", "pending", "decrypting", "done"}] /\ state'[p] = "done"
      /\ op' \in [Packets -> Operations] /\ op'[p] = o
      /\ result' \in [Packets -> {"none", "ok", "failed"}] /\ result'[p] = status
      /\ \A q \in Packets \ {p} : UNCHANGED <<state[q], op[q], result[q]>>
  OBVIOUS
<1>2. CASE ~ FreesInner(o)
  BY <1>1, <1>2
<1>3. CASE FreesInner(o) /\ m = "inner"
  BY <1>1, <1>3 DEF Restored
<1>4. CASE FreesInner(o) /\ m = "own"
  BY <1>1, <1>4
<1> QED BY <1>2, <1>3, <1>4

\* The callback of vhdmp touches one packet, and leaves it in order if it was, unless it
\* finds the extension freed.
LEMMA Completion ==
    ASSUME PacketType, NEW p \in Packets, NEW status \in {"ok", "failed"},
           NEW deleted \in BOOLEAN, state[p] = "pending", Complete(p, status, deleted),
           UNCHANGED <<extension, engine>>
    PROVE  /\ PacketType'
           /\ \A q \in Packets \ {p} :
                 UNCHANGED <<state[q], op[q], mdl[q], inner[q], result[q]>>
           /\ \/ extension /\ deleted /\ fault' = "freed_extension" /\ UNCHANGED packetVars
              \/ /\ state'[p] = "decrypting" /\ op[p] = "read" /\ extension /\ engine # Null
                 /\ UNCHANGED <<op[p], mdl[p], inner[p], result[p], fault>>
              \/ /\ state'[p] = "done"
                 /\ \/ ~ FreesInner(op[p]) /\ inner'[p] = inner[p] /\ fault' = fault
                    \/ inner'[p] = "hollow" /\ fault' = fault
                    \/ /\ FreesInner(op[p]) /\ mdl[p] = "own" /\ fault' = "freed_source"
                       /\ UNCHANGED inner
           /\ PacketInOrder(p) =>
                 \/ PacketInOrder(p)' /\ fault' = fault
                 \/ extension /\ deleted /\ fault' = "freed_extension"
<1> DEFINE Rest == \A q \in Packets \ {p} :
                      UNCHANGED <<state[q], op[q], mdl[q], inner[q], result[q]>>
<1>1. CASE extension /\ deleted /\ fault' = "freed_extension" /\ UNCHANGED packetVars
  BY <1>1 DEF PacketType, packetVars
<1>2. CASE /\ Decrypts(op[p], status) /\ state' = [state EXCEPT ![p] = "decrypting"]
           /\ UNCHANGED <<op, mdl, inner, result, fault>>
  <2>1. PacketType' /\ Rest /\ state'[p] = "decrypting"
    BY <1>2 DEF PacketType
  <2>2. op[p] = "read" /\ extension /\ engine # Null
    BY <1>2 DEF Decrypts
  <2>3. PacketInOrder(p) => PacketInOrder(p)'
    BY <1>2, <2>1, <2>2 DEF PacketInOrder, Pending, Encrypts
  <2> QED BY <1>2, <2>1, <2>2, <2>3
<1>3. CASE PostProcess(p, op[p], mdl[p], inner[p], status)
  <2>1. /\ op[p] \in Operations /\ mdl[p] \in {"own", "inner"}
        /\ inner[p] \in {"none", "live", "hollow"}
    BY DEF PacketType
  <2>2. /\ PacketType' /\ state'[p] = "done" /\ result'[p] = status /\ Rest
        /\ \/ ~ FreesInner(op[p]) /\ mdl'[p] = mdl[p] /\ inner'[p] = inner[p] /\ fault' = fault
           \/ /\ FreesInner(op[p]) /\ mdl[p] = "inner" /\ mdl'[p] = Restored(status)
              /\ inner'[p] = "hollow" /\ fault' = fault
           \/ /\ FreesInner(op[p]) /\ mdl[p] = "own" /\ fault' = "freed_source"
              /\ UNCHANGED <<mdl, inner>>
    BY <1>3, <2>1, PostProcessed
  <2>3. ASSUME PacketInOrder(p) PROVE PacketInOrder(p)' /\ fault' = fault
    <3>1. /\ FreesInner(op[p]) <=> mdl[p] = "inner"
          /\ mdl[p] = "own" => inner[p] # "live"
      BY <2>1, <2>3 DEF PacketInOrder, Pending, Encrypts, FreesInner
    <3>2. fault' = fault
      BY <2>2, <3>1
    <3>3. p \notin Pending'
      BY <2>2 DEF Pending
    <3>4. inner'[p] # "live"
      BY <2>1, <2>2, <3>1
    <3>5. result'[p] = "ok" => mdl'[p] = "own"
      BY <2>1, <2>2, <3>1 DEF Restored
    <3> QED BY <2>2, <3>2, <3>3, <3>4, <3>5 DEF PacketInOrder
  <2> QED BY <2>2, <2>3
<1> QED BY <1>1, <1>2, <1>3 DEF Complete

\* A read is decrypted with a cipher that is there, or the step faults.
LEMMA Decryption ==
    ASSUME PacketType, NEW p \in Packets, NEW deleted \in BOOLEAN,
           state[p] = "decrypting", Decrypt(p, deleted), UNCHANGED <<extension, engine>>
    PROVE  /\ PacketType'
           /\ \A q \in Packets \ {p} :
                 UNCHANGED <<state[q], op[q], mdl[q], inner[q], result[q]>>
           /\ \/ /\ ~ extension \/ deleted
                 /\ fault' = "freed_extension" /\ UNCHANGED packetVars
              \/ /\ engine = Null \/ context \notin live
                 /\ fault' = "lost_cipher" /\ UNCHANGED packetVars
              \/ /\ state'[p] = "done" /\ UNCHANGED <<op[p], mdl[p], inner[p], fault>>
                 /\ PacketInOrder(p) => PacketInOrder(p)'
<1>1. CASE UNCHANGED packetVars
  BY <1>1 DEF Decrypt, PacketType, packetVars
<1>2. CASE /\ state' = [state EXCEPT ![p] = "done"] /\ result' = [result EXCEPT ![p] = "ok"]
           /\ UNCHANGED <<op, mdl, inner, fault>>
  <2>1. /\ PacketType' /\ state'[p] = "done"
        /\ \A q \in Packets \ {p} :
              UNCHANGED <<state[q], op[q], mdl[q], inner[q], result[q]>>
    BY <1>2 DEF PacketType
  <2>2. ASSUME PacketInOrder(p) PROVE PacketInOrder(p)'
    <3>1. mdl[p] = "own" /\ inner[p] # "live"
      BY <2>2 DEF PacketInOrder, Pending, Encrypts, PacketType
    <3> QED BY <1>2, <2>1, <3>1 DEF PacketInOrder, Pending
  <2> QED BY <1>2, <2>1, <2>2
<1> QED BY <1>1, <1>2 DEF Decrypt

\* The execute routines of the parsers start one packet, in order, or call a routine
\* that they do not have.
LEMMA Started ==
    ASSUME PacketType, NEW routine \in BOOLEAN, NEW p \in Packets, NEW o \in Operations,
           StartPacket(routine, p, o), UNCHANGED <<extension, engine>>
    PROVE  /\ PacketType'
           /\ \A q \in Packets \ {p} :
                 UNCHANGED <<state[q], op[q], mdl[q], inner[q], result[q]>>
           /\ \/ PacketInOrder(p)' /\ state'[p] \in {"pending", "done"} /\ fault' = fault
              \/ ~ routine /\ fault' = "null_call" /\ UNCHANGED packetVars
           /\ state'[p] = "pending" => routine \/ state[p] = "pending"
           /\ state'[p] = "decrypting" => state[p] = "decrypting"
<1> DEFINE Rest == \A q \in Packets \ {p} :
                      UNCHANGED <<state[q], op[q], mdl[q], inner[q], result[q]>>
           InOrder == PacketType' /\ PacketInOrder(p)' /\ Rest /\ fault' = fault
<1>1. ASSUME NEW m \in {"own", "inner"}, NEW i \in {"none", "live"},
             NEW status \in {"ok", "failed"}, PostProcess(p, o, m, i, status),
             m = "inner" <=> Encrypts(o), m = "inner" <=> i = "live"
      PROVE  InOrder /\ state'[p] = "done"
  <2>1. FreesInner(o) <=> m = "inner"
    BY <1>1 DEF Encrypts, FreesInner
  <2>2. /\ PacketType' /\ state'[p] = "done" /\ result'[p] = status /\ Rest /\ fault' = fault
        /\ \/ m = "own" /\ mdl'[p] = "own" /\ inner'[p] = i
           \/ mdl'[p] = Restored(status) /\ inner'[p] = "hollow"
    BY <1>1, <2>1, PostProcessed
  <2> QED BY <1>1, <2>2 DEF PacketInOrder, Pending, Restored
<1>2. ASSUME NEW m \in {"own", "inner"}, NEW i \in {"none", "live"}, StartIo(routine, p, o, m, i),
             m = "inner" <=> Encrypts(o), m = "inner" <=> i = "live"
      PROVE  \/ InOrder /\ state'[p] = "pending" /\ routine
             \/ InOrder /\ state'[p] = "done"
             \/ ~ routine /\ fault' = "null_call" /\ UNCHANGED packetVars
  <2>1. CASE \E status \in {"ok", "failed"} : PostProcess(p, o, m, i, status)
    BY <1>1, <1>2, <2>1
  <2>2. CASE ~ routine /\ fault' = "null_call" /\ UNCHANGED packetVars
    BY <2>2
  <2>3. CASE /\ routine
             /\ state' = [state EXCEPT ![p] = "pending"] /\ op' = [op EXCEPT ![p] = o]
             /\ mdl' = [mdl EXCEPT ![p] = m] /\ inner' = [inner EXCEPT ![p] = i]
             /\ result' = [result EXCEPT ![p] = "none"] /\ UNCHANGED fault
    <3>1. PacketType' /\ Rest
      BY <2>3 DEF PacketType
    <3>2. state'[p] = "pending" /\ op'[p] = o /\ mdl'[p] = m /\ inner'[p] = i
      BY <2>3 DEF PacketType
    <3>3. PacketInOrder(p)'
      BY <1>2, <3>2 DEF PacketInOrder, Pending, Encrypts
    <3> QED BY <2>3, <3>1, <3>2, <3>3
  <2> QED BY <1>2, <2>1, <2>2, <2>3 DEF StartIo
<1>3. \/ InOrder /\ state'[p] = "pending" /\ routine
      \/ InOrder /\ state'[p] = "done"
      \/ ~ routine /\ fault' = "null_call" /\ UNCHANGED packetVars
  <2>1. CASE ~ Encrypts(o) /\ StartIo(routine, p, o, "own", "none")
    BY <1>2, <2>1
  <2>2. CASE Encrypts(o) /\ StartIo(routine, p, o, "inner", "live")
    BY <1>2, <2>2
  <2>3. CASE Encrypts(o) /\ PostProcess(p, o, "inner", "live", "failed")
    BY <1>1, <2>3
  <2>4. CASE o = "other" /\ PostProcess(p, o, "own", "none", "failed")
    BY <1>1, <2>4 DEF Encrypts
  <2> QED BY <2>1, <2>2, <2>3, <2>4 DEF StartPacket
<1> QED BY <1>3 DEF packetVars, PacketType
=============================================================================
