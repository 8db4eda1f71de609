----------------------------- MODULE BlockStore -----------------------------
(***************************************************************************)
(* What a filtered disk promises to the guest: a sector that was written   *)
(* under a cipher is read back under that cipher, whatever command reads   *)
(* it, and is noise under any other.  A request moves its sectors one by   *)
(* one in any order, overlapping requests race, and a request that fails   *)
(* may have moved some.                                                    *)
(***************************************************************************)
EXTENDS Naturals

CONSTANTS
    Requests, Sectors,
    Data,               \* contents the guest writes
    Keys, NoCipher,
    Blank, Noise        \* contents it never wrote

VARIABLES
    cipher,             \* the disk is mounted with
    stored,             \* per sector: contents, and the cipher they are under
    asked,              \* per request: read or write, its sectors, ...
    carried,            \* ... the contents it carries, ...
    moved,              \* ... those it has moved, ...
    outcome             \* ... and how it ended

vars == <<cipher, stored, asked, carried, moved, outcome>>

Contents == Data \cup {Blank, Noise}
Nothing == [s \in Sectors |-> Blank]

Init ==
    /\ cipher = NoCipher
    /\ stored = [s \in Sectors |-> [data |-> Blank, cipher |-> NoCipher]]
    /\ asked = [r \in Requests |-> [kind |-> "none", span |-> {}]]
    /\ carried = [r \in Requests |-> Nothing]
    /\ moved = [r \in Requests |-> {}]
    /\ outcome = [r \in Requests |-> "none"]

Seen(block) == IF block.cipher = cipher THEN block.data ELSE Noise

\* The disk gets another cipher between requests.
SetCipher(c) ==
    /\ \A r \in Requests : outcome[r] # "pending"
    /\ cipher' = c
    /\ UNCHANGED <<stored, asked, carried, moved, outcome>>

OnlyFor(r, f, new) == f' = [f EXCEPT ![r] = new]

\* A request begins, or is refused.
Submit(r) ==
    /\ outcome[r] # "pending"
    /\ asked'[r] \in [kind : {"read", "write"}, span : SUBSET Sectors]
    /\ carried'[r] \in [Sectors -> Contents]
    /\ outcome'[r] \in {"pending", "failed"}
    /\ OnlyFor(r, asked, asked'[r]) /\ OnlyFor(r, carried, carried'[r])
    /\ OnlyFor(r, outcome, outcome'[r]) /\ OnlyFor(r, moved, {})
    /\ UNCHANGED <<cipher, stored>>

Write(r, s) ==
    /\ asked[r].kind = "write"
    /\ stored' = [stored EXCEPT ![s] = [data |-> carried[r][s], cipher |-> cipher]]
    /\ UNCHANGED carried

Read(r, s) ==
    /\ asked[r].kind = "read"
    /\ carried' = [carried EXCEPT ![r][s] = Seen(stored[s])]
    /\ UNCHANGED stored

Move(r, s) ==
    /\ outcome[r] = "pending" /\ s \in asked[r].span \ moved[r]
    /\ Write(r, s) \/ Read(r, s)
    /\ moved' = [moved EXCEPT ![r] = @ \cup {s}]
    /\ UNCHANGED <<cipher, asked, outcome>>

\* A success has moved everything; a read that fails carries nothing.
Finish(r) ==
    /\ outcome[r] = "pending"
    /\ \/ /\ moved[r] = asked[r].span
          /\ OnlyFor(r, outcome, "ok")
          /\ UNCHANGED carried
       \/ /\ OnlyFor(r, outcome, "failed")
          /\ IF asked[r].kind = "read" THEN OnlyFor(r, carried, Nothing) ELSE UNCHANGED carried
    /\ OnlyFor(r, moved, {})
    /\ UNCHANGED <<cipher, stored, asked>>

Next ==
    \/ \E c \in Keys \cup {NoCipher} : SetCipher(c)
    \/ \E r \in Requests : Submit(r) \/ (\E s \in Sectors : Move(r, s)) \/ Finish(r)

Spec == Init /\ [][Next]_vars
=============================================================================
