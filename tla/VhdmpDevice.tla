---------------------------- MODULE VhdmpDevice -----------------------------
(***************************************************************************)
(* OpenVhdmpDevice and its helpers (Vdrvroot.c): the path of the shim      *)
(* device is found, the disk is created under it and, when the VSP wants   *)
(* no differencing disk (OpenFlags & 0x40, the 2016 build only), closed    *)
(* and created again until vhdmp says that it is none.  A parser extends   *)
(* this module and makes the steps part of its EVhdOpenDisk.               *)
(*                                                                         *)
(* Path names and extended attributes are left out.                        *)
(***************************************************************************)

VARIABLES
    dev,            \* the next step of OpenVhdmpDevice
    temps,          \* what it has acquired and not given back
    named,          \* its local variables that are not NULL
    settled,        \* OpenFlags & 0x40
    fault           \* undefined behaviour a step has run into

devVars == <<dev, temps, named, settled>>

Temps == {"links", "enumerator", "path", "handle", "object"}

DevTypeOK ==
    /\ dev \in {"idle", "links", "enumerator", "query", "path", "found", "lost", "create", "ask",
                "close", "reopen", "reference", "failed", "opened"}
    /\ temps \in SUBSET Temps /\ named \in SUBSET Temps /\ settled \in BOOLEAN

DevInit == dev = "idle" /\ temps = {} /\ named = {} /\ settled = FALSE

-----------------------------------------------------------------------------
(* What a step does to the local variables *)

Takes(thing) == temps' = temps \cup {thing} /\ named' = named \cup {thing}

\* Each of the things whose variable is not NULL is freed, closed or dereferenced.
\* A variable is not cleared.
Releases(things) ==
    /\ temps' = temps \ (things \cap named)
    /\ fault' = IF things \cap named \subseteq temps THEN fault ELSE "closed_twice"
    /\ UNCHANGED named

\* A call that acquires something, or fails.
Call(from, thing, to, otherwise) ==
    /\ dev = from
    /\ \/ dev' = to /\ Takes(thing)
       \/ dev' = otherwise /\ UNCHANGED <<temps, named>>
    /\ UNCHANGED <<settled, fault>>

-----------------------------------------------------------------------------
(* FindShimDevice *)

StartOpen(flag) ==
    /\ dev = "idle" /\ dev' = "links"
    /\ settled' = flag /\ temps' = {} /\ named' = {}

\* IoGetDeviceInterfaces, IoGetDeviceObjectPointer, IOCTL_STORAGE_VHD_FIND_SHIM,
\* and the path (too long, or no memory).
FindShimDevice_PathFirst ==             \* mutant: the path is allocated before the query
    \/ Call("links", "links", "enumerator", "lost")
    \/ Call("enumerator", "enumerator", "path", "lost")
    \/ Call("path", "path", "query", "lost")
    \/ dev = "query" /\ dev' \in {"found", "lost"} /\ UNCHANGED <<temps, named, settled, fault>>
FindShimDevice ==
    \/ Call("links", "links", "enumerator", "lost")
    \/ Call("enumerator", "enumerator", "query", "lost")
    \/ dev = "query" /\ dev' \in {"path", "lost"} /\ UNCHANGED <<temps, named, settled, fault>>
    \/ Call("path", "path", "found", "lost")

\* Both ways out release the list of links and the enumerator, a failure also the
\* path, whose variable its caller looks at once more.
ShimTemps == {"links", "enumerator"}

FoundShimDevice ==
    \/ dev = "found" /\ dev' = "create" /\ Releases(ShimTemps) /\ UNCHANGED settled
    \/ dev = "lost" /\ dev' = "failed" /\ Releases(ShimTemps \cup {"path"}) /\ UNCHANGED settled

-----------------------------------------------------------------------------
(* OpenVhdmpDevice *)

CreateFile == Call("create", "handle", IF settled THEN "ask" ELSE "reference", "failed")

\* GetIsDifferencing: what the loop does when it fails; its own reference to the
\* file object is released on each path.
Unknown_CreatedAgain == "reopen"        \* mutant
Unknown == "failed"

AskIfDifferencing ==
    /\ dev = "ask"
    /\ dev' \in {"close", "reference", Unknown}
    /\ UNCHANGED <<temps, named, settled, fault>>

\* A differencing disk is closed; ZwClose may fail, and then has closed nothing.
CloseDifferencing ==
    /\ dev = "close"
    /\ \/ dev' = "reopen" /\ Releases({"handle"})
       \/ dev' = "failed" /\ UNCHANGED <<temps, named, fault>>
    /\ UNCHANGED settled

Reopen == Call("reopen", "handle", "ask", "failed")

ReferenceObject == Call("reference", "object", "opened", "failed")

OpenStep ==
    \/ FindShimDevice \/ FoundShimDevice
    \/ CreateFile \/ AskIfDifferencing \/ CloseDifferencing \/ Reopen \/ ReferenceObject

\* The failure path closes the handle if the variable is set; the path is freed
\* on both ways out.
OpenFails ==
    /\ dev = "failed" /\ dev' = "idle"
    /\ Releases({"handle", "object", "path"})
    /\ UNCHANGED settled

\* Handle and object are the caller's now.
HandedOver == temps \ {"path"}

OpenSucceeds ==
    /\ dev = "opened" /\ dev' = "idle"
    /\ fault' = IF "path" \in temps THEN fault ELSE "closed_twice"
    /\ temps' = {} /\ named' = {} /\ settled' = FALSE

-----------------------------------------------------------------------------
(* Properties of any parser that opens a disk through this module *)

\* No path of FindShimDevice and OpenVhdmpDevice releases a thing twice, but one:
\* a differencing disk was closed, could not be created again, and its stale
\* handle is closed by the failure path.
ClosedOnce == fault = "closed_twice" => settled /\ "handle" \notin temps
=============================================================================
