----------------------------- MODULE SyncRequest -----------------------------
(***************************************************************************)
(* What DPT_SynchronouseRequest promises its caller: the response buffer   *)
(* is written only between the call and its return, and an answer of the   *)
(* service reaches one request at most.                                    *)
(***************************************************************************)
CONSTANTS Callers, Answers, NoOne

VARIABLES state,        \* "idle", "outstanding" or "returned"
          answeredBy    \* the last answer written to the caller's buffer

vars == <<state, answeredBy>>

Init ==
    /\ state = [q \in Callers |-> "idle"]
    /\ answeredBy = [q \in Callers |-> NoOne]

Issue(q) ==
    /\ state[q] = "idle"
    /\ state' = [state EXCEPT ![q] = "outstanding"]
    /\ UNCHANGED answeredBy

\* No subscriber services requests.
Refuse(q) ==
    /\ state[q] = "idle"
    /\ state' = [state EXCEPT ![q] = "returned"]
    /\ UNCHANGED answeredBy

Answer(q, a) ==
    /\ state[q] = "outstanding"
    /\ \A p \in Callers : answeredBy[p] # a
    /\ answeredBy' = [answeredBy EXCEPT ![q] = a]
    /\ UNCHANGED state

Return(q) ==
    /\ state[q] = "outstanding"
    /\ state' = [state EXCEPT ![q] = "returned"]
    /\ UNCHANGED answeredBy

Next == \E q \in Callers :
    Issue(q) \/ Refuse(q) \/ Return(q) \/ \E a \in Answers : Answer(q, a)

Spec == Init /\ [][Next]_vars
=============================================================================
