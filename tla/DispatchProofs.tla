--------------------------- MODULE DispatchProofs ---------------------------
(***************************************************************************)
(* Dispatch proved for every number of files, contexts, reads, callers and *)
(* answers.  TypeOK is inductive together with PcInv (a thread inside a    *)
(* routine has the object it works on).  RequestsInv says who holds        *)
(* DptLock and what a linked request looks like, which is what makes a     *)
(* late answer harmless.  AccessInv says where every context, pended read  *)
(* and message is: which list it is on, or which thread has it in hand.    *)
(***************************************************************************)
EXTENDS Dispatch, SequenceTheorems, FiniteSetTheorems, TLAPS

\* A thread past its first step has the context, or the read, it works on.
PcInv ==
    /\ \A f \in Files : filePc[f] \in {"flush", "drain", "complete"} => fsContext[f] # NoOne
    /\ \A f \in Files : filePc[f] = "complete" => taken[f] # NoOne
    /\ \A r \in Reads : readPc[r] \in {"lock", "check", "context"} => readCtx[r] # NoOne
    /\ \A q \in Callers : callPc[q] \in {"send", "scan", "fill", "sent", "queue"} =>
                              target[q] # NoOne
    /\ \A q \in Callers : callPc[q] = "fill" => taken[q] # NoOne
    /\ Running => \A r \in Reads : cancelPc[r] = "remove" => driverContext[r] # NoOne

TypeInv == TypeOK /\ PcInv

\* DptLock is held from the first to the last step that needs it.
LockInv ==
    /\ \A f \in Files : filePc[f] \in {"flush", "drain", "complete"} => dptLock = f
    /\ \A q \in Callers : callPc[q] \in {"send", "scan", "fill", "sent", "queue"} => dptLock = q
    /\ \A a \in Answers : answerPc[a] = "found" => dptLock = a

\* A linked entry belongs to a caller inside DPT_SynchronouseRequest and has an
\* id of its own; the answer that found it, or wrote to it, has that id.
RequestInv ==
    /\ \A q \in requests : q \notin Broadcasters /\ callPc[q] \notin {"idle", "done"}
    /\ \A q \in requests : requestId[q] <= counter
    /\ \A p, q \in requests : requestId[p] = requestId[q] => p = q
    /\ \A q \in Callers : callPc[q] = "idle" => response[q] = NoOne
    /\ \A a \in Answers : answerPc[a] = "found" =>
          entry[a] \in requests /\ requestId[entry[a]] = answerId[a]
    /\ \A q \in Callers : response[q] # NoOne =>
          answerPc[response[q]] = "done" /\ answerId[response[q]] = requestId[q]

RequestsInv == LockInv /\ RequestInv

-----------------------------------------------------------------------------
(* Type correctness *)

\* Taking an element out of a list leaves a list (RemoveEntryList).
LEMMA RemoveAtType ==
    ASSUME NEW S, NEW s \in Seq(S), NEW i \in DOMAIN s
    PROVE  RemoveAt(s, i) \in Seq(S)
<1>1. i \in 1..Len(s)
  OBVIOUS
<1>2. SubSeq(s, 1, i - 1) \in Seq(S) /\ SubSeq(s, i + 1, Len(s)) \in Seq(S)
  BY <1>1, SubSeqProperties
<1> QED BY <1>2, ConcatProperties DEF RemoveAt

LEMMA UnlinkType ==
    ASSUME NEW S, NEW s \in Seq(S), NEW x, \E i \in DOMAIN s : s[i] = x
    PROVE  Unlink(s, x) \in Seq(S)
BY RemoveAtType DEF Unlink

\* A caller sends to a context of the list.
LEMMA FirstTargetType ==
    ASSUME TypeOK, NEW q \in Callers, FirstTarget(q)
    PROVE  /\ target' \in [Callers -> Subscribers \cup {NoOne}]
           /\ \A p \in Callers : p = q \/ target[p] # NoOne => target'[p] # NoOne
<1>1. PICK i \in DOMAIN subscriptions : target' = [target EXCEPT ![q] = subscriptions[i]]
  BY DEF FirstTarget, Targets
<1>2. subscriptions[i] \in Subscribers
  BY DEF TypeOK
<1> QED BY <1>1, <1>2, DispatchAssumption DEF TypeOK

\* A broadcast goes on to a context of the list.
LEMMA TargetType ==
    ASSUME TypeInv, NEW q \in Callers, callPc[q] \in {"sent", "queue"},
           NextTarget(q) \/ LastTarget(q)
    PROVE  /\ target' \in [Callers -> Subscribers \cup {NoOne}]
           /\ callPc' \in [Callers -> {"idle", "send", "scan", "fill", "sent", "queue", "wait",
                                       "woken", "done"}]
           /\ \A p \in Callers : callPc'[p] \in {"send", "scan", "fill", "sent", "queue"} =>
                                     target'[p] # NoOne
           /\ \A p \in Callers : callPc'[p] = "fill" => callPc[p] = "fill"
           /\ dptLock' \in {dptLock, NoOne}
<1>1. CASE LastTarget(q)
  BY <1>1 DEF LastTarget, TypeInv, TypeOK, PcInv
<1>2. CASE NextTarget(q)
  <2>1. PICK i \in 1..(Len(subscriptions) - 1) :
          target' = [target EXCEPT ![q] = subscriptions[i + 1]]
    BY <1>2 DEF NextTarget
  <2>2. Len(subscriptions) \in Nat
    BY DEF TypeInv, TypeOK
  <2>3. i + 1 \in 1..Len(subscriptions)
    BY <2>1, <2>2
  <2>4. subscriptions[i + 1] \in Subscribers
    BY <2>3, ElementOfSeq DEF TypeInv, TypeOK
  <2>5. subscriptions[i + 1] # NoOne
    BY <2>4, DispatchAssumption
  <2> QED BY <1>2, <2>1, <2>4, <2>5 DEF NextTarget, TypeInv, TypeOK, PcInv
<1> QED BY <1>1, <1>2

LEMMA TypeStep == ASSUME TypeInv, [Next]_vars PROVE TypeInv'
<1> USE DispatchAssumption
<1>1. ASSUME Initialize PROVE TypeInv'
  BY <1>1 DEF TypeInv, TypeOK, PcInv, Running, Initialize, linkVars, queueVars, lockVars,
     readVars, cancelVars, doneVars, sendVars, requestVars
<1>2. ASSUME Unload PROVE TypeInv'
  <2>1. /\ pendedReads' \in [Subscribers -> Seq(Reads)]
        /\ pendedMessages' \in [Subscribers -> Seq(Callers)]
    BY <1>2 DEF Unload, TypeInv, TypeOK
  <2>2. completed' \in SUBSET Reads
    <3>1. ToSet(subscriptions) \subseteq Subscribers
      BY DEF ToSet, TypeInv, TypeOK
    <3>2. \A c \in Subscribers : ToSet(pendedReads[c]) \subseteq Reads
      BY DEF ToSet, TypeInv, TypeOK
    <3> QED BY <1>2, <3>1, <3>2 DEF Unload, TypeInv, TypeOK
  <2>3. subscriptions' \in Seq(Subscribers) /\ armed' \in SUBSET Reads
    BY <1>2 DEF Unload, TypeInv, TypeOK
  <2>4. fault' \in {"none", "freed_link"} /\ device' = "unloaded"
    BY <1>2 DEF Unload
  <2> QED BY <1>2, <2>1, <2>2, <2>3, <2>4 DEF TypeInv, TypeOK, PcInv, Unload, lockVars,
     readVars, sendVars, requestVars
<1>3. ASSUME NEW f \in Files, Open(f) PROVE TypeInv'
  BY <1>3 DEF TypeInv, TypeOK, PcInv, Running, Open, FileGoes, linkVars, queueVars, lockVars,
     readVars, cancelVars, doneVars, sendVars, requestVars
<1>4. ASSUME NEW f \in Files, Close(f) PROVE TypeInv'
  BY <1>4 DEF TypeInv, TypeOK, PcInv, Running, Close, FileGoes, linkVars, queueVars, readVars,
     cancelVars, doneVars, sendVars, requestVars
<1>5. ASSUME NEW f \in Files, CloseUnsubscribed(f) PROVE TypeInv'
  BY <1>5 DEF TypeInv, TypeOK, PcInv, Running, CloseUnsubscribed, FileGoes, linkVars,
     queueVars, lockVars, readVars, cancelVars, doneVars, sendVars, requestVars
<1>6. ASSUME NEW f \in Files, NEW s \in Subscribers, CheckSubscription(s, f) PROVE TypeInv'
  BY <1>6 DEF TypeInv, TypeOK, PcInv, Running, CheckSubscription, fileVars, queueVars,
     lockVars, readVars, cancelVars, doneVars, sendVars, requestVars
<1>7. ASSUME NEW f \in Files, NEW r \in Reads, Read(r, f) PROVE TypeInv'
  BY <1>7 DEF TypeInv, TypeOK, PcInv, Running, Read, ReadGoes, fileVars, linkVars, queueVars,
     lockVars, cancelVars, doneVars, sendVars, requestVars
<1>8. ASSUME NEW f \in Files, NEW r \in Reads, ReadRefused(r, f) PROVE TypeInv'
  BY <1>8 DEF TypeInv, TypeOK, PcInv, Running, ReadRefused, ReadGoes, fileVars, linkVars,
     queueVars, lockVars, cancelVars, sendVars, requestVars
<1>9. ASSUME NEW r \in Reads, Cancel(r) PROVE TypeInv'
  BY <1>9 DEF TypeInv, TypeOK, PcInv, Running, Cancel, fileVars, linkVars, queueVars,
     readVars, doneVars, sendVars, requestVars
<1>10. ASSUME NEW r \in Reads, CancelUnarmed(r) PROVE TypeInv'
  BY <1>10 DEF TypeInv, TypeOK, PcInv, Running, CancelUnarmed, fileVars, linkVars, queueVars,
     lockVars, readVars, doneVars, sendVars, requestVars
<1>11. ASSUME NEW q \in Callers, Issue(q) PROVE TypeInv'
  <2>1. FirstTarget(q)
    BY <1>11 DEF Issue
  <2> QED BY <1>11, <2>1, FirstTargetType DEF TypeInv, TypeOK, PcInv, Running, Issue,
     CallGoes, NextId, fileVars, linkVars, queueVars, readVars, cancelVars, doneVars
<1>12. ASSUME NEW q \in Callers, Broadcast(q) PROVE TypeInv'
  <2>1. FirstTarget(q)
    BY <1>12 DEF Broadcast
  <2> QED BY <1>12, <2>1, FirstTargetType DEF TypeInv, TypeOK, PcInv, Running, Broadcast,
     CallGoes, fileVars, linkVars, queueVars, readVars, cancelVars, doneVars, requestVars
<1>13. ASSUME NEW q \in Callers, NoTarget(q) PROVE TypeInv'
  BY <1>13 DEF TypeInv, TypeOK, PcInv, Running, NoTarget, CallGoes, fileVars, linkVars,
     queueVars, lockVars, readVars, cancelVars, doneVars, requestVars
<1>14. ASSUME NEW a \in Answers, NEW id \in Ids, FindRequest(a, id) PROVE TypeInv'
  BY <1>14 DEF TypeInv, TypeOK, PcInv, Running, FindRequest, AnswerGoes, fileVars, linkVars,
     queueVars, readVars, cancelVars, doneVars, sendVars
<1>15. ASSUME NEW a \in Answers, NEW id \in Ids, RefuseAnswer(a, id) PROVE TypeInv'
  BY <1>15 DEF TypeInv, TypeOK, PcInv, Running, RefuseAnswer, AnswerGoes, fileVars, linkVars,
     queueVars, lockVars, readVars, cancelVars, doneVars, sendVars
<1>16. ASSUME NEW f \in Files, FlushMessages(f) PROVE TypeInv'
  BY <1>16 DEF TypeInv, TypeOK, PcInv, Running, FlushMessages, FileGoes, linkVars, readVars,
     cancelVars, doneVars, sendVars, requestVars
<1>17. ASSUME NEW f \in Files, DrainRead(f) PROVE TypeInv'
  BY <1>17 DEF TypeInv, TypeOK, PcInv, Running, DrainRead, FileGoes, Completable, linkVars,
     readVars, doneVars, requestVars
<1>18. ASSUME NEW f \in Files, DrainComplete(f) PROVE TypeInv'
  BY <1>18 DEF TypeInv, TypeOK, PcInv, Running, DrainComplete, FileGoes, IoCompleteRequest,
     linkVars, queueVars, lockVars, readVars, cancelVars, requestVars
<1>19. ASSUME NEW f \in Files, DrainSleep(f) PROVE TypeInv'
  BY <1>19 DEF TypeInv, TypeOK, PcInv, Running, DrainSleep, Completable, Asleep, fileVars,
     linkVars, queueVars, readVars, cancelVars, doneVars, sendVars, requestVars
<1>20. ASSUME NEW f \in Files, FinishClose(f) PROVE TypeInv'
  <2>1. subscriptions' \in Seq(Subscribers)
    BY <1>20, UnlinkType DEF FinishClose, Contains, TypeInv, TypeOK
  <2> QED BY <1>20, <2>1 DEF TypeInv, TypeOK, PcInv, Running, FinishClose, FileGoes,
     queueVars, readVars, cancelVars, doneVars, sendVars, requestVars
<1>21. ASSUME NEW s \in Subscribers, CreateSubscription(s) PROVE TypeInv'
  BY <1>21 DEF TypeInv, TypeOK, PcInv, Running, CreateSubscription, ContextGoes, queueVars,
     lockVars, readVars, cancelVars, doneVars, sendVars, requestVars
<1>22. ASSUME NEW s \in Subscribers, CreateSubscriptionFails(s) PROVE TypeInv'
  BY <1>22 DEF TypeInv, TypeOK, PcInv, Running, CreateSubscriptionFails, ContextGoes,
     fileVars, queueVars, lockVars, readVars, cancelVars, doneVars, sendVars, requestVars
<1>23. ASSUME NEW s \in Subscribers, InsertSubscription(s) PROVE TypeInv'
  BY <1>23 DEF TypeInv, TypeOK, PcInv, Running, InsertSubscription, ContextGoes, fileVars,
     queueVars, lockVars, readVars, cancelVars, doneVars, sendVars, requestVars
<1>24. ASSUME NEW r \in Reads, ReadLock(r) PROVE TypeInv'
  BY <1>24 DEF TypeInv, TypeOK, PcInv, Running, ReadLock, ReadGoes, fileVars, linkVars,
     queueVars, doneVars, sendVars, requestVars
<1>25. ASSUME NEW r \in Reads, ReadCancelled(r) PROVE TypeInv'
  BY <1>25 DEF TypeInv, TypeOK, PcInv, Running, ReadCancelled, ReadGoes, WasCancelled,
     fileVars, linkVars, queueVars, doneVars, sendVars, requestVars, Completable
<1>26. ASSUME NEW r \in Reads, ReadQueued(r) PROVE TypeInv'
  BY <1>26 DEF TypeInv, TypeOK, PcInv, Running, ReadQueued, ReadGoes, WasCancelled, Dequeued,
     fileVars, linkVars, cancelVars, sendVars, requestVars, Completable
<1>27. ASSUME NEW r \in Reads, ReadPend(r) PROVE TypeInv'
  BY <1>27 DEF TypeInv, TypeOK, PcInv, Running, ReadPend, ReadGoes, WasCancelled, fileVars,
     linkVars, lockVars, cancelVars, doneVars, sendVars, requestVars, Completable
<1>28. ASSUME NEW r \in Reads, ReadSetContext(r) PROVE TypeInv'
  BY <1>28 DEF TypeInv, TypeOK, PcInv, Running, ReadSetContext, ReadGoes, fileVars, linkVars,
     queueVars, cancelVars, doneVars, sendVars, requestVars
<1>29. ASSUME NEW r \in Reads, ReadMarkPending(r) PROVE TypeInv'
  BY <1>29 DEF TypeInv, TypeOK, PcInv, Running, ReadMarkPending, ReadGoes, fileVars, linkVars,
     queueVars, lockVars, cancelVars, sendVars, requestVars
<1>30. ASSUME NEW r \in Reads, ReadComplete(r) PROVE TypeInv'
  BY <1>30 DEF TypeInv, TypeOK, PcInv, Running, ReadComplete, ReadGoes, IoCompleteRequest,
     fileVars, linkVars, queueVars, lockVars, cancelVars, sendVars, requestVars
<1>31. ASSUME NEW r \in Reads, CancelRoutine(r) PROVE TypeInv'
  BY <1>31 DEF TypeInv, TypeOK, PcInv, Running, CancelRoutine, CancelGoes, fileVars, linkVars,
     queueVars, readVars, sendVars, requestVars
<1>32. ASSUME NEW r \in Reads, CancelRemove(r) PROVE TypeInv'
  <2> DEFINE c == driverContext[r]
  <2>1. pendedReads' \in [Subscribers -> Seq(Reads)]
    <3>1. c \in Subscribers
      BY <1>32 DEF CancelRemove, CancelGoes, TypeInv, TypeOK, PcInv
    <3>2. CASE Contains(pendedReads[c], r)
      <4>1. Unlink(pendedReads[c], r) \in Seq(Reads)
        BY <3>1, <3>2, UnlinkType DEF Contains, TypeInv, TypeOK
      <4>2. pendedReads' = [pendedReads EXCEPT ![c] = Unlink(pendedReads[c], r)]
        BY <1>32, <3>2 DEF CancelRemove
      <4> QED BY <3>1, <4>1, <4>2 DEF TypeInv, TypeOK
    <3>3. CASE ~ Contains(pendedReads[c], r)
      BY <1>32, <3>3 DEF CancelRemove, TypeInv, TypeOK
    <3> QED BY <3>2, <3>3
  <2> QED BY <1>32, <2>1 DEF TypeInv, TypeOK, PcInv, Running, CancelRemove, CancelGoes,
     fileVars, linkVars, lockVars, readVars, doneVars, sendVars, requestVars
<1>34. ASSUME NEW r \in Reads, CancelComplete(r) PROVE TypeInv'
  BY <1>34 DEF TypeInv, TypeOK, PcInv, Running, CancelComplete, CancelGoes, IoCompleteRequest,
     fileVars, linkVars, queueVars, lockVars, readVars, sendVars, requestVars
<1>35. ASSUME NEW q \in Callers, SendMessage(q) PROVE TypeInv'
  BY <1>35 DEF TypeInv, TypeOK, PcInv, Running, SendMessage, CallGoes, fileVars, linkVars,
     queueVars, readVars, cancelVars, doneVars, requestVars
<1>36. ASSUME NEW q \in Callers, SendFails(q) PROVE TypeInv'
  BY <1>36 DEF TypeInv, TypeOK, PcInv, Running, SendFails, CallGoes, fileVars, linkVars,
     queueVars, lockVars, readVars, cancelVars, doneVars, requestVars
<1>37. ASSUME NEW q \in Callers, TakeRead(q) PROVE TypeInv'
  <2> DEFINE c == target[q]
  <2>1. c \in Subscribers
    BY <1>37 DEF TakeRead, CallGoes, TypeInv, PcInv, TypeOK
  <2>2. PICK i \in DOMAIN pendedReads[c] :
          /\ armed' = armed \ {pendedReads[c][i]}
          /\ pendedReads' = [pendedReads EXCEPT ![c] = Unlink(@, pendedReads[c][i])]
          /\ taken' = [taken EXCEPT ![q] = pendedReads[c][i]]
    BY <1>37 DEF TakeRead
  <2>3. pendedReads[c] \in Seq(Reads) /\ pendedReads[c][i] \in Reads
    BY <2>1 DEF TypeInv, TypeOK
  <2>4. Unlink(pendedReads[c], pendedReads[c][i]) \in Seq(Reads)
    BY <2>3, UnlinkType
  <2>5. pendedReads' \in [Subscribers -> Seq(Reads)]
    BY <2>1, <2>2, <2>4 DEF TypeInv, TypeOK
  <2>6. taken' \in [Callers \cup Files -> Reads \cup {NoOne}] /\ taken'[q] # NoOne
    BY <2>2, <2>3 DEF TypeInv, TypeOK
  <2>7. \A t \in Callers \cup Files : taken[t] # NoOne => taken'[t] # NoOne
    BY <2>2, <2>3 DEF TypeInv, TypeOK
  <2> QED BY <1>37, <2>2, <2>5, <2>6, <2>7 DEF TypeInv, TypeOK, PcInv, TakeRead, CallGoes,
     fileVars, linkVars, readVars, doneVars, requestVars
<1>38. ASSUME NEW q \in Callers, SkipReads(q) PROVE TypeInv'
  BY <1>38 DEF TypeInv, TypeOK, PcInv, Running, SkipReads, CallGoes, Completable, fileVars,
     linkVars, queueVars, readVars, cancelVars, doneVars, requestVars
<1>39. ASSUME NEW q \in Callers, FillRead(q) PROVE TypeInv'
  BY <1>39 DEF TypeInv, TypeOK, PcInv, Running, FillRead, CallGoes, IoCompleteRequest,
     fileVars, linkVars, queueVars, lockVars, readVars, cancelVars, requestVars
<1>40. ASSUME NEW q \in Callers, MessageSent(q) PROVE TypeInv'
  <2>1. NextTarget(q) \/ LastTarget(q)
    BY <1>40 DEF MessageSent
  <2>2. UNCHANGED <<fileVars, linkVars, readVars, cancelVars, doneVars, taken, requestVars,
                      cancelLock, ctxLock, pendedReads>>
    BY <1>40 DEF MessageSent, queueVars
  <2>3. TypeOK'
    BY <1>40, <2>1, <2>2, TargetType DEF TypeInv, TypeOK, MessageSent, fileVars, linkVars,
       queueVars, readVars, cancelVars, doneVars, requestVars
  <2>4. PcInv'
    BY <1>40, <2>1, <2>2, TargetType DEF TypeInv, PcInv, MessageSent, Running, fileVars, linkVars,
       readVars, cancelVars, doneVars, requestVars
  <2> QED BY <2>3, <2>4 DEF TypeInv
<1>41. ASSUME NEW q \in Callers, QueueMessage(q) PROVE TypeInv'
  <2>1. NextTarget(q) \/ LastTarget(q)
    BY <1>41 DEF QueueMessage
  <2>2. pendedMessages' \in [Subscribers -> Seq(Callers)]
    BY <1>41 DEF QueueMessage, TypeInv, TypeOK, PcInv
  <2>3. UNCHANGED <<fileVars, linkVars, readVars, cancelVars, doneVars, taken, requestVars,
                      cancelLock, ctxLock, pendedReads>>
    BY <1>41 DEF QueueMessage
  <2>4. TypeOK'
    BY <1>41, <2>1, <2>2, <2>3, TargetType DEF TypeInv, TypeOK, QueueMessage, fileVars, linkVars,
       readVars, cancelVars, doneVars, requestVars
  <2>5. PcInv'
    BY <1>41, <2>1, <2>3, TargetType DEF TypeInv, PcInv, QueueMessage, Running, fileVars, linkVars,
       readVars, cancelVars, doneVars, requestVars
  <2> QED BY <2>4, <2>5 DEF TypeInv
<1>42. ASSUME NEW q \in Callers, Wait(q) PROVE TypeInv'
  BY <1>42 DEF TypeInv, TypeOK, PcInv, Running, Wait, CallGoes, fileVars, linkVars, queueVars,
     lockVars, readVars, cancelVars, doneVars
<1>43. ASSUME NEW q \in Callers, Return(q) PROVE TypeInv'
  BY <1>43 DEF TypeInv, TypeOK, PcInv, Running, Return, CallGoes, Relocked, Remaining,
     fileVars, linkVars, queueVars, lockVars, readVars, cancelVars, doneVars
<1>44. ASSUME NEW a \in Answers, FinishRequest(a) PROVE TypeInv'
  BY <1>44 DEF TypeInv, TypeOK, PcInv, Running, FinishRequest, AnswerGoes, fileVars, linkVars,
     queueVars, readVars, cancelVars, doneVars, sendVars
<1>46. ASSUME NEW q \in Callers, NoMessage(q) PROVE TypeInv'
  BY <1>46 DEF TypeInv, TypeOK, PcInv, Running, NoMessage, fileVars, linkVars, queueVars,
     lockVars, readVars, cancelVars, sendVars, requestVars
<1>45. ASSUME UNCHANGED vars PROVE TypeInv'
  BY <1>45 DEF TypeInv, TypeOK, PcInv, Running, vars, fileVars, linkVars, queueVars, lockVars,
     readVars, cancelVars, doneVars, sendVars, requestVars
<1> QED
  BY <1>1, <1>2, <1>3, <1>4, <1>5, <1>6, <1>7, <1>8, <1>9, <1>10, <1>11, <1>12, <1>13, <1>14,
     <1>15, <1>16, <1>17, <1>18, <1>19, <1>20, <1>21, <1>22, <1>23, <1>24, <1>25, <1>26,
     <1>27, <1>28, <1>29, <1>30, <1>31, <1>32, <1>34, <1>35, <1>36, <1>37, <1>38,
     <1>39, <1>40, <1>41, <1>42, <1>43, <1>44, <1>45, <1>46 DEF Next, FileStep,
     SubscriberStep, ReadStep, CancelStep, CallStep, Rest

\* Every variable keeps its type.
THEOREM TypeCorrect == Spec => []TypeOK
<1>1. Init => TypeInv
  BY DispatchAssumption DEF Init, TypeInv, TypeOK, PcInv
<1>2. TypeInv /\ [Next]_vars => TypeInv'
  BY TypeStep
<1>3. TypeInv => TypeOK
  BY DEF TypeInv
<1> QED BY <1>1, <1>2, <1>3, PTL DEF Spec

-----------------------------------------------------------------------------
(* Requests and answers *)

\* A caller that goes on keeps DptLock, or has sent its message and drops it.
LEMMA AdvanceStep ==
    ASSUME TypeOK, RequestsInv, NEW q \in Callers, callPc[q] \in {"sent", "queue"},
           NextTarget(q) \/ LastTarget(q), UNCHANGED <<filePc, requestVars>>
    PROVE  RequestsInv'
<1> USE DispatchAssumption
<1>1. CASE NextTarget(q)
  BY <1>1 DEF NextTarget, RequestsInv, LockInv, RequestInv, TypeOK, requestVars
<1>2. CASE LastTarget(q)
  <2>1. \A p \in Callers : p # q => callPc'[p] = callPc[p]
    BY <1>2 DEF LastTarget, TypeOK
  <2>2. callPc'[q] \in {"wait", "done"} /\ (callPc'[q] = "done" => q \in Broadcasters)
    BY <1>2 DEF LastTarget, TypeOK
  <2>3. LockInv'
    BY <1>2, <2>1, <2>2 DEF LastTarget, RequestsInv, LockInv, TypeOK, requestVars
  <2>4. RequestInv'
    BY <2>1, <2>2 DEF RequestsInv, RequestInv, TypeOK, requestVars
  <2> QED BY <2>3, <2>4 DEF RequestsInv
<1> QED BY <1>1, <1>2

LEMMA RequestsStep == ASSUME TypeOK, RequestsInv, [Next]_vars PROVE RequestsInv'
<1> USE DispatchAssumption
<1>1. ASSUME Initialize PROVE RequestsInv'
  BY <1>1 DEF RequestsInv, LockInv, RequestInv, TypeOK, Initialize, Running, linkVars,
     queueVars, lockVars, readVars, cancelVars, doneVars, sendVars, requestVars
<1>2. ASSUME Unload PROVE RequestsInv'
  BY <1>2 DEF RequestsInv, LockInv, RequestInv, TypeOK, Unload, Running, lockVars, readVars,
     sendVars, requestVars
<1>3. ASSUME NEW f \in Files, Open(f) PROVE RequestsInv'
  BY <1>3 DEF RequestsInv, LockInv, RequestInv, TypeOK, Open, FileGoes, linkVars, queueVars,
     lockVars, readVars, cancelVars, doneVars, sendVars, requestVars, Running
<1>4. ASSUME NEW f \in Files, Close(f) PROVE RequestsInv'
  BY <1>4 DEF RequestsInv, LockInv, RequestInv, TypeOK, Close, FileGoes, linkVars, queueVars,
     readVars, cancelVars, doneVars, sendVars, requestVars, Running
<1>5. ASSUME NEW f \in Files, CloseUnsubscribed(f) PROVE RequestsInv'
  BY <1>5 DEF RequestsInv, LockInv, RequestInv, TypeOK, CloseUnsubscribed, FileGoes, linkVars,
     queueVars, lockVars, readVars, cancelVars, doneVars, sendVars, requestVars, Running
<1>6. ASSUME NEW f \in Files, NEW s \in Subscribers, CheckSubscription(s, f) PROVE
   RequestsInv'
  BY <1>6 DEF RequestsInv, LockInv, RequestInv, TypeOK, CheckSubscription, Running, fileVars,
     queueVars, lockVars, readVars, cancelVars, doneVars, sendVars, requestVars
<1>7. ASSUME NEW f \in Files, NEW r \in Reads, Read(r, f) PROVE RequestsInv'
  BY <1>7 DEF RequestsInv, LockInv, RequestInv, TypeOK, Read, ReadGoes, fileVars, linkVars,
     queueVars, lockVars, cancelVars, doneVars, sendVars, requestVars, Running
<1>8. ASSUME NEW f \in Files, NEW r \in Reads, ReadRefused(r, f) PROVE RequestsInv'
  BY <1>8 DEF RequestsInv, LockInv, RequestInv, TypeOK, ReadRefused, ReadGoes, fileVars,
     linkVars, queueVars, lockVars, cancelVars, sendVars, requestVars, Running
<1>9. ASSUME NEW r \in Reads, Cancel(r) PROVE RequestsInv'
  BY <1>9 DEF RequestsInv, LockInv, RequestInv, TypeOK, Cancel, Running, fileVars, linkVars,
     queueVars, readVars, doneVars, sendVars, requestVars
<1>10. ASSUME NEW r \in Reads, CancelUnarmed(r) PROVE RequestsInv'
  BY <1>10 DEF RequestsInv, LockInv, RequestInv, TypeOK, CancelUnarmed, Running, fileVars,
     linkVars, queueVars, lockVars, readVars, doneVars, sendVars, requestVars
<1>11. ASSUME NEW q \in Callers, Issue(q) PROVE RequestsInv'
  BY <1>11 DEF RequestsInv, LockInv, RequestInv, TypeOK, Issue, CallGoes, NextId, fileVars,
     linkVars, queueVars, readVars, cancelVars, doneVars, Running
<1>12. ASSUME NEW q \in Callers, Broadcast(q) PROVE RequestsInv'
  BY <1>12 DEF RequestsInv, LockInv, RequestInv, TypeOK, Broadcast, CallGoes, fileVars,
     linkVars, queueVars, readVars, cancelVars, doneVars, requestVars, Running
<1>13. ASSUME NEW q \in Callers, NoTarget(q) PROVE RequestsInv'
  BY <1>13 DEF RequestsInv, LockInv, RequestInv, TypeOK, NoTarget, CallGoes, fileVars,
     linkVars, queueVars, lockVars, readVars, cancelVars, doneVars, requestVars, Running
<1>14. ASSUME NEW a \in Answers, NEW id \in Ids, FindRequest(a, id) PROVE RequestsInv'
  BY <1>14 DEF RequestsInv, LockInv, RequestInv, TypeOK, FindRequest, AnswerGoes, fileVars,
     linkVars, queueVars, readVars, cancelVars, doneVars, sendVars, Running
<1>15. ASSUME NEW a \in Answers, NEW id \in Ids, RefuseAnswer(a, id) PROVE RequestsInv'
  BY <1>15 DEF RequestsInv, LockInv, RequestInv, TypeOK, RefuseAnswer, AnswerGoes, fileVars,
     linkVars, queueVars, lockVars, readVars, cancelVars, doneVars, sendVars, Running
<1>16. ASSUME NEW f \in Files, FlushMessages(f) PROVE RequestsInv'
  BY <1>16 DEF RequestsInv, LockInv, RequestInv, TypeOK, FlushMessages, FileGoes, linkVars,
     readVars, cancelVars, doneVars, sendVars, requestVars, Running
<1>17. ASSUME NEW f \in Files, DrainRead(f) PROVE RequestsInv'
  BY <1>17 DEF RequestsInv, LockInv, RequestInv, TypeOK, DrainRead, FileGoes, linkVars,
     readVars, doneVars, requestVars, Running
<1>18. ASSUME NEW f \in Files, DrainComplete(f) PROVE RequestsInv'
  BY <1>18 DEF RequestsInv, LockInv, RequestInv, TypeOK, DrainComplete, FileGoes, linkVars,
     queueVars, lockVars, readVars, cancelVars, requestVars, Running
<1>19. ASSUME NEW f \in Files, DrainSleep(f) PROVE RequestsInv'
  BY <1>19 DEF RequestsInv, LockInv, RequestInv, TypeOK, DrainSleep, Running, Asleep,
     fileVars, linkVars, queueVars, readVars, cancelVars, doneVars, sendVars, requestVars
<1>20. ASSUME NEW f \in Files, FinishClose(f) PROVE RequestsInv'
  BY <1>20 DEF RequestsInv, LockInv, RequestInv, TypeOK, FinishClose, FileGoes, queueVars,
     readVars, cancelVars, doneVars, sendVars, requestVars, Running
<1>21. ASSUME NEW s \in Subscribers, CreateSubscription(s) PROVE RequestsInv'
  BY <1>21 DEF RequestsInv, LockInv, RequestInv, TypeOK, CreateSubscription, ContextGoes,
     queueVars, lockVars, readVars, cancelVars, doneVars, sendVars, requestVars, Running
<1>22. ASSUME NEW s \in Subscribers, CreateSubscriptionFails(s) PROVE RequestsInv'
  BY <1>22 DEF RequestsInv, LockInv, RequestInv, TypeOK, CreateSubscriptionFails, ContextGoes,
     fileVars, queueVars, lockVars, readVars, cancelVars, doneVars, sendVars, requestVars,
     Running
<1>23. ASSUME NEW s \in Subscribers, InsertSubscription(s) PROVE RequestsInv'
  BY <1>23 DEF RequestsInv, LockInv, RequestInv, TypeOK, InsertSubscription, ContextGoes,
     fileVars, queueVars, lockVars, readVars, cancelVars, doneVars, sendVars, requestVars,
     Running
<1>24. ASSUME NEW r \in Reads, ReadLock(r) PROVE RequestsInv'
  BY <1>24 DEF RequestsInv, LockInv, RequestInv, TypeOK, ReadLock, ReadGoes, fileVars,
     linkVars, queueVars, doneVars, sendVars, requestVars, Running
<1>25. ASSUME NEW r \in Reads, ReadCancelled(r) PROVE RequestsInv'
  BY <1>25 DEF RequestsInv, LockInv, RequestInv, TypeOK, ReadCancelled, ReadGoes, fileVars,
     linkVars, queueVars, doneVars, sendVars, requestVars, Running
<1>26. ASSUME NEW r \in Reads, ReadQueued(r) PROVE RequestsInv'
  BY <1>26 DEF RequestsInv, LockInv, RequestInv, TypeOK, ReadQueued, ReadGoes, fileVars,
     linkVars, cancelVars, sendVars, requestVars, Running
<1>27. ASSUME NEW r \in Reads, ReadPend(r) PROVE RequestsInv'
  BY <1>27 DEF RequestsInv, LockInv, RequestInv, TypeOK, ReadPend, ReadGoes, fileVars,
     linkVars, lockVars, cancelVars, doneVars, sendVars, requestVars, Running
<1>28. ASSUME NEW r \in Reads, ReadSetContext(r) PROVE RequestsInv'
  BY <1>28 DEF RequestsInv, LockInv, RequestInv, TypeOK, ReadSetContext, ReadGoes, fileVars,
     linkVars, queueVars, cancelVars, doneVars, sendVars, requestVars, Running
<1>29. ASSUME NEW r \in Reads, ReadMarkPending(r) PROVE RequestsInv'
  BY <1>29 DEF RequestsInv, LockInv, RequestInv, TypeOK, ReadMarkPending, ReadGoes, fileVars,
     linkVars, queueVars, lockVars, cancelVars, sendVars, requestVars, Running
<1>30. ASSUME NEW r \in Reads, ReadComplete(r) PROVE RequestsInv'
  BY <1>30 DEF RequestsInv, LockInv, RequestInv, TypeOK, ReadComplete, ReadGoes, fileVars,
     linkVars, queueVars, lockVars, cancelVars, sendVars, requestVars, Running
<1>31. ASSUME NEW r \in Reads, CancelRoutine(r) PROVE RequestsInv'
  BY <1>31 DEF RequestsInv, LockInv, RequestInv, TypeOK, CancelRoutine, CancelGoes, fileVars,
     linkVars, queueVars, readVars, sendVars, requestVars, Running
<1>32. ASSUME NEW r \in Reads, CancelRemove(r) PROVE RequestsInv'
  BY <1>32 DEF RequestsInv, LockInv, RequestInv, TypeOK, CancelRemove, CancelGoes, fileVars,
     linkVars, lockVars, readVars, doneVars, sendVars, requestVars, Running
<1>34. ASSUME NEW r \in Reads, CancelComplete(r) PROVE RequestsInv'
  BY <1>34 DEF RequestsInv, LockInv, RequestInv, TypeOK, CancelComplete, CancelGoes, fileVars,
     linkVars, queueVars, lockVars, readVars, sendVars, requestVars, Running
<1>35. ASSUME NEW q \in Callers, SendMessage(q) PROVE RequestsInv'
  BY <1>35 DEF RequestsInv, LockInv, RequestInv, TypeOK, SendMessage, CallGoes, fileVars,
     linkVars, queueVars, readVars, cancelVars, doneVars, requestVars, Running
<1>36. ASSUME NEW q \in Callers, SendFails(q) PROVE RequestsInv'
  BY <1>36 DEF RequestsInv, LockInv, RequestInv, TypeOK, SendFails, CallGoes, fileVars,
     linkVars, queueVars, lockVars, readVars, cancelVars, doneVars, requestVars, Running
<1>37. ASSUME NEW q \in Callers, TakeRead(q) PROVE RequestsInv'
  BY <1>37 DEF RequestsInv, LockInv, RequestInv, TypeOK, TakeRead, CallGoes, fileVars,
     linkVars, readVars, doneVars, requestVars, Running
<1>38. ASSUME NEW q \in Callers, SkipReads(q) PROVE RequestsInv'
  BY <1>38 DEF RequestsInv, LockInv, RequestInv, TypeOK, SkipReads, CallGoes, fileVars,
     linkVars, queueVars, readVars, cancelVars, doneVars, requestVars, Running
<1>39. ASSUME NEW q \in Callers, FillRead(q) PROVE RequestsInv'
  BY <1>39 DEF RequestsInv, LockInv, RequestInv, TypeOK, FillRead, CallGoes, fileVars,
     linkVars, queueVars, lockVars, readVars, cancelVars, requestVars, Running
<1>40. ASSUME NEW q \in Callers, MessageSent(q) PROVE RequestsInv'
  BY <1>40, AdvanceStep DEF MessageSent, Running, fileVars, requestVars
<1>41. ASSUME NEW q \in Callers, QueueMessage(q) PROVE RequestsInv'
  BY <1>41, AdvanceStep DEF QueueMessage, Running, fileVars, requestVars
<1>42. ASSUME NEW q \in Callers, Wait(q) PROVE RequestsInv'
  BY <1>42 DEF RequestsInv, LockInv, RequestInv, TypeOK, Wait, CallGoes, fileVars, linkVars,
     queueVars, lockVars, readVars, cancelVars, doneVars, Running
<1>43. ASSUME NEW q \in Callers, Return(q) PROVE RequestsInv'
  BY <1>43 DEF RequestsInv, LockInv, RequestInv, TypeOK, Return, CallGoes, Relocked,
     Remaining, fileVars, linkVars, queueVars, lockVars, readVars, cancelVars, doneVars,
     Running
<1>44. ASSUME NEW a \in Answers, FinishRequest(a) PROVE RequestsInv'
  BY <1>44 DEF RequestsInv, LockInv, RequestInv, TypeOK, FinishRequest, AnswerGoes, fileVars,
     linkVars, queueVars, readVars, cancelVars, doneVars, sendVars, Running
<1>46. ASSUME NEW q \in Callers, NoMessage(q) PROVE RequestsInv'
  BY <1>46 DEF RequestsInv, LockInv, RequestInv, TypeOK, NoMessage, fileVars, linkVars,
     queueVars, lockVars, readVars, cancelVars, sendVars, requestVars, Running
<1>45. ASSUME UNCHANGED vars PROVE RequestsInv'
  BY <1>45 DEF RequestsInv, LockInv, RequestInv, TypeOK, vars, fileVars, linkVars, queueVars,
     lockVars, readVars, cancelVars, doneVars, sendVars, requestVars
<1> QED
  BY <1>1, <1>2, <1>3, <1>4, <1>5, <1>6, <1>7, <1>8, <1>9, <1>10, <1>11, <1>12, <1>13, <1>14,
     <1>15, <1>16, <1>17, <1>18, <1>19, <1>20, <1>21, <1>22, <1>23, <1>24, <1>25, <1>26,
     <1>27, <1>28, <1>29, <1>30, <1>31, <1>32, <1>34, <1>35, <1>36, <1>37, <1>38,
     <1>39, <1>40, <1>41, <1>42, <1>43, <1>44, <1>45, <1>46 DEF Next, FileStep,
     SubscriberStep, ReadStep, CancelStep, CallStep, Rest

LEMMA RequestsAlways == Spec => []RequestsInv
<1>1. Init => RequestsInv
  BY DispatchAssumption DEF Init, RequestsInv, LockInv, RequestInv
<1>2. TypeOK /\ RequestsInv /\ [Next]_vars => RequestsInv'
  BY RequestsStep
<1> QED BY <1>1, <1>2, TypeCorrect, PTL DEF Spec

\* The entry that an answer writes to is linked, its caller still waiting.
THEOREM EntriesLive == Spec => []LiveEntry
<1>1. RequestsInv => LiveEntry
  BY DEF RequestsInv, RequestInv, LiveEntry
<1> QED BY <1>1, RequestsAlways, PTL

\* Ids tell linked requests apart, and a response has its request's id.
THEOREM AnswersMatch == Spec => []AnswerReachesItsRequest
<1>1. RequestsInv => AnswerReachesItsRequest
  BY DEF RequestsInv, RequestInv, AnswerReachesItsRequest, LiveEntry
<1> QED BY <1>1, RequestsAlways, PTL

\* Only FinishRequest writes a response, and only to a linked entry.
LEMMA ResponseStep ==
    ASSUME TypeOK, RequestsInv, [Next]_vars
    PROVE  \/ response' = response
           \/ \E a \in Answers : FinishRequest(a)
BY DEF Next, FileStep, SubscriberStep, ReadStep, CancelStep, CallStep, Rest, vars,
   requestVars, Initialize, Unload, Open, Close, CloseUnsubscribed, CheckSubscription, Read,
   ReadRefused, Cancel, CancelUnarmed, Issue, Broadcast, NoTarget, FindRequest,
   RefuseAnswer, FlushMessages, DrainRead, DrainComplete, DrainSleep, FinishClose,
   CreateSubscription, CreateSubscriptionFails, InsertSubscription, ReadLock, ReadCancelled,
   ReadQueued, ReadPend, ReadSetContext, ReadMarkPending, ReadComplete, CancelRoutine,
   CancelRemove, CancelComplete, SendMessage, SendFails, TakeRead,
   SkipReads, FillRead, MessageSent, QueueMessage, NoMessage, Wait, Return

\* The frame of a caller that has returned is never written to.
THEOREM FramesUntouched == Spec => ReturnedFrameUntouched
<1> DEFINE A == \A q \in Callers : callPc[q] = "done" => response'[q] = response[q]
<1>1. TypeOK /\ RequestsInv /\ [Next]_vars => A
  <2> SUFFICES ASSUME TypeOK, RequestsInv, [Next]_vars, NEW q \in Callers, callPc[q] = "done"
               PROVE  response'[q] = response[q]
    OBVIOUS
  <2>1. CASE response' = response
    BY <2>1
  <2>2. CASE \E a \in Answers : FinishRequest(a)
    <3>1. PICK a \in Answers : FinishRequest(a)
      BY <2>2
    <3>2. entry[a] # q
      BY <3>1 DEF FinishRequest, AnswerGoes, RequestsInv, RequestInv
    <3> QED BY <3>1, <3>2 DEF FinishRequest, TypeOK
  <2> QED BY <2>1, <2>2, ResponseStep
<1>2. TypeOK /\ RequestsInv /\ [Next]_vars => [A]_vars
  BY <1>1
<1> QED BY <1>2, TypeCorrect, RequestsAlways, PTL DEF Spec, ReturnedFrameUntouched

-----------------------------------------------------------------------------
(* DPT_SynchronouseRequest and FINISH_REQUEST keep the promise of SyncRequest *)

\* What a step does to the state a caller can see.
LEMMA VisibleStep ==
    ASSUME TypeOK, [Next]_vars
    PROVE  \/ response' = response /\ \A q \in Requesters : RequestState(q)' = RequestState(q)
           \/ \E q \in Callers : Issue(q) \/ NoTarget(q) \/ Return(q)
           \/ \E a \in Answers : FinishRequest(a)
<1> DEFINE Same == /\ response' = response
                   /\ \A q \in Requesters : RequestState(q)' = RequestState(q)
<1>1. CASE response' = response /\ callPc' = callPc
  BY <1>1 DEF RequestState
<1>2. ASSUME NEW q \in Callers, response' = response,
             callPc' = [callPc EXCEPT ![q] = callPc'[q]],
             callPc[q] \notin {"idle", "done"}, callPc'[q] \notin {"idle", "done"}
      PROVE  Same
  BY <1>2 DEF RequestState, Requesters, TypeOK
<1>3. ASSUME NEW q \in Broadcasters, response' = response,
             callPc' = [callPc EXCEPT ![q] = callPc'[q]]
      PROVE  Same
  BY <1>3 DEF RequestState, Requesters, TypeOK
<1>4. ASSUME NEW q \in Callers, Broadcast(q) PROVE Same
  BY <1>3, <1>4 DEF Broadcast, CallGoes, requestVars, TypeOK
<1>5. ASSUME NEW q \in Callers, MessageSent(q) \/ QueueMessage(q) PROVE Same
  <2>1. response' = response /\ callPc[q] \notin {"idle", "done"}
    BY <1>5 DEF MessageSent, QueueMessage, requestVars
  <2>2. CASE NextTarget(q)
    BY <1>2, <2>1, <2>2 DEF NextTarget, TypeOK
  <2>3. CASE LastTarget(q) /\ q \in Broadcasters
    BY <1>3, <2>1, <2>3 DEF LastTarget, TypeOK
  <2>4. CASE LastTarget(q) /\ q \notin Broadcasters
    BY <1>2, <2>1, <2>4 DEF LastTarget, TypeOK
  <2> QED BY <1>5, <2>2, <2>3, <2>4 DEF MessageSent, QueueMessage
<1>6. ASSUME NEW q \in Callers,
             SendMessage(q) \/ SendFails(q) \/ TakeRead(q) \/ SkipReads(q) \/ FillRead(q) \/
                Wait(q)
      PROVE  Same
  <2>1. response' = response /\ callPc[q] \notin {"idle", "done"}
    BY <1>6 DEF SendMessage, SendFails, TakeRead, SkipReads, FillRead, Wait, CallGoes,
       requestVars
  <2>2. \E to \in {"scan", "queue", "fill", "sent", "woken"} : callPc' = [callPc EXCEPT ![q] =
     to]
    BY <1>6 DEF SendMessage, SendFails, TakeRead, SkipReads, FillRead, Wait, CallGoes
  <2> QED BY <1>2, <2>1, <2>2 DEF TypeOK
<1>9. ASSUME NEW q \in Callers, NoMessage(q) PROVE Same
  BY <1>9 DEF NoMessage, sendVars, requestVars, RequestState
<1>7. ASSUME NEW q \in Callers, CallStep(q) \/ Issue(q) \/ Broadcast(q) \/ NoTarget(q)
      PROVE  Same \/ Issue(q) \/ NoTarget(q) \/ Return(q)
  BY <1>4, <1>5, <1>6, <1>7, <1>9 DEF CallStep
<1>8. \/ \E q \in Callers : CallStep(q) \/ Issue(q) \/ Broadcast(q) \/ NoTarget(q)
      \/ \E a \in Answers : FinishRequest(a)
      \/ response' = response /\ callPc' = callPc
  BY DEF Next, FileStep, SubscriberStep, ReadStep, CancelStep, Rest, vars, sendVars,
     requestVars, Initialize, Unload, Open, Close, CloseUnsubscribed, CheckSubscription, Read,
     ReadRefused, Cancel, CancelUnarmed, FindRequest, RefuseAnswer, FlushMessages,
     DrainRead, DrainComplete, DrainSleep, FinishClose, CreateSubscription,
     CreateSubscriptionFails, InsertSubscription, ReadLock, ReadCancelled, ReadQueued,
     ReadPend, ReadSetContext, ReadMarkPending, ReadComplete, CancelRoutine, CancelRemove,
     CancelComplete
<1> QED BY <1>1, <1>7, <1>8

LEMMA PromiseStep ==
    ASSUME TypeOK, RequestsInv, [Next]_vars
    PROVE  [Promise!Next]_(Promise!vars)
<1> DEFINE state == [q \in Requesters |-> RequestState(q)]
           answeredBy == [q \in Requesters |-> response[q]]
<1>1. CASE response' = response /\ \A q \in Requesters : RequestState(q)' = RequestState(q)
  <2>1. state' = state /\ answeredBy' = answeredBy
    BY <1>1
  <2> QED BY <2>1 DEF Promise!vars
<1>2. ASSUME NEW q \in Callers, Issue(q) \/ NoTarget(q) \/ Return(q)
      PROVE  [Promise!Next]_(Promise!vars)
  <2>1. response' = response /\ answeredBy' = answeredBy
    BY <1>2 DEF Issue, NoTarget, Return, requestVars
  <2>2. \A p \in Requesters : p # q => RequestState(p)' = RequestState(p)
    BY <1>2 DEF Issue, NoTarget, Return, CallGoes, RequestState, TypeOK, Requesters
  <2>3. CASE q \notin Requesters
    <3>1. state' = state
      BY <2>2, <2>3
    <3> QED BY <2>1, <3>1 DEF Promise!vars
  <2>4. CASE q \in Requesters
    <3>1. state' = [state EXCEPT ![q] = RequestState(q)']
      BY <2>2, <2>4
    <3>2. \/ Issue(q) /\ RequestState(q) = "idle" /\ RequestState(q)' = "outstanding"
          \/ NoTarget(q) /\ RequestState(q) = "idle" /\ RequestState(q)' = "returned"
          \/ Return(q) /\ RequestState(q) = "outstanding" /\ RequestState(q)' = "returned"
      BY <1>2 DEF Issue, NoTarget, Return, CallGoes, RequestState, TypeOK
    <3>3. Promise!Issue(q) \/ Promise!Refuse(q) \/ Promise!Return(q)
      BY <2>1, <2>4, <3>1, <3>2 DEF Promise!Issue, Promise!Refuse, Promise!Return
    <3> QED BY <2>4, <3>3 DEF Promise!Next
  <2> QED BY <2>3, <2>4
<1>3. ASSUME NEW a \in Answers, FinishRequest(a)
      PROVE  [Promise!Next]_(Promise!vars)
  <2> DEFINE q == entry[a]
  <2>1. q \in requests /\ q \in Requesters /\ callPc[q] \notin {"idle", "done"}
    BY <1>3 DEF FinishRequest, AnswerGoes, RequestsInv, RequestInv, TypeOK, Requesters
  <2>2. \A p \in Requesters : response[p] # a
    <3>1. answerPc[a] = "found" /\ a # NoOne
      BY <1>3, DispatchAssumption DEF FinishRequest, AnswerGoes
    <3>2. \A p \in Callers : response[p] # NoOne => answerPc[response[p]] = "done"
      BY DEF RequestsInv, RequestInv
    <3> QED BY <3>1, <3>2 DEF Requesters
  <2>3. response' = [response EXCEPT ![q] = a] /\ callPc' = callPc
    BY <1>3 DEF FinishRequest, sendVars
  <2>4. state' = state
    BY <2>3 DEF RequestState
  <2>5. answeredBy' = [answeredBy EXCEPT ![q] = a]
    BY <2>1, <2>3 DEF Requesters, TypeOK
  <2>6. state[q] = "outstanding"
    BY <2>1 DEF RequestState
  <2>7. Promise!Answer(q, a)
    BY <2>1, <2>2, <2>4, <2>5, <2>6 DEF Promise!Answer
  <2> QED BY <2>1, <2>7 DEF Promise!Next
<1> QED BY <1>1, <1>2, <1>3, VisibleStep

\* The request protocol is implemented.
THEOREM KeepsPromise == Spec => ImplementsPromise
<1>1. Init => Promise!Init
  BY DEF Init, Promise!Init, RequestState, Requesters
<1>2. TypeOK /\ RequestsInv /\ [Next]_vars => [Promise!Next]_(Promise!vars)
  BY PromiseStep
<1> QED BY <1>1, <1>2, TypeCorrect, RequestsAlways, PTL DEF Spec, Promise!Spec,
   ImplementsPromise

-----------------------------------------------------------------------------
(* The invariant of subscriptions, reads and messages *)

\* A context belongs to the file it was made for.  While a call of a file is inside
\* CREATE_SUBSCRIPTION or DPT_Read the file is open.
ContextInv ==
    /\ \A c \in Subscribers :
          /\ ctxPc[c] # "free" => ctxFile[c] \in Files /\ filePc[ctxFile[c]] # "none"
          /\ ctxPc[c] \in {"checked", "insert"} => filePc[ctxFile[c]] = "open"
          /\ ctxPc[c] = "closed" => filePc[ctxFile[c]] = "closed"
    /\ \A f \in Files : fsContext[f] # NoOne =>
          ctxFile[fsContext[f]] = f /\ ctxPc[fsContext[f]] \in {"insert", "linked"}
    /\ \A r \in Reads :
          /\ readCtx[r] # NoOne => ctxPc[readCtx[r]] \in {"insert", "linked", "closed"}
          /\ readPc[r] = "idle" => readCtx[r] = NoOne
          /\ readPc[r] \notin {"idle", "returned"} =>
                readCtx[r] # NoOne /\ filePc[ctxFile[readCtx[r]]] = "open"

\* Who holds the lock of a context.
ContextLockInv ==
    /\ \A q \in Callers : callPc[q] = "scan" => ctxLock[target[q]] = q
    /\ \A r \in Reads : readPc[r] \in {"check", "context"} => ctxLock[readCtx[r]] = r

\* The list has the linked contexts, each once.  The file of a context has FsContext
\* set until it is closed, and is closed with some context of its own.
ContextListInv ==
    /\ IsInjective(subscriptions)
    /\ \A c \in Subscribers :
          /\ Contains(subscriptions, c) => ctxPc[c] = "linked"
          /\ ctxPc[c] \in {"insert", "linked"} =>
                IF filePc[ctxFile[c]] = "closed"
                THEN \E t \in Subscribers : ctxFile[t] = ctxFile[c] /\ ctxPc[t] = "closed"
                ELSE fsContext[ctxFile[c]] # NoOne

\* A caller sends to a context of the list.
TargetInv ==
    \A q \in Callers :
       /\ callPc[q] = "idle" => target[q] = NoOne
       /\ callPc[q] \in {"send", "scan", "fill", "sent", "queue"} =>
             Contains(subscriptions, target[q])

\* A context that is being drained has no message, a closed one no read either.
EmptyInv ==
    /\ \A f \in Files : filePc[f] \in {"drain", "complete"} =>
          pendedMessages[fsContext[f]] = <<>>
    /\ \A c \in Subscribers : ctxPc[c] = "closed" =>
          pendedReads[c] = <<>> /\ pendedMessages[c] = <<>>

\* A read that was unlinked to be completed is in the hands of one thread, which
\* is about to complete it.
HolderInv ==
    /\ \A q \in Callers : taken[q] # NoOne => callPc[q] = "fill"
    /\ \A f \in Files : taken[f] # NoOne => filePc[f] = "complete"
    /\ \A t, u \in Callers \cup Files : taken[t] = taken[u] /\ taken[t] # NoOne => t = u

\* The cancel routine of a read is armed or has been taken to cancel it.
ArmedOrTaken(r) == IF r \in armed THEN cancelPc[r] = "idle" ELSE cancelPc[r] = "routine"

\* A read on a list is on one, once, published or about to be, and is either armed
\* or about to be removed by its cancel routine.
ListedInv ==
    \A c \in Subscribers :
       /\ IsInjective(pendedReads[c])
       /\ \A r \in Reads : Contains(pendedReads[c], r) =>
             /\ readCtx[r] = c /\ readPc[r] \in {"context", "mark", "returned"}
             /\ r \notin completed
             /\ \A t \in Callers \cup Files : taken[t] # r
             /\ ArmedOrTaken(r) \/ cancelPc[r] = "remove"

\* A read that a sender or a closing file has taken is on no list, and nobody can
\* cancel it.
TakenInv ==
    \A t \in Callers \cup Files, r \in Reads : taken[t] = r =>
       /\ readPc[r] \in {"mark", "returned"} /\ driverContext[r] # NoOne
       /\ r \notin completed /\ r \notin armed /\ cancelPc[r] = "idle"

\* DPT_ReadCancel, once past a read that was published, finds it on the list of its
\* context, and alone completes it.
CancelInv ==
    \A r \in Reads :
       /\ r \in armed => cancelPc[r] = "idle"
       /\ cancelPc[r] \in {"remove", "complete", "done"} => driverContext[r] # NoOne
       /\ cancelPc[r] \in {"routine", "remove"} /\ driverContext[r] # NoOne =>
             Contains(pendedReads[driverContext[r]], r)
       /\ cancelPc[r] = "complete" =>
             r \notin completed /\ \A t \in Callers \cup Files : taken[t] # r
       /\ cancelPc[r] # "idle" /\ driverContext[r] = NoOne => r \in early

\* DPT_Read: a read is published when DriverContext[0] is set, and from then on is
\* on its list, taken, with its cancel routine, or completed.
Progress(r) ==
    /\ readPc[r] \in {"idle", "lock"} => r \notin armed /\ cancelPc[r] = "idle"
    /\ readPc[r] \in {"idle", "lock", "check", "tail"} => r \notin completed
    /\ readPc[r] = "check" => ArmedOrTaken(r)
    /\ readPc[r] = "context" => Contains(pendedReads[readCtx[r]], r)
    /\ driverContext[r] # NoOne =>
          driverContext[r] = readCtx[r] /\ readPc[r] \in {"mark", "returned"}
    /\ readPc[r] = "mark" \/ (readPc[r] = "returned" /\ r \notin completed) =>
          driverContext[r] # NoOne
    /\ readPc[r] \in {"mark", "returned"} /\ r \notin completed =>
          \/ Contains(pendedReads[readCtx[r]], r)
          \/ \E t \in Callers \cup Files : taken[t] = r
          \/ cancelPc[r] = "complete"

ProgressInv == \A r \in Reads : Progress(r)

ReadInv == ListedInv /\ TakenInv /\ CancelInv /\ ProgressInv

\* Once a read is published its removal and its completion happen once; only an
\* early cancellation goes wrong.
FaultInv ==
    /\ fault \notin {"unlinked_remove", "completed_twice"}
    /\ fault = "unset_context" => UnsetContext # {} /\ UnsetContext \subseteq early
    /\ LeftoverOnlyByDoubleSubscribe

\* Context c holds q's message, or has delivered it.
Delivered(c, q) == \E r \in Reads : readCtx[r] = c /\ delivered[r] = q
Has(c, q) == Contains(pendedMessages[c], q) \/ Delivered(c, q)

\* A read that DPT_Read or its taker has filled is on no list and in no hands.
Settled(r) ==
    /\ readCtx[r] # NoOne /\ readPc[r] \in {"tail", "mark", "returned"}
    /\ \A c \in Subscribers : ~ Contains(pendedReads[c], r)
    /\ \A t \in Callers \cup Files : taken[t] # r

\* A message is queued once, or delivered by one read.
CopyInv ==
    /\ \A c \in Subscribers : IsInjective(pendedMessages[c])
    /\ \A r, s \in Reads :
          delivered[r] # NoOne /\ delivered[r] = delivered[s] /\ readCtx[r] = readCtx[s] => r = s
    /\ \A r \in Reads : delivered[r] # NoOne =>
          Settled(r) /\ ~ Contains(pendedMessages[readCtx[r]], delivered[r])

\* No context has the message of a caller that has not come to it, and the one
\* that a request was sent to has it until it is flushed.
Sending(q) == callPc[q] \in {"send", "scan", "fill", "sent", "queue"}

Sent(q) ==
    /\ callPc[q] = "idle" => \A c \in Subscribers : ~ Has(c, q)
    /\ Sending(q) /\ callPc[q] # "sent" => ~ Has(target[q], q)
    /\ Sending(q) /\ q \in Broadcasters =>
          \A i, j \in DOMAIN subscriptions :
             i < j /\ subscriptions[i] = target[q] => ~ Has(subscriptions[j], q)
    /\ callPc[q] = "fill" => readCtx[taken[q]] = target[q]
    /\ callPc[q] \in {"sent", "wait", "woken", "done"} /\ q \notin Broadcasters
          /\ target[q] # NoOne => Has(target[q], q) \/ Flushed(target[q])

SentInv == \A q \in Callers : Sent(q)

MessageInv == CopyInv /\ SentInv

-----------------------------------------------------------------------------
(* Lists *)

\* What is on a list in place i is on it.
LEMMA OnList ==
    ASSUME NEW S, NEW s \in Seq(S)
    PROVE  /\ DOMAIN s = 1..Len(s) /\ Len(s) \in Nat
           /\ \A i \in DOMAIN s : s[i] \in S /\ Contains(s, s[i])
           /\ \A x : Contains(s, x) => \E i \in DOMAIN s : s[i] = x
BY DEF Contains

LEMMA EmptyList == IsInjective(<<>>) /\ \A x : ~ Contains(<<>>, x)
BY DEF IsInjective, Contains

\* InsertTailList of an entry that is not on the list.
LEMMA AppendList ==
    ASSUME NEW S, NEW s \in Seq(S), NEW x \in S
    PROVE  /\ \A y : Contains(Append(s, x), y) <=> Contains(s, y) \/ y = x
           /\ IsInjective(s) /\ ~ Contains(s, x) => IsInjective(Append(s, x))
<1> DEFINE t == Append(s, x)
<1>1. /\ t \in Seq(S) /\ Len(t) = Len(s) + 1 /\ Len(s) \in Nat
      /\ \A i \in 1..Len(s) : t[i] = s[i]
      /\ t[Len(s) + 1] = x
  BY AppendProperties
<1>2. DOMAIN s = 1..Len(s) /\ DOMAIN t = 1..(Len(s) + 1)
  BY <1>1
<1> HIDE DEF t
<1>3. \A y : Contains(t, y) <=> Contains(s, y) \/ y = x
  BY <1>1, <1>2 DEF Contains
<1>4. ASSUME IsInjective(s), ~ Contains(s, x) PROVE IsInjective(t)
  BY <1>1, <1>2, <1>4 DEF IsInjective, Contains
<1> QED BY <1>3, <1>4 DEF t

\* RemoveHeadList
LEMMA TailList ==
    ASSUME NEW S, NEW s \in Seq(S), s # <<>>, IsInjective(s)
    PROVE  /\ Head(s) \in S /\ Contains(s, Head(s))
           /\ Tail(s) \in Seq(S) /\ IsInjective(Tail(s))
           /\ \A y : Contains(Tail(s), y) <=> Contains(s, y) /\ y # Head(s)
<1> DEFINE t == Tail(s)
           n == Len(s)
<1>1. /\ t \in Seq(S) /\ n \in Nat \ {0} /\ Len(t) = n - 1
      /\ \A i \in 1..(n - 1) : t[i] = s[i + 1]
      /\ Head(s) = s[1] /\ Head(s) \in S
  BY HeadTailProperties, EmptySeq
<1>2. DOMAIN s = 1..n /\ DOMAIN t = 1..(n - 1)
  BY <1>1
<1> HIDE DEF t, n
<1>3. \A i \in 2..n : i - 1 \in 1..(n - 1) /\ s[i] = t[i - 1]
  BY <1>1
<1>4. IsInjective(t)
  <2>1. \A i \in 1..(n - 1) : i + 1 \in 1..n /\ t[i] = s[i + 1]
    BY <1>1
  <2>2. \A i, j \in 1..n : s[i] = s[j] => i = j
    BY <1>2 DEF IsInjective
  <2>3. \A i, j \in 1..(n - 1) : i + 1 = j + 1 => i = j
    BY <1>1
  <2> QED BY <1>2, <2>1, <2>2, <2>3 DEF IsInjective
<1>5. ASSUME NEW y PROVE Contains(t, y) <=> Contains(s, y) /\ y # s[1]
  <2>1. Contains(t, y) <=> \E i \in 1..(n - 1) : t[i] = y
    BY <1>1 DEF Contains
  <2>2. Contains(s, y) <=> \E i \in 1..n : s[i] = y
    BY DEF Contains, n
  <2>3. ASSUME NEW i \in 1..(n - 1), t[i] = y PROVE Contains(s, y) /\ y # s[1]
    <3>1. s[i + 1] = y /\ i + 1 \in 1..n /\ i + 1 # 1 /\ 1 \in 1..n
      BY <1>1, <2>3
    <3> QED BY <1>2, <2>2, <3>1 DEF IsInjective
  <2>4. ASSUME NEW i \in 1..n, s[i] = y, y # s[1] PROVE Contains(t, y)
    <3>1. i \in 2..n
      BY <1>1, <2>4
    <3> QED BY <1>3, <2>1, <2>4, <3>1
  <2> QED BY <2>1, <2>2, <2>3, <2>4
<1>6. Contains(s, s[1])
  BY <1>1 DEF Contains, n
<1> QED BY <1>1, <1>4, <1>5, <1>6 DEF t

\* RemoveEntryList
LEMMA UnlinkList ==
    ASSUME NEW S, NEW s \in Seq(S), IsInjective(s), NEW x, Contains(s, x)
    PROVE  /\ Unlink(s, x) \in Seq(S) /\ IsInjective(Unlink(s, x))
           /\ \A y : Contains(Unlink(s, x), y) <=> Contains(s, y) /\ y # x
<1> DEFINE k == CHOOSE i \in DOMAIN s : s[i] = x
           n == Len(s)
           t == Unlink(s, x)
<1>1. DOMAIN s = 1..n /\ n \in Nat /\ \A i \in 1..n : s[i] \in S
  OBVIOUS
<1>2. k \in 1..n /\ s[k] = x
  BY <1>1 DEF Contains
<1>3. t = SubSeq(s, 1, k - 1) \o SubSeq(s, k + 1, n)
  BY DEF Unlink, RemoveAt
<1> HIDE DEF k, n, t
<1>4. /\ SubSeq(s, 1, k - 1) \in Seq(S) /\ Len(SubSeq(s, 1, k - 1)) = k - 1
      /\ \A i \in 1..(k - 1) : SubSeq(s, 1, k - 1)[i] = s[i]
  <2>1. \A i \in 1..(k - 1) : s[i] \in S
    BY <1>1, <1>2
  <2>2. /\ SubSeq(s, 1, k - 1) \in Seq(S)
        /\ Len(SubSeq(s, 1, k - 1)) = IF 1 <= k - 1 THEN k - 1 - 1 + 1 ELSE 0
        /\ \A i \in 1..(k - 1 - 1 + 1) : SubSeq(s, 1, k - 1)[i] = s[1 + i - 1]
    BY <1>1, <1>2, <2>1, SubSeqProperties
  <2> QED BY <1>1, <1>2, <2>2
<1>5. /\ SubSeq(s, k + 1, n) \in Seq(S) /\ Len(SubSeq(s, k + 1, n)) = n - k
      /\ \A i \in 1..(n - k) : SubSeq(s, k + 1, n)[i] = s[k + i]
  <2>1. \A i \in (k + 1)..n : s[i] \in S
    BY <1>1, <1>2
  <2>2. /\ SubSeq(s, k + 1, n) \in Seq(S)
        /\ Len(SubSeq(s, k + 1, n)) = IF k + 1 <= n THEN n - (k + 1) + 1 ELSE 0
        /\ \A i \in 1..(n - (k + 1) + 1) : SubSeq(s, k + 1, n)[i] = s[k + 1 + i - 1]
    BY <1>1, <1>2, <2>1, SubSeqProperties
  <2> QED BY <1>1, <1>2, <2>2
<1>6. /\ t \in Seq(S) /\ Len(t) = n - 1
      /\ \A i \in 1..(n - 1) : t[i] = IF i < k THEN s[i] ELSE s[i + 1]
  <2> DEFINE a == SubSeq(s, 1, k - 1)
             b == SubSeq(s, k + 1, n)
  <2>1. /\ a \in Seq(S) /\ Len(a) = k - 1 /\ \A i \in 1..(k - 1) : a[i] = s[i]
        /\ b \in Seq(S) /\ Len(b) = n - k /\ \A i \in 1..(n - k) : b[i] = s[k + i]
    BY <1>4, <1>5
  <2>2. t = a \o b
    BY <1>3
  <2> HIDE DEF a, b
  <2>3. /\ t \in Seq(S) /\ Len(t) = (k - 1) + (n - k)
        /\ \A i \in 1..((k - 1) + (n - k)) :
              t[i] = IF i <= k - 1 THEN a[i] ELSE b[i - (k - 1)]
    BY <2>1, <2>2, ConcatProperties
  <2>4. (k - 1) + (n - k) = n - 1
    BY <1>1, <1>2
  <2>5. ASSUME NEW i \in 1..(n - 1) PROVE t[i] = IF i < k THEN s[i] ELSE s[i + 1]
    <3>1. CASE i < k
      BY <1>1, <1>2, <2>1, <2>3, <2>4, <3>1
    <3>2. CASE ~ (i < k)
      <4>1. i - (k - 1) \in 1..(n - k) /\ k + (i - (k - 1)) = i + 1 /\ ~ (i <= k - 1)
        BY <1>1, <1>2, <3>2
      <4> QED BY <2>1, <2>3, <2>4, <3>2, <4>1
    <3> QED BY <3>1, <3>2
  <2> QED BY <2>3, <2>4, <2>5
<1>7. DOMAIN t = 1..(n - 1)
  BY <1>1, <1>6
<1>8. \A i \in 1..n : \A j \in 1..n : s[i] = s[j] => i = j
  BY <1>1 DEF IsInjective
<1>9. IsInjective(t)
  BY <1>1, <1>2, <1>6, <1>7, <1>8 DEF IsInjective
<1>10. ASSUME NEW y PROVE Contains(t, y) <=> Contains(s, y) /\ y # x
  <2>1. Contains(t, y) <=> \E i \in 1..(n - 1) : t[i] = y
    BY <1>6 DEF Contains
  <2>2. Contains(s, y) <=> \E i \in 1..n : s[i] = y
    BY DEF Contains, n
  <2>3. ASSUME NEW i \in 1..(n - 1), t[i] = y PROVE Contains(s, y) /\ y # x
    BY <1>1, <1>2, <1>6, <1>8, <2>2, <2>3
  <2>4. ASSUME NEW i \in 1..n, s[i] = y, y # x PROVE Contains(t, y)
    <3>1. CASE i < k
      <4>1. i \in 1..(n - 1) /\ t[i] = y
        BY <1>1, <1>2, <1>6, <2>4, <3>1
      <4> QED BY <2>1, <4>1
    <3>2. CASE i > k
      <4>1. i - 1 \in 1..(n - 1) /\ ~ (i - 1 < k) /\ (i - 1) + 1 = i
        BY <1>1, <1>2, <3>2
      <4>2. t[i - 1] = y
        BY <1>6, <2>4, <4>1
      <4> QED BY <2>1, <4>1, <4>2
    <3> QED BY <1>1, <1>2, <2>4, <3>1, <3>2
  <2> QED BY <2>1, <2>2, <2>3, <2>4
<1> QED BY <1>6, <1>9, <1>10 DEF t

-----------------------------------------------------------------------------
(* Subscriptions *)

fileFrame == <<filePc, fsContext, ctxPc, ctxFile>>

\* What a step does to files, contexts and DPT_Read.
LEMMA ContextMoves ==
    ASSUME TypeOK, [Next]_vars
    PROVE  \/ UNCHANGED <<fileFrame, readPc, readCtx>>
           \/ \E f \in Files : \/ Open(f) \/ Close(f) \/ CloseUnsubscribed(f) \/ FileStep(f)
                               \/ \E s \in Subscribers : CheckSubscription(s, f)
                               \/ \E r \in Reads : Read(r, f)
           \/ \E s \in Subscribers : SubscriberStep(s)
           \/ /\ UNCHANGED <<fileFrame, readCtx>>
              /\ \E r \in Reads, to \in {"check", "context", "mark", "tail", "returned"} :
                    /\ readPc[r] # "returned" /\ (readPc[r] # "idle" \/ to = "returned")
                    /\ readPc' = [readPc EXCEPT ![r] = to]
<1> USE DEF fileFrame, fileVars, linkVars, readVars, ReadGoes
<1>1. CASE UNCHANGED vars
  BY <1>1 DEF vars
<1>2. CASE \E r \in Reads : ReadStep(r)
  BY <1>2 DEF ReadStep, ReadLock, ReadCancelled, ReadQueued, ReadPend, ReadSetContext,
     ReadMarkPending, ReadComplete
<1>3. CASE \E f \in Files, r \in Reads : ReadRefused(r, f)
  BY <1>3 DEF ReadRefused
<1>4. CASE \/ Initialize \/ Unload
           \/ \E r \in Reads : Cancel(r) \/ CancelUnarmed(r) \/ CancelStep(r)
           \/ \E q \in Callers : Issue(q) \/ Broadcast(q) \/ NoTarget(q) \/ CallStep(q)
           \/ \E a \in Answers, id \in Ids : FindRequest(a, id) \/ RefuseAnswer(a, id)
           \/ \E a \in Answers : FinishRequest(a)
  BY <1>4 DEF Initialize, Unload, Cancel, CancelUnarmed, CancelStep, CancelRoutine,
     CancelRemove, CancelComplete, Issue, Broadcast, NoTarget, CallStep, SendMessage,
     SendFails, TakeRead, SkipReads, FillRead, MessageSent, QueueMessage, NoMessage, Wait, Return,
     FindRequest, RefuseAnswer, FinishRequest
<1> QED BY <1>1, <1>2, <1>3, <1>4 DEF Next, Rest

LEMMA ContextStep ==
    ASSUME TypeInv, ContextInv, [Next]_vars
    PROVE  ContextInv'
<1> USE DEF TypeInv, TypeOK, ContextInv
<1> USE DispatchAssumption
<1>1. CASE UNCHANGED <<fileFrame, readPc, readCtx>>
  BY <1>1 DEF fileFrame
<1>2. CASE \E f \in Files : Open(f)
  BY <1>2 DEF Open, FileGoes, linkVars, readVars
<1>3. CASE \E f \in Files : Close(f) \/ CloseUnsubscribed(f)
  <2>1. PICK f \in Files : Close(f) \/ CloseUnsubscribed(f)
    BY <1>3
  <2>2. /\ UNCHANGED <<fsContext, ctxPc, ctxFile, readPc, readCtx>>
        /\ filePc[f] = "open" /\ filePc' = [filePc EXCEPT ![f] = filePc'[f]]
        /\ filePc'[f] \in {"flush", "closed"} /\ ~ InDispatch(f)
    BY <2>1 DEF Close, CloseUnsubscribed, FileGoes, MayClose, linkVars, readVars
  <2>3. /\ \A c \in Subscribers : ctxFile[c] = f => ctxPc[c] \notin {"checked", "insert"}
        /\ \A r \in Reads : readCtx[r] # NoOne /\ ctxFile[readCtx[r]] = f =>
              readPc[r] = "returned"
    <3>1. \A c \in Subscribers : ctxFile[c] = f => ctxPc[c] \notin {"checked", "insert"}
      BY <2>2 DEF InDispatch
    <3>2. \A r \in Reads, c \in Subscribers :
             readCtx[r] = c /\ ctxFile[c] = f => readPc[r] = "returned"
      BY ONLY <2>2 DEF InDispatch
    <3>3. \A r \in Reads : readCtx[r] # NoOne => readCtx[r] \in Subscribers
      OBVIOUS
    <3> QED BY <3>1, <3>2, <3>3
  <2> QED BY <2>2, <2>3
<1>4. CASE \E f \in Files : FileStep(f)
  <2>1. PICK f \in Files : FileStep(f)
    BY <1>4
  <2>2. CASE FinishClose(f)
    BY <2>2 DEF FinishClose, FileGoes, readVars, PcInv
  <2>3. CASE ~ FinishClose(f)
    <3>1. /\ UNCHANGED <<fsContext, ctxPc, ctxFile, readPc, readCtx>>
          /\ filePc[f] \in {"flush", "drain", "complete"}
          /\ filePc' = [filePc EXCEPT ![f] = filePc'[f]]
          /\ filePc'[f] \in {"drain", "complete"}
      BY <2>1, <2>3 DEF FileStep, FlushMessages, DrainRead, DrainComplete, DrainSleep, FileGoes,
         linkVars, readVars, fileVars
    <3> QED BY <3>1
  <2> QED BY <2>2, <2>3
<1>5. CASE \E f \in Files, s \in Subscribers : CheckSubscription(s, f)
  BY <1>5 DEF CheckSubscription, fileVars, readVars
<1>6. CASE \E f \in Files, r \in Reads : Read(r, f)
  BY <1>6 DEF Read, ReadGoes, fileVars, linkVars
<1>7. CASE \E s \in Subscribers : SubscriberStep(s)
  <2>1. PICK s \in Subscribers : SubscriberStep(s)
    BY <1>7
  <2>2. CASE CreateSubscription(s)
    BY <2>2 DEF CreateSubscription, ContextGoes, readVars
  <2>3. CASE CreateSubscriptionFails(s)
    BY <2>3 DEF CreateSubscriptionFails, ContextGoes, fileVars, readVars
  <2>4. CASE InsertSubscription(s)
    BY <2>4 DEF InsertSubscription, ContextGoes, fileVars, readVars
  <2> QED BY <2>1, <2>2, <2>3, <2>4 DEF SubscriberStep
<1>8. CASE /\ UNCHANGED <<fileFrame, readCtx>>
           /\ \E r \in Reads, to \in {"check", "context", "mark", "tail", "returned"} :
                 /\ readPc[r] # "returned" /\ (readPc[r] # "idle" \/ to = "returned")
                 /\ readPc' = [readPc EXCEPT ![r] = to]
  BY <1>8 DEF fileFrame
<1> QED BY <1>1, <1>2, <1>3, <1>4, <1>5, <1>6, <1>7, <1>8, ContextMoves

\* What a step does to callers.
LEMMA CallMoves ==
    ASSUME TypeOK, [Next]_vars
    PROVE  \/ UNCHANGED <<callPc, target>>
           \/ /\ UNCHANGED <<device, fileFrame, subscriptions>>
              /\ \E q \in Callers :
                    \/ Issue(q) \/ Broadcast(q) \/ NoTarget(q)
                    \/ MessageSent(q) \/ QueueMessage(q)
                    \/ /\ UNCHANGED target
                       /\ \E to \in {"scan", "queue", "fill", "sent", "woken", "done"} :
                             /\ callPc' = [callPc EXCEPT ![q] = to]
                             /\ IF to \in {"woken", "done"} THEN callPc[q] \in {"wait", "woken"}
                                ELSE callPc[q] \in {"send", "scan", "fill"}
<1> USE DEF fileFrame, fileVars, linkVars, sendVars
<1>1. CASE UNCHANGED vars
  BY <1>1 DEF vars
<1>2. CASE \E q \in Callers : Issue(q) \/ Broadcast(q) \/ NoTarget(q)
  BY <1>2 DEF Issue, Broadcast, NoTarget
<1>3. CASE \E q \in Callers : CallStep(q)
  BY <1>3 DEF CallStep, SendMessage, SendFails, TakeRead, SkipReads, FillRead, MessageSent,
     QueueMessage, NoMessage, Wait, Return, CallGoes
<1>4. CASE ~ \E q \in Callers : Issue(q) \/ Broadcast(q) \/ NoTarget(q) \/ CallStep(q)
  BY <1>1, <1>4 DEF Next, FileStep, SubscriberStep, ReadStep, CancelStep, Rest, Initialize,
     Unload, Open, Close, CloseUnsubscribed, CheckSubscription, Read, ReadRefused, Cancel,
     CancelUnarmed, FindRequest, RefuseAnswer, FlushMessages, DrainRead, DrainComplete,
     DrainSleep, FinishClose, CreateSubscription, CreateSubscriptionFails,
     InsertSubscription, ReadLock, ReadCancelled, ReadQueued, ReadPend, ReadSetContext,
     ReadMarkPending, ReadComplete, CancelRoutine, CancelRemove, CancelComplete,
     FinishRequest
<1> QED BY <1>2, <1>3, <1>4

\* What a step does to the list of subscriptions.
LEMMA SubscriptionMoves ==
    ASSUME TypeOK, [Next]_vars
    PROVE  \/ UNCHANGED subscriptions
           \/ Unload
           \/ \E s \in Subscribers : InsertSubscription(s)
           \/ \E f \in Files : FinishClose(f)
<1>1. CASE UNCHANGED vars
  BY <1>1 DEF vars, linkVars
<1> QED
  BY <1>1 DEF linkVars, Next, FileStep, SubscriberStep, ReadStep, CancelStep, CallStep, Rest,
     Initialize, Open, Close, CloseUnsubscribed, CheckSubscription, Read, ReadRefused, Cancel,
     CancelUnarmed, FindRequest, RefuseAnswer, FlushMessages, DrainRead, DrainComplete,
     DrainSleep, CreateSubscription, CreateSubscriptionFails, ReadLock, ReadCancelled,
     ReadQueued, ReadPend, ReadSetContext, ReadMarkPending, ReadComplete, CancelRoutine,
     CancelRemove, CancelComplete, FinishRequest, Issue, Broadcast, NoTarget, SendMessage,
     SendFails, TakeRead, SkipReads, FillRead, MessageSent, QueueMessage, NoMessage, Wait, Return

\* A caller sends to contexts of the list only.
LEMMA TargetListed ==
    ASSUME TypeInv, UNCHANGED subscriptions,
           NEW q \in Callers, Issue(q) \/ Broadcast(q) \/ MessageSent(q) \/ QueueMessage(q)
    PROVE  /\ \A p \in Callers : p # q => callPc'[p] = callPc[p] /\ target'[p] = target[p]
           /\ callPc'[q] # "idle"
           /\ callPc'[q] \in {"send", "scan", "fill", "sent", "queue"} =>
                 Contains(subscriptions, target'[q])
<1> USE DEF TypeInv, TypeOK
<1>1. CASE Issue(q) \/ Broadcast(q)
  <2>1. PICK i \in DOMAIN subscriptions : target' = [target EXCEPT ![q] = subscriptions[i]]
    BY <1>1 DEF Issue, Broadcast, FirstTarget, Targets
  <2>2. Contains(subscriptions, subscriptions[i])
    BY <2>1, OnList
  <2> QED BY <1>1, <2>1, <2>2 DEF Issue, Broadcast, CallGoes
<1>2. CASE (MessageSent(q) \/ QueueMessage(q)) /\ NextTarget(q)
  <2>1. PICK i \in 1..(Len(subscriptions) - 1) :
           target' = [target EXCEPT ![q] = subscriptions[i + 1]]
    BY <1>2 DEF NextTarget
  <2>2. DOMAIN subscriptions = 1..Len(subscriptions) /\ Len(subscriptions) \in Nat
    OBVIOUS
  <2>3. i + 1 \in DOMAIN subscriptions
    BY ONLY <2>2, i \in 1..(Len(subscriptions) - 1)
  <2>4. Contains(subscriptions, subscriptions[i + 1])
    BY <2>3, OnList
  <2>5. callPc' = [callPc EXCEPT ![q] = "send"]
    BY <1>2 DEF NextTarget
  <2> QED BY <2>1, <2>4, <2>5
<1>3. CASE (MessageSent(q) \/ QueueMessage(q)) /\ LastTarget(q)
  BY <1>3 DEF LastTarget
<1> QED BY <1>1, <1>2, <1>3 DEF MessageSent, QueueMessage

LEMMA ListStep ==
    ASSUME TypeInv, ContextInv, ContextListInv, [Next]_vars
    PROVE  ContextListInv'
<1> USE DEF TypeInv, TypeOK, ContextInv, ContextListInv
<1> USE DispatchAssumption
<1>1. CASE UNCHANGED <<fileFrame, subscriptions>>
  BY <1>1 DEF fileFrame
<1>2. CASE Unload
  <2>1. subscriptions' = <<>> /\ UNCHANGED fileFrame
    BY <1>2 DEF Unload, fileFrame
  <2>2. IsInjective(subscriptions') /\ \A c : ~ Contains(subscriptions', c)
    BY <2>1, EmptyList
  <2> QED BY <2>1, <2>2 DEF fileFrame
<1>3. ASSUME NEW s \in Subscribers, InsertSubscription(s) PROVE ContextListInv'
  <2>1. /\ subscriptions' = Append(subscriptions, s) /\ UNCHANGED <<filePc, fsContext, ctxFile>>
        /\ ctxPc[s] = "insert" /\ ctxPc' = [ctxPc EXCEPT ![s] = "linked"]
    BY <1>3 DEF InsertSubscription, ContextGoes, fileVars
  <2>2. /\ IsInjective(subscriptions')
        /\ \A c : Contains(subscriptions', c) <=> Contains(subscriptions, c) \/ c = s
    BY <2>1, AppendList
  <2> QED BY <2>1, <2>2
<1>4. ASSUME NEW f \in Files, FinishClose(f) PROVE ContextListInv'
  <2> DEFINE c == fsContext[f]
  <2>1. /\ subscriptions' = Unlink(subscriptions, c) /\ Contains(subscriptions, c)
        /\ UNCHANGED ctxFile /\ ctxPc' = [ctxPc EXCEPT ![c] = "closed"]
        /\ fsContext' = [fsContext EXCEPT ![f] = NoOne]
        /\ filePc[f] = "drain" /\ filePc' = [filePc EXCEPT ![f] = "closed"]
    BY <1>4 DEF FinishClose, FileGoes
  <2>2. /\ IsInjective(subscriptions')
        /\ \A d : Contains(subscriptions', d) <=> Contains(subscriptions, d) /\ d # c
    BY <2>1, UnlinkList
  <2>3. c \in Subscribers /\ ctxFile[c] = f
    BY <2>1 DEF PcInv
  <2>4. ASSUME NEW d \in Subscribers, ctxPc'[d] \in {"insert", "linked"}
        PROVE  IF filePc'[ctxFile'[d]] = "closed"
               THEN \E t \in Subscribers : ctxFile'[t] = ctxFile'[d] /\ ctxPc'[t] = "closed"
               ELSE fsContext'[ctxFile'[d]] # NoOne
    <3>1. CASE ctxFile[d] = f
      BY <2>1, <2>3, <3>1
    <3>2. CASE ctxFile[d] # f
      BY <2>1, <2>3, <2>4, <3>2
    <3> QED BY <3>1, <3>2
  <2> QED BY <2>1, <2>2, <2>3, <2>4
<1>5. CASE UNCHANGED subscriptions /\ \E f \in Files : Open(f)
  BY <1>5 DEF Open, FileGoes, linkVars
<1>6. CASE UNCHANGED subscriptions /\ \E f \in Files : Close(f) \/ CloseUnsubscribed(f)
  BY <1>6 DEF Close, CloseUnsubscribed, FileGoes, linkVars
<1>7. ASSUME NEW f \in Files, FileStep(f), UNCHANGED subscriptions, ~ FinishClose(f)
      PROVE  ContextListInv'
  <2>1. /\ UNCHANGED <<fsContext, ctxPc, ctxFile>>
        /\ filePc[f] # "closed" /\ filePc' = [filePc EXCEPT ![f] = filePc'[f]]
        /\ filePc'[f] # "closed"
    BY <1>7 DEF FileStep, FlushMessages, DrainRead, DrainComplete, DrainSleep, FileGoes, linkVars,
       fileVars
  <2> QED BY <1>7, <2>1
<1>8. CASE UNCHANGED subscriptions /\ \E f \in Files, s \in Subscribers : CheckSubscription(s, f)
  BY <1>8 DEF CheckSubscription, fileVars
<1>9. CASE UNCHANGED subscriptions /\ \E f \in Files, r \in Reads : Read(r, f)
  BY <1>9 DEF Read, fileVars, linkVars
<1>10. CASE UNCHANGED subscriptions /\ \E s \in Subscribers : CreateSubscription(s)
  BY <1>10 DEF CreateSubscription, ContextGoes
<1>11. CASE UNCHANGED subscriptions /\ \E s \in Subscribers : CreateSubscriptionFails(s)
  BY <1>11 DEF CreateSubscriptionFails, ContextGoes, fileVars
<1>12. CASE UNCHANGED subscriptions
  BY <1>1, <1>3, <1>5, <1>6, <1>4, <1>7, <1>8, <1>9, <1>10, <1>11, <1>12, ContextMoves
     DEF SubscriberStep
<1> QED BY <1>2, <1>3, <1>4, <1>12, SubscriptionMoves

LEMMA TargetStep ==
    ASSUME TypeInv, TargetInv, LockInv, [Next]_vars
    PROVE  TargetInv'
<1> USE DEF TypeInv, TypeOK, TargetInv
<1> USE DispatchAssumption
<1>1. CASE UNCHANGED <<subscriptions, callPc, target>>
  BY <1>1
<1>2. CASE /\ UNCHANGED <<callPc, target>>
           /\ Unload \/ \E f \in Files : FinishClose(f)
  <2>1. CASE Unload
    BY <1>2, <2>1 DEF Unload, Quiescent
  <2>2. CASE \E f \in Files : FinishClose(f)
    BY <1>2, <2>2 DEF FinishClose, FileGoes, LockInv
  <2> QED BY <1>2, <2>1, <2>2
<1>3. CASE UNCHANGED <<callPc, target>> /\ \E s \in Subscribers : InsertSubscription(s)
  <2>1. \A c : Contains(subscriptions, c) => Contains(subscriptions', c)
    BY <1>3, AppendList DEF InsertSubscription
  <2> QED BY <1>3, <2>1
<1>4. ASSUME UNCHANGED subscriptions, NEW q \in Callers,
             Issue(q) \/ Broadcast(q) \/ MessageSent(q) \/ QueueMessage(q)
      PROVE  TargetInv'
  BY <1>4, TargetListed
<1>5. CASE UNCHANGED subscriptions /\ \E q \in Callers : NoTarget(q)
  BY <1>5 DEF NoTarget, CallGoes
<1>6. CASE /\ UNCHANGED <<subscriptions, target>>
           /\ \E q \in Callers, to \in {"scan", "queue", "fill", "sent", "woken", "done"} :
                 /\ callPc' = [callPc EXCEPT ![q] = to]
                 /\ IF to \in {"woken", "done"} THEN callPc[q] \in {"wait", "woken"}
                    ELSE callPc[q] \in {"send", "scan", "fill"}
  BY <1>6
<1> QED BY <1>1, <1>2, <1>3, <1>4, <1>5, <1>6, CallMoves, SubscriptionMoves

\* A caller or a read comes to a step that needs a context lock by taking it.
LEMMA LockMoves ==
    ASSUME TypeOK, [Next]_vars
    PROVE  \/ /\ UNCHANGED ctxLock
              /\ \A q \in Callers :
                    callPc'[q] = "scan" => callPc[q] = "scan" /\ target'[q] = target[q]
              /\ \A r \in Reads :
                    readPc'[r] \in {"check", "context"} =>
                       readPc[r] \in {"check", "context"} /\ readCtx'[r] = readCtx[r]
           \/ \E f \in Files : FileStep(f)
           \/ \E r \in Reads :
                 ReadLock(r) \/ ReadCancelled(r) \/ ReadQueued(r) \/ ReadSetContext(r)
           \/ \E q \in Callers : SendMessage(q) \/ TakeRead(q) \/ SkipReads(q)
<1> USE DEF TypeOK, lockVars, sendVars, readVars
<1> DEFINE CallsKept == \A q \in Callers :
              callPc'[q] = "scan" => callPc[q] = "scan" /\ target'[q] = target[q]
<1>1. CASE UNCHANGED vars
  BY <1>1 DEF vars
<1>2. CASE \/ Initialize \/ Unload
           \/ \E f \in Files : Open(f) \/ Close(f) \/ CloseUnsubscribed(f)
           \/ \E f \in Files, s \in Subscribers : CheckSubscription(s, f)
           \/ \E s \in Subscribers : SubscriberStep(s)
           \/ \E r \in Reads : Cancel(r) \/ CancelUnarmed(r) \/ CancelStep(r)
           \/ \E a \in Answers, id \in Ids : FindRequest(a, id) \/ RefuseAnswer(a, id)
           \/ \E a \in Answers : FinishRequest(a)
  BY <1>2 DEF Initialize, Unload, Open, Close, CloseUnsubscribed, CheckSubscription,
     SubscriberStep, CreateSubscription, CreateSubscriptionFails, InsertSubscription, Cancel,
     CancelUnarmed, CancelStep, CancelRoutine, CancelRemove, CancelComplete, FindRequest,
     RefuseAnswer, FinishRequest
<1>3. CASE \/ \E f \in Files, r \in Reads : Read(r, f) \/ ReadRefused(r, f)
           \/ \E r \in Reads : ReadPend(r) \/ ReadMarkPending(r) \/ ReadComplete(r)
  BY <1>3 DEF Read, ReadRefused, ReadPend, ReadMarkPending, ReadComplete, ReadGoes
<1>4. ASSUME NEW q \in Callers, Issue(q) \/ Broadcast(q) \/ NoTarget(q) \/ MessageSent(q) \/
             QueueMessage(q)
      PROVE  CallsKept
  <2>1. CASE Issue(q) \/ Broadcast(q)
    BY <2>1 DEF Issue, Broadcast, FirstTarget, CallGoes
  <2>2. CASE NoTarget(q)
    BY <2>2 DEF NoTarget, CallGoes
  <2>3. CASE (MessageSent(q) \/ QueueMessage(q)) /\ NextTarget(q)
    BY <2>3 DEF NextTarget
  <2>4. CASE (MessageSent(q) \/ QueueMessage(q)) /\ LastTarget(q)
    BY <2>4 DEF LastTarget
  <2> QED BY <1>4, <2>1, <2>2, <2>3, <2>4 DEF MessageSent, QueueMessage
<1>5. ASSUME NEW q \in Callers,
             SendFails(q) \/ FillRead(q) \/ NoMessage(q) \/ Wait(q) \/ Return(q)
      PROVE  CallsKept
  BY <1>5 DEF SendFails, FillRead, NoMessage, Wait, Return, CallGoes
<1>6. CASE \E q \in Callers :
              \/ Issue(q) \/ Broadcast(q) \/ NoTarget(q) \/ MessageSent(q) \/ QueueMessage(q)
              \/ SendFails(q) \/ FillRead(q) \/ NoMessage(q) \/ Wait(q) \/ Return(q)
  <2>1. UNCHANGED <<ctxLock, readPc, readCtx>>
    BY <1>6 DEF Issue, Broadcast, NoTarget, MessageSent, QueueMessage, SendFails, FillRead,
       NoMessage, Wait, Return
  <2> QED BY <1>4, <1>5, <1>6, <2>1
<1> QED BY <1>1, <1>2, <1>3, <1>6 DEF Next, ReadStep, CallStep, Rest

LEMMA ContextLockStep ==
    ASSUME TypeInv, LockInv, ContextLockInv, [Next]_vars
    PROVE  ContextLockInv'
<1> USE DEF TypeInv, TypeOK, PcInv, ContextLockInv
<1> USE DispatchAssumption
<1>1. CASE /\ UNCHANGED ctxLock
           /\ \A q \in Callers :
                 callPc'[q] = "scan" => callPc[q] = "scan" /\ target'[q] = target[q]
           /\ \A r \in Reads :
                 readPc'[r] \in {"check", "context"} =>
                    readPc[r] \in {"check", "context"} /\ readCtx'[r] = readCtx[r]
  BY <1>1
<1>2. ASSUME NEW f \in Files, FileStep(f) PROVE ContextLockInv'
  <2>1. UNCHANGED <<callPc, target, readPc, readCtx>>
    BY <1>2 DEF FileStep, FlushMessages, DrainRead, DrainComplete, DrainSleep, FinishClose,
       sendVars, readVars
  <2>2. \A c \in Subscribers : ctxLock'[c] = ctxLock[c] \/ ctxLock[c] \in {f, NoOne}
    BY <1>2 DEF FileStep, FlushMessages, DrainRead, DrainComplete, DrainSleep, FinishClose,
       DrainLock, lockVars
  <2>3. \A q \in Callers : q \notin {f, NoOne}
    BY <1>2
  <2>4. \A r \in Reads : r \notin {f, NoOne}
    BY <1>2
  <2>5. \A q \in Callers : callPc'[q] = "scan" => ctxLock'[target'[q]] = q
    BY <2>1, <2>2, <2>3
  <2>6. \A r \in Reads : readPc'[r] \in {"check", "context"} => ctxLock'[readCtx'[r]] = r
    BY <2>1, <2>2, <2>4
  <2> QED BY <2>5, <2>6
<1>3. ASSUME NEW r \in Reads, ReadLock(r) PROVE ContextLockInv'
  BY <1>3 DEF ReadLock, ReadGoes, sendVars
<1>4. ASSUME NEW r \in Reads, ReadCancelled(r) \/ ReadQueued(r) \/ ReadSetContext(r)
      PROVE  ContextLockInv'
  <2>1. /\ UNCHANGED <<callPc, target, readCtx>> /\ readPc[r] \in {"check", "context"}
        /\ ctxLock' = [ctxLock EXCEPT ![readCtx[r]] = NoOne]
        /\ readPc' = [readPc EXCEPT ![r] = readPc'[r]]
        /\ readPc'[r] \in {"tail", "mark"}
    BY <1>4 DEF ReadCancelled, ReadQueued, ReadSetContext, ReadGoes, sendVars
  <2> QED BY <2>1
<1>5. ASSUME NEW q \in Callers, SendMessage(q) PROVE ContextLockInv'
  BY <1>5 DEF SendMessage, CallGoes, readVars
<1>6. ASSUME NEW q \in Callers, TakeRead(q) \/ SkipReads(q) PROVE ContextLockInv'
  <2>1. /\ UNCHANGED <<target, readPc, readCtx>> /\ callPc[q] = "scan"
        /\ ctxLock' = [ctxLock EXCEPT ![target[q]] = NoOne]
        /\ callPc' = [callPc EXCEPT ![q] = callPc'[q]] /\ callPc'[q] # "scan"
    BY <1>6 DEF TakeRead, SkipReads, CallGoes, readVars
  <2> QED BY <2>1
<1> QED BY <1>1, <1>2, <1>3, <1>4, <1>5, <1>6, LockMoves

-----------------------------------------------------------------------------
(* Who completes a read *)

\* What a step does to the reads that were taken to be completed.
LEMMA TakenMoves ==
    ASSUME TypeOK, [Next]_vars
    PROVE  \/ /\ UNCHANGED taken
              /\ \A q \in Callers : callPc[q] = "fill" => callPc'[q] = "fill"
              /\ \A f \in Files : filePc[f] = "complete" => filePc'[f] = "complete"
           \/ \E f \in Files : DrainRead(f) \/ DrainComplete(f)
           \/ \E q \in Callers : TakeRead(q) \/ FillRead(q)
<1> USE DEF TypeOK, sendVars, fileVars
<1>1. CASE UNCHANGED vars
  BY <1>1 DEF vars
<1>2. CASE \E f \in Files : \/ Open(f) \/ Close(f) \/ CloseUnsubscribed(f)
                            \/ FlushMessages(f) \/ DrainSleep(f) \/ FinishClose(f)
  BY <1>2 DEF Open, Close, CloseUnsubscribed, FlushMessages, DrainSleep, FinishClose, FileGoes
<1>3. CASE \E q \in Callers : MessageSent(q) \/ QueueMessage(q)
  BY <1>3 DEF MessageSent, QueueMessage, NextTarget, LastTarget
<1>4. CASE \E q \in Callers : \/ Issue(q) \/ Broadcast(q) \/ NoTarget(q) \/ SendMessage(q)
                              \/ SendFails(q) \/ SkipReads(q) \/ NoMessage(q)
                              \/ Wait(q) \/ Return(q)
  BY <1>4 DEF Issue, Broadcast, NoTarget, SendMessage, SendFails, SkipReads, NoMessage, Wait,
     Return, CallGoes
<1>5. CASE \/ Initialize \/ Unload
           \/ \E f \in Files, s \in Subscribers : CheckSubscription(s, f)
           \/ \E s \in Subscribers : SubscriberStep(s)
           \/ \E f \in Files, r \in Reads : Read(r, f) \/ ReadRefused(r, f)
           \/ \E r \in Reads : ReadStep(r) \/ Cancel(r) \/ CancelUnarmed(r) \/ CancelStep(r)
           \/ \E a \in Answers, id \in Ids : FindRequest(a, id) \/ RefuseAnswer(a, id)
           \/ \E a \in Answers : FinishRequest(a)
  BY <1>5 DEF Initialize, Unload, CheckSubscription, SubscriberStep, CreateSubscription,
     CreateSubscriptionFails, InsertSubscription, Read, ReadRefused, ReadStep, ReadLock,
     ReadCancelled, ReadQueued, ReadPend, ReadSetContext, ReadMarkPending, ReadComplete,
     Cancel, CancelUnarmed, CancelStep, CancelRoutine, CancelRemove, CancelComplete,
     FindRequest, RefuseAnswer, FinishRequest
<1> QED BY <1>1, <1>2, <1>3, <1>4, <1>5 DEF Next, FileStep, CallStep, Rest

\* What DPT_CancelPendingReads and DPT_SendMessage do when they take a read.
TakesRead(t, c, r) ==
    /\ t \in Callers \cup Files /\ c \in Subscribers /\ r \in Reads
    /\ taken[t] = NoOne /\ r \in armed /\ Contains(pendedReads[c], r)
    /\ armed' = armed \ {r}
    /\ taken' = [taken EXCEPT ![t] = r]
    /\ \E list \in Seq(Reads) :
          /\ pendedReads' = [pendedReads EXCEPT ![c] = list]
          /\ IsInjective(list)
          /\ \A x : Contains(list, x) <=> Contains(pendedReads[c], x) /\ x # r
    /\ UNCHANGED <<readPc, readCtx, driverContext, completed, cancelPc, early, fault,
                   delivered, cancelled>>

LEMMA DrainTakes ==
    ASSUME TypeInv, HolderInv, Running => ListedInv, NEW f \in Files, DrainRead(f)
    PROVE  \E r \in Reads : TakesRead(f, fsContext[f], r)
<1> USE DEF TypeInv, TypeOK, PcInv
<1> DEFINE c == fsContext[f]
           r == Head(pendedReads[c])
           list == Tail(pendedReads[c])
<1>1. /\ c \in Subscribers /\ pendedReads[c] # <<>> /\ pendedReads[c] \in Seq(Reads)
      /\ ListedInv
  BY DEF DrainRead, FileGoes
<1>2. IsInjective(pendedReads[c])
  BY <1>1 DEF ListedInv
<1>3. /\ r \in Reads /\ Contains(pendedReads[c], r) /\ list \in Seq(Reads) /\ IsInjective(list)
      /\ \A x : Contains(list, x) <=> Contains(pendedReads[c], x) /\ x # r
  BY <1>1, <1>2, TailList
<1>4. /\ r \in armed /\ armed' = armed \ {r} /\ taken' = [taken EXCEPT ![f] = r]
      /\ pendedReads' = [pendedReads EXCEPT ![c] = list]
      /\ UNCHANGED <<readPc, readCtx, driverContext, completed, cancelPc, early, fault,
                     delivered, cancelled>>
  BY DEF DrainRead, Completable, readVars, doneVars
<1>5. taken[f] = NoOne
  BY DEF DrainRead, FileGoes, HolderInv
<1> HIDE DEF c, r, list
<1>6. \E l \in Seq(Reads) : /\ pendedReads' = [pendedReads EXCEPT ![c] = l] /\ IsInjective(l)
                            /\ \A x : Contains(l, x) <=> Contains(pendedReads[c], x) /\ x # r
  BY <1>3, <1>4
<1>7. TakesRead(f, c, r)
  BY <1>1, <1>3, <1>4, <1>5, <1>6 DEF TakesRead
<1> QED BY <1>3, <1>7 DEF c

LEMMA SendTakes ==
    ASSUME TypeInv, HolderInv, Running => ListedInv, NEW q \in Callers, TakeRead(q)
    PROVE  \E r \in Reads : TakesRead(q, target[q], r)
<1> USE DEF TypeInv, TypeOK, PcInv
<1> DEFINE c == target[q]
<1>1. c \in Subscribers /\ pendedReads[c] \in Seq(Reads) /\ ListedInv
  BY DEF TakeRead, CallGoes
<1>2. IsInjective(pendedReads[c])
  BY <1>1 DEF ListedInv
<1>3. PICK i \in DOMAIN pendedReads[c] :
        /\ pendedReads[c][i] \in armed /\ armed' = armed \ {pendedReads[c][i]}
        /\ pendedReads' = [pendedReads EXCEPT ![c] = Unlink(@, pendedReads[c][i])]
        /\ taken' = [taken EXCEPT ![q] = pendedReads[c][i]]
  BY DEF TakeRead, Completable
<1> DEFINE r == pendedReads[c][i]
           list == Unlink(pendedReads[c], r)
<1>4. r \in Reads /\ Contains(pendedReads[c], r)
  BY <1>1, <1>3, OnList
<1>5. /\ list \in Seq(Reads) /\ IsInjective(list)
      /\ \A x : Contains(list, x) <=> Contains(pendedReads[c], x) /\ x # r
  BY <1>1, <1>2, <1>4, UnlinkList
<1>6. pendedReads' = [pendedReads EXCEPT ![c] = list]
  BY <1>1, <1>3
<1>7. r \in armed /\ armed' = armed \ {r} /\ taken' = [taken EXCEPT ![q] = r]
  BY <1>3
<1>8. /\ taken[q] = NoOne
      /\ UNCHANGED <<readPc, readCtx, driverContext, completed, cancelPc, early, fault, delivered,
                     cancelled>>
  BY DEF TakeRead, CallGoes, HolderInv, readVars, doneVars
<1> HIDE DEF c, r, list
<1>9. \E l \in Seq(Reads) : /\ pendedReads' = [pendedReads EXCEPT ![c] = l] /\ IsInjective(l)
                            /\ \A x : Contains(l, x) <=> Contains(pendedReads[c], x) /\ x # r
  BY <1>5, <1>6
<1>10. TakesRead(q, c, r)
  BY <1>1, <1>4, <1>7, <1>8, <1>9 DEF TakesRead
<1> QED BY <1>4, <1>10 DEF c

LEMMA HolderStep ==
    ASSUME TypeInv, HolderInv, Running => ListedInv, [Next]_vars
    PROVE  HolderInv'
<1> USE DEF TypeInv, TypeOK, PcInv, HolderInv
<1> USE DispatchAssumption
<1>1. CASE /\ UNCHANGED taken
           /\ \A q \in Callers : callPc[q] = "fill" => callPc'[q] = "fill"
           /\ \A f \in Files : filePc[f] = "complete" => filePc'[f] = "complete"
  BY <1>1
<1>2. ASSUME NEW f \in Files, DrainRead(f) PROVE HolderInv'
  <2>1. PICK r \in Reads : TakesRead(f, fsContext[f], r)
    BY <1>2, DrainTakes
  <2>2. \A t \in Callers \cup Files : taken[t] # r
    BY <1>2, <2>1 DEF TakesRead, ListedInv, DrainRead, FileGoes
  <2>3. taken' = [taken EXCEPT ![f] = r] /\ filePc' = [filePc EXCEPT ![f] = "complete"]
        /\ UNCHANGED callPc
    BY <1>2, <2>1 DEF DrainRead, FileGoes, TakesRead
  <2> QED BY <2>2, <2>3
<1>3. ASSUME NEW q \in Callers, TakeRead(q) PROVE HolderInv'
  <2>1. PICK r \in Reads : TakesRead(q, target[q], r)
    BY <1>3, SendTakes
  <2>2. \A t \in Callers \cup Files : taken[t] # r
    BY <1>3, <2>1 DEF TakesRead, ListedInv, TakeRead, CallGoes
  <2>3. taken' = [taken EXCEPT ![q] = r] /\ callPc' = [callPc EXCEPT ![q] = "fill"]
        /\ UNCHANGED filePc
    BY <1>3, <2>1 DEF TakeRead, CallGoes, TakesRead, fileVars
  <2> QED BY <2>2, <2>3
<1>4. CASE \E f \in Files : DrainComplete(f)
  BY <1>4 DEF DrainComplete, FileGoes
<1>5. CASE \E q \in Callers : FillRead(q)
  BY <1>5 DEF FillRead, CallGoes, fileVars
<1> QED BY <1>1, <1>2, <1>3, <1>4, <1>5, TakenMoves

readFrame == <<fault, readPc, readCtx, driverContext, pendedReads, armed, completed, cancelPc,
               early, taken>>

LEMMA ReadMoves ==
    ASSUME [Next]_vars
    PROVE  \/ UNCHANGED readFrame
           \/ Unload
           \/ \E f \in Files : \/ DrainRead(f) \/ DrainComplete(f)
                               \/ \E r \in Reads : Read(r, f) \/ ReadRefused(r, f)
           \/ \E r \in Reads : Cancel(r) \/ ReadStep(r) \/ CancelStep(r)
           \/ \E q \in Callers : TakeRead(q) \/ FillRead(q) \/ NoMessage(q)
<1> USE DEF readFrame, doneVars, readVars, queueVars, cancelVars, sendVars
<1>1. CASE UNCHANGED vars
  BY <1>1 DEF vars
<1> QED
  BY <1>1 DEF Next, FileStep, SubscriberStep, CallStep, Rest, Initialize, Open, Close,
     CloseUnsubscribed, CheckSubscription, CancelUnarmed, FindRequest, RefuseAnswer,
     FlushMessages, DrainSleep, FinishClose, CreateSubscription, CreateSubscriptionFails,
     InsertSubscription, FinishRequest, Issue, Broadcast, NoTarget, SendMessage, SendFails,
     SkipReads, MessageSent, QueueMessage, Wait, Return

\* A published read is taken off its list.
LEMMA ReadTaken ==
    ASSUME TypeInv, HolderInv, ReadInv, NEW t, NEW c, NEW r, TakesRead(t, c, r),
           readPc[r] # "context"
    PROVE  ReadInv'
<1> USE DEF TypeInv, TypeOK, ReadInv
<1> USE DispatchAssumption
<1>1. /\ t \in Callers \cup Files /\ c \in Subscribers /\ r \in Reads
      /\ taken[t] = NoOne /\ r \in armed /\ Contains(pendedReads[c], r)
      /\ armed' = armed \ {r}
      /\ taken' = [taken EXCEPT ![t] = r]
      /\ UNCHANGED <<readPc, readCtx, driverContext, completed, cancelPc, early, fault>>
  BY DEF TakesRead
<1>2. PICK list \in Seq(Reads) :
        /\ pendedReads' = [pendedReads EXCEPT ![c] = list]
        /\ IsInjective(list)
        /\ \A x : Contains(list, x) <=> Contains(pendedReads[c], x) /\ x # r
  BY DEF TakesRead
<1>3. /\ readCtx[r] = c /\ readPc[r] \in {"mark", "returned"} /\ r \notin completed
      /\ cancelPc[r] = "idle" /\ driverContext[r] # NoOne
      /\ \A u \in Callers \cup Files : taken[u] # r
  BY <1>1 DEF ListedInv, CancelInv, ProgressInv, Progress
<1>4. \A d \in Subscribers, x \in Reads :
         Contains(pendedReads'[d], x) <=> Contains(pendedReads[d], x) /\ x # r
  BY <1>1, <1>2, <1>3 DEF ListedInv
<1>5. \A u \in Callers \cup Files : taken'[u] = IF u = t THEN r ELSE taken[u]
  BY <1>1
<1>6. ListedInv'
  <2>1. \A d \in Subscribers : IsInjective(pendedReads'[d])
    BY <1>1, <1>2 DEF ListedInv
  <2>2. ASSUME NEW d \in Subscribers, NEW x \in Reads, Contains(pendedReads'[d], x)
        PROVE  /\ readCtx'[x] = d /\ readPc'[x] \in {"context", "mark", "returned"}
               /\ x \notin completed'
               /\ \A u \in Callers \cup Files : taken'[u] # x
               /\ ArmedOrTaken(x)' \/ cancelPc'[x] = "remove"
    BY <1>1, <1>4, <1>5, <2>2 DEF ListedInv, ArmedOrTaken
  <2> QED BY <2>1, <2>2 DEF ListedInv
<1>7. TakenInv'
  BY <1>1, <1>3, <1>5 DEF TakenInv
<1>8. CancelInv'
  <2>1. ASSUME NEW x \in Reads, cancelPc[x] \in {"routine", "remove"}, driverContext[x] # NoOne
        PROVE  Contains(pendedReads'[driverContext[x]], x)
    BY <1>3, <1>4, <2>1 DEF CancelInv
  <2>2. ASSUME NEW x \in Reads, cancelPc[x] = "complete", NEW u \in Callers \cup Files
        PROVE  x \notin completed /\ taken'[u] # x
    <3>1. x # r
      BY <1>3, <2>2
    <3>2. taken[u] # x /\ x \notin completed
      BY <2>2 DEF CancelInv
    <3> QED BY <1>5, <3>1, <3>2
  <2> QED BY <1>1, <2>1, <2>2 DEF CancelInv
<1>9. ProgressInv'
  <2>1. ASSUME NEW x \in Reads, readPc[x] \in {"mark", "returned"}, x \notin completed
        PROVE  \/ Contains(pendedReads'[readCtx[x]], x)
               \/ \E u \in Callers \cup Files : taken'[u] = x
               \/ cancelPc[x] = "complete"
    <3>1. CASE x = r
      BY <1>1, <1>5, <3>1
    <3>2. CASE x # r /\ Contains(pendedReads[readCtx[x]], x)
      <4>1. readCtx[x] \in Subscribers
        BY <2>1 DEF ProgressInv, Progress
      <4> QED BY <1>4, <3>2, <4>1
    <3>3. CASE \E u \in Callers \cup Files : taken[u] = x
      BY <1>1, <1>5, <3>3
    <3> QED BY <2>1, <3>1, <3>2, <3>3 DEF ProgressInv, Progress
  <2>2. ASSUME NEW x \in Reads, readPc[x] = "context"
        PROVE  Contains(pendedReads'[readCtx[x]], x)
    <3>1. x # r /\ Contains(pendedReads[readCtx[x]], x)
      BY <1>3, <2>2 DEF ProgressInv, Progress
    <3>2. CASE readCtx[x] \in Subscribers
      BY <1>4, <3>1, <3>2
    <3>3. CASE readCtx[x] = NoOne
      BY <2>2, <3>3 DEF PcInv
    <3> QED BY <3>2, <3>3
  <2>3. \A x \in Reads : readPc[x] = "check" => ArmedOrTaken(x)'
    BY <1>1, <1>3 DEF ProgressInv, Progress, ArmedOrTaken
  <2> QED BY <1>1, <2>1, <2>2, <2>3 DEF ProgressInv, Progress
<1> QED BY <1>6, <1>7, <1>8, <1>9

\* A sender or a closing file completes the read it has taken: the first to do so.
LEMMA ReadCompleted ==
    ASSUME TypeInv, HolderInv, ReadInv, NEW t \in Callers \cup Files, taken[t] # NoOne,
           completed' = completed \cup {taken[t]}, taken' = [taken EXCEPT ![t] = NoOne],
           UNCHANGED <<readPc, readCtx, driverContext, pendedReads, armed, cancelPc, early>>
    PROVE  ReadInv' /\ taken[t] \notin completed
<1> USE DEF TypeInv, TypeOK, ReadInv
<1> USE DispatchAssumption
<1> DEFINE r == taken[t]
<1>1. /\ r \in Reads /\ r \notin completed /\ r \notin armed /\ cancelPc[r] = "idle"
      /\ readPc[r] \in {"mark", "returned"} /\ driverContext[r] # NoOne
      /\ \A c \in Subscribers : ~ Contains(pendedReads[c], r)
  <2>1. r \in Reads
    OBVIOUS
  <2>2. /\ r \notin completed /\ r \notin armed /\ cancelPc[r] = "idle"
        /\ readPc[r] \in {"mark", "returned"} /\ driverContext[r] # NoOne
    BY <2>1 DEF TakenInv
  <2>3. \A c \in Subscribers : ~ Contains(pendedReads[c], r)
    BY <2>1 DEF ListedInv
  <2> QED BY <2>1, <2>2, <2>3
<1>2. \A u \in Callers \cup Files : taken'[u] = IF u = t THEN NoOne ELSE taken[u]
  OBVIOUS
<1>3. \A u \in Callers \cup Files : taken'[u] # r
  BY <1>1, <1>2 DEF HolderInv
<1>4. completed' = completed \cup {r}
  OBVIOUS
<1> HIDE DEF r
<1>5. ListedInv'
  BY <1>1, <1>2, <1>4 DEF ListedInv, ArmedOrTaken
<1>6. TakenInv'
  BY <1>2, <1>3, <1>4 DEF TakenInv
<1>7. CancelInv'
  BY <1>1, <1>2, <1>4 DEF CancelInv
<1>8. ProgressInv'
  <2>1. ASSUME NEW x \in Reads, readPc[x] \in {"mark", "returned"}, x \notin completed'
        PROVE  \/ Contains(pendedReads[readCtx[x]], x)
               \/ \E u \in Callers \cup Files : taken'[u] = x
               \/ cancelPc[x] = "complete"
    <3>1. x # r /\ x \notin completed
      BY <1>4, <2>1
    <3>2. \A u \in Callers \cup Files : taken[u] = x => u # t
      BY <3>1 DEF r
    <3> QED BY <1>2, <2>1, <3>1, <3>2 DEF ProgressInv, Progress
  <2>2. \A x \in Reads : readPc[x] = "check" => ArmedOrTaken(x)'
    BY DEF ProgressInv, Progress, ArmedOrTaken
  <2> QED BY <1>1, <1>4, <2>1, <2>2 DEF ProgressInv, Progress
<1> QED BY <1>1, <1>5, <1>6, <1>7, <1>8 DEF r

\* The steps of DPT_Read before the read is on a list, and the ones that finish it.
LEMMA ReadLocked ==
    ASSUME TypeInv, ReadInv, NEW r \in Reads,
           \/ \E f \in Files : Read(r, f) \/ ReadRefused(r, f)
           \/ ReadLock(r) \/ ReadCancelled(r) \/ ReadQueued(r) \/ ReadComplete(r)
           \/ ReadMarkPending(r)
    PROVE  ReadInv'
<1> USE DEF TypeInv, TypeOK, ReadInv
<1> USE DispatchAssumption
<1>1. /\ UNCHANGED <<driverContext, pendedReads, cancelPc, early, taken>>
      /\ readPc' = [readPc EXCEPT ![r] = readPc'[r]]
      /\ \/ readPc[r] = "idle" /\ readPc'[r] = "lock" /\ UNCHANGED <<armed, completed>>
            /\ readCtx' = [readCtx EXCEPT ![r] = readCtx'[r]]
         \/ readPc[r] = "idle" /\ readPc'[r] = "returned" /\ UNCHANGED <<armed, readCtx>>
            /\ completed' = completed \cup {r}
         \/ readPc[r] = "lock" /\ readPc'[r] = "check" /\ armed' = armed \cup {r}
            /\ UNCHANGED <<readCtx, completed>>
         \/ readPc[r] = "check" /\ readPc'[r] = "tail" /\ armed' \in {armed, armed \ {r}}
            /\ UNCHANGED <<readCtx, completed>>
         \/ readPc[r] = "tail" /\ readPc'[r] = "returned" /\ completed' = completed \cup {r}
            /\ UNCHANGED <<armed, readCtx>>
         \/ readPc[r] = "mark" /\ readPc'[r] = "returned"
            /\ UNCHANGED <<armed, completed, readCtx>>
  BY DEF Read, ReadRefused, ReadLock, ReadCancelled, ReadQueued, ReadComplete, ReadMarkPending,
     ReadGoes, IoCompleteRequest, queueVars, cancelVars, sendVars, doneVars, readVars
<1>2. readPc[r] # "mark" =>
         /\ \A c \in Subscribers : ~ Contains(pendedReads[c], r)
         /\ \A t \in Callers \cup Files : taken[t] # r
         /\ driverContext[r] = NoOne /\ r \notin completed
         /\ cancelPc[r] \in {"idle", "routine"}
  <2> SUFFICES ASSUME readPc[r] # "mark"
               PROVE  /\ \A c \in Subscribers : ~ Contains(pendedReads[c], r)
                      /\ \A t \in Callers \cup Files : taken[t] # r
                      /\ driverContext[r] = NoOne /\ r \notin completed
                      /\ cancelPc[r] \in {"idle", "routine"}
    OBVIOUS
  <2>1. readPc[r] \in {"idle", "lock", "check", "tail"}
    BY <1>1
  <2>2. \A c \in Subscribers : ~ Contains(pendedReads[c], r)
    BY <2>1 DEF ListedInv
  <2>3. \A t \in Callers \cup Files : taken[t] # r
    BY <2>1 DEF TakenInv
  <2>4. driverContext[r] = NoOne /\ r \notin completed
    BY <2>1 DEF ProgressInv, Progress
  <2>5. cancelPc[r] \in {"idle", "routine"}
    BY <2>4 DEF CancelInv
  <2> QED BY <2>2, <2>3, <2>4, <2>5
<1>3. /\ armed' \subseteq armed \cup {r} /\ armed \subseteq armed' \cup {r}
      /\ completed' \subseteq completed \cup {r} /\ completed \subseteq completed'
      /\ readPc[r] = "mark" => armed' = armed /\ completed' = completed
  BY <1>1
<1>4. \A x \in Reads : x # r => readPc'[x] = readPc[x] /\ readCtx'[x] = readCtx[x]
  BY <1>1
<1>5. ListedInv'
  <2>1. ASSUME NEW d \in Subscribers, NEW x \in Reads, Contains(pendedReads[d], x)
        PROVE  /\ readCtx'[x] = d /\ readPc'[x] \in {"context", "mark", "returned"}
               /\ x \notin completed'
               /\ \A u \in Callers \cup Files : taken'[u] # x
               /\ ArmedOrTaken(x)' \/ cancelPc'[x] = "remove"
    <3>1. /\ readCtx[x] = d /\ readPc[x] \in {"context", "mark", "returned"}
          /\ x \notin completed
          /\ \A u \in Callers \cup Files : taken[u] # x
          /\ ArmedOrTaken(x) \/ cancelPc[x] = "remove"
      BY <1>1, <2>1 DEF ListedInv
    <3>2. CASE x # r
      <4>1. readPc'[x] = readPc[x] /\ readCtx'[x] = readCtx[x]
        BY <1>4, <3>2
      <4>2. (x \in armed' <=> x \in armed) /\ (x \in completed' <=> x \in completed)
        BY <1>3, <3>2
      <4> QED BY <1>1, <3>1, <4>1, <4>2 DEF ArmedOrTaken
    <3>3. CASE x = r
      <4>1. readPc[r] = "mark" /\ readPc'[r] = "returned" /\ UNCHANGED <<armed, completed, readCtx>>
        BY <1>1, <1>2, <2>1, <3>3
      <4> QED BY <1>1, <3>1, <3>3, <4>1 DEF ArmedOrTaken
    <3> QED BY <3>2, <3>3
  <2> QED BY <1>1, <2>1 DEF ListedInv
<1>6. TakenInv'
  <2> SUFFICES ASSUME NEW t \in Callers \cup Files, NEW x \in Reads, taken[t] = x
               PROVE  /\ readPc'[x] \in {"mark", "returned"} /\ driverContext[x] # NoOne
                      /\ x \notin completed' /\ x \notin armed' /\ cancelPc[x] = "idle"
    BY <1>1 DEF TakenInv
  <2>1. /\ readPc[x] \in {"mark", "returned"} /\ driverContext[x] # NoOne
        /\ x \notin completed /\ x \notin armed /\ cancelPc[x] = "idle"
    BY DEF TakenInv
  <2>2. x = r => readPc[r] = "mark"
    BY <1>2
  <2> QED BY <1>1, <1>3, <1>4, <2>1, <2>2
<1>7. CancelInv'
  <2>1. \A x \in Reads : x \in armed' => cancelPc[x] = "idle"
    BY <1>1 DEF CancelInv, ProgressInv, Progress
  <2>2. \A x \in Reads : cancelPc[x] = "complete" => x \notin completed'
    BY <1>2, <1>3 DEF CancelInv
  <2> QED BY <1>1, <2>1, <2>2 DEF CancelInv
<1>8. ProgressInv'
  <2>1. ASSUME NEW x \in Reads, x # r
        PROVE  Progress(x)'
    <3>1. readPc'[x] = readPc[x] /\ readCtx'[x] = readCtx[x]
      BY <1>4, <2>1
    <3>2. (x \in armed' <=> x \in armed) /\ (x \in completed' <=> x \in completed)
      BY <1>3, <2>1
    <3>3. Progress(x)
      BY DEF ProgressInv
    <3> HIDE DEF TypeOK
    <3> QED BY ONLY <1>1, <3>1, <3>2, <3>3 DEF Progress, ArmedOrTaken
  <2>2. Progress(r)'
    <3>1. Progress(r) /\ (r \in armed => cancelPc[r] = "idle")
      BY DEF ProgressInv, CancelInv
    <3>2. CASE readPc'[r] = "lock"
      <4>1. readPc[r] = "idle" /\ armed' = armed /\ completed' = completed
        BY <1>1, <3>2
      <4> HIDE DEF TypeOK
      <4> QED BY ONLY <1>1, <1>2, <3>1, <3>2, <4>1 DEF Progress
    <3>3. CASE readPc'[r] = "check"
      <4>1. readPc[r] = "lock" /\ armed' = armed \cup {r} /\ completed' = completed
        BY <1>1, <3>3
      <4> HIDE DEF TypeOK
      <4> QED BY ONLY <1>1, <1>2, <3>1, <3>3, <4>1 DEF Progress, ArmedOrTaken
    <3>4. CASE readPc'[r] = "tail"
      <4>1. readPc[r] = "check" /\ completed' = completed
        BY <1>1, <3>4
      <4> HIDE DEF TypeOK
      <4> QED BY ONLY <1>1, <1>2, <3>1, <3>4, <4>1 DEF Progress
    <3>5. CASE readPc'[r] = "returned"
      <4>1. CASE readPc[r] = "mark"
        <5>1. completed' = completed /\ readCtx'[r] = readCtx[r]
          BY <1>1, <3>5, <4>1
        <5> HIDE DEF TypeOK
        <5> QED BY ONLY <1>1, <3>1, <3>5, <4>1, <5>1 DEF Progress
      <4>2. CASE readPc[r] # "mark"
        <5>1. r \in completed' /\ driverContext'[r] = NoOne
          BY <1>1, <1>2, <3>5, <4>2
        <5> HIDE DEF TypeOK
        <5> QED BY ONLY <3>5, <5>1 DEF Progress
      <4> QED BY <4>1, <4>2
    <3> QED BY <1>1, <3>2, <3>3, <3>4, <3>5
  <2> QED BY <2>1, <2>2 DEF ProgressInv, Progress
<1> QED BY <1>5, <1>6, <1>7, <1>8

\* A read that DPT_Read appends is on no list before.
LEMMA ReadPended ==
    ASSUME TypeInv, ReadInv, NEW r \in Reads, ReadPend(r)
    PROVE  ReadInv'
<1> USE DEF TypeInv, TypeOK, PcInv, ReadInv
<1> USE DispatchAssumption
<1> DEFINE c == readCtx[r]
           list == Append(pendedReads[c], r)
<1>1. /\ UNCHANGED <<driverContext, cancelPc, early, taken, armed, completed, readCtx>>
      /\ readPc[r] = "check" /\ readPc' = [readPc EXCEPT ![r] = "context"]
      /\ pendedReads' = [pendedReads EXCEPT ![c] = list]
  BY DEF ReadPend, ReadGoes, cancelVars, sendVars, doneVars
<1>2. c \in Subscribers /\ pendedReads[c] \in Seq(Reads) /\ list \in Seq(Reads)
  BY <1>1
<1>3. /\ \A d \in Subscribers : ~ Contains(pendedReads[d], r)
      /\ \A t \in Callers \cup Files : taken[t] # r
      /\ r \notin completed /\ driverContext[r] = NoOne /\ ArmedOrTaken(r)
  BY <1>1 DEF ListedInv, TakenInv, ProgressInv, Progress
<1>4. IsInjective(list) /\ \A x : Contains(list, x) <=> Contains(pendedReads[c], x) \/ x = r
  BY <1>2, <1>3, AppendList DEF ListedInv
<1> HIDE DEF list
<1>5. \A d \in Subscribers, x \in Reads :
         Contains(pendedReads'[d], x) <=> Contains(pendedReads[d], x) \/ (x = r /\ d = c)
  BY <1>1, <1>2, <1>4
<1> HIDE DEF c
<1>6. \A x \in Reads : readPc'[x] = IF x = r THEN "context" ELSE readPc[x]
  BY <1>1
<1>7. ListedInv'
  <2>1. \A d \in Subscribers : IsInjective(pendedReads'[d])
    BY <1>1, <1>2, <1>4 DEF ListedInv
  <2>2. ASSUME NEW d \in Subscribers, NEW x \in Reads, Contains(pendedReads'[d], x)
        PROVE  /\ readCtx'[x] = d /\ readPc'[x] \in {"context", "mark", "returned"}
               /\ x \notin completed'
               /\ \A u \in Callers \cup Files : taken'[u] # x
               /\ ArmedOrTaken(x)' \/ cancelPc'[x] = "remove"
    <3>1. CASE x = r
      <4>1. d = c
        BY <1>3, <1>5, <2>2, <3>1
      <4> QED BY <1>1, <1>3, <1>6, <3>1, <4>1 DEF ArmedOrTaken, c
    <3>2. CASE x # r
      <4>1. Contains(pendedReads[d], x)
        BY <1>5, <2>2, <3>2
      <4> QED BY <1>1, <1>6, <3>2, <4>1 DEF ListedInv, ArmedOrTaken
    <3> QED BY <3>1, <3>2
  <2> QED BY <2>1, <2>2 DEF ListedInv
<1>8. TakenInv'
  <2> SUFFICES ASSUME NEW t \in Callers \cup Files, NEW x \in Reads, taken[t] = x
               PROVE  /\ readPc'[x] \in {"mark", "returned"} /\ driverContext'[x] # NoOne
                      /\ x \notin completed' /\ x \notin armed' /\ cancelPc'[x] = "idle"
    BY <1>1 DEF TakenInv
  <2>1. /\ readPc[x] \in {"mark", "returned"} /\ driverContext[x] # NoOne
        /\ x \notin completed /\ x \notin armed /\ cancelPc[x] = "idle"
    BY DEF TakenInv
  <2>2. x # r
    BY <1>3
  <2> QED BY <1>1, <1>6, <2>1, <2>2
<1>9. CancelInv'
  <2>1. ASSUME NEW x \in Reads, cancelPc[x] \in {"routine", "remove"}, driverContext[x] # NoOne
        PROVE  Contains(pendedReads'[driverContext[x]], x)
    <3>1. Contains(pendedReads[driverContext[x]], x)
      BY <2>1 DEF CancelInv
    <3>2. driverContext[x] \in Subscribers
      BY <2>1
    <3> QED BY <1>5, <3>1, <3>2
  <2> QED BY <1>1, <2>1 DEF CancelInv
<1>10. ASSUME NEW x \in Reads PROVE Progress(x)'
  <2>1. CASE x = r
    <3>1. Contains(pendedReads'[readCtx[r]], r)
      BY <1>2, <1>5 DEF c
    <3> QED BY <1>1, <1>3, <1>6, <2>1, <3>1 DEF Progress
  <2>2. CASE x # r
    <3>1. Progress(x) /\ readPc'[x] = readPc[x]
      BY <1>6, <2>2 DEF ProgressInv
    <3>2. Contains(pendedReads'[readCtx[x]], x) <=> Contains(pendedReads[readCtx[x]], x)
      <4>1. CASE readCtx[x] \in Subscribers
        BY <1>5, <2>2, <4>1
      <4>2. CASE readCtx[x] = NoOne
        BY <1>1, <1>2, <4>2
      <4> QED BY <4>1, <4>2
    <3> HIDE DEF TypeOK
    <3> QED BY ONLY <1>1, <3>1, <3>2 DEF Progress, ArmedOrTaken
  <2> QED BY <2>1, <2>2
<1> QED BY <1>7, <1>8, <1>9, <1>10 DEF ProgressInv

\* A read whose DriverContext[0] is set is published.
LEMMA ReadPublished ==
    ASSUME TypeInv, ReadInv, NEW r \in Reads, ReadSetContext(r)
    PROVE  ReadInv'
<1> USE DEF TypeInv, TypeOK, PcInv, ReadInv
<1> USE DispatchAssumption
<1>1. /\ UNCHANGED <<pendedReads, cancelPc, early, taken, armed, completed, readCtx>>
      /\ readPc[r] = "context" /\ readPc' = [readPc EXCEPT ![r] = "mark"]
      /\ driverContext' = [driverContext EXCEPT ![r] = readCtx[r]]
  BY DEF ReadSetContext, ReadGoes, cancelVars, sendVars, doneVars, queueVars
<1>2. readCtx[r] \in Subscribers /\ Contains(pendedReads[readCtx[r]], r)
  BY <1>1 DEF ProgressInv, Progress
<1>3. r \notin completed /\ \A t \in Callers \cup Files : taken[t] # r
  BY <1>2 DEF ListedInv
<1>4. \A x \in Reads : /\ readPc'[x] = IF x = r THEN "mark" ELSE readPc[x]
                       /\ driverContext'[x] = IF x = r THEN readCtx[r] ELSE driverContext[x]
  BY <1>1
<1>5. ListedInv'
  BY <1>1, <1>4 DEF ListedInv, ArmedOrTaken
<1>6. TakenInv'
  <2> SUFFICES ASSUME NEW t \in Callers \cup Files, NEW x \in Reads, taken[t] = x
               PROVE  /\ readPc'[x] \in {"mark", "returned"} /\ driverContext'[x] # NoOne
                      /\ x \notin completed' /\ x \notin armed' /\ cancelPc'[x] = "idle"
    BY <1>1 DEF TakenInv
  <2>1. /\ readPc[x] \in {"mark", "returned"} /\ driverContext[x] # NoOne
        /\ x \notin completed /\ x \notin armed /\ cancelPc[x] = "idle"
    BY DEF TakenInv
  <2>2. x # r
    BY <1>3
  <2> QED BY <1>1, <1>4, <2>1, <2>2
<1>7. CancelInv'
  BY <1>1, <1>2, <1>4 DEF CancelInv
<1>8. ASSUME NEW x \in Reads PROVE Progress(x)'
  <2>1. CASE x = r
    BY <1>1, <1>2, <1>3, <1>4, <2>1 DEF Progress
  <2>2. CASE x # r
    <3>1. Progress(x) /\ readPc'[x] = readPc[x] /\ driverContext'[x] = driverContext[x]
      BY <1>4, <2>2 DEF ProgressInv
    <3> HIDE DEF TypeOK
    <3> QED BY ONLY <1>1, <3>1 DEF Progress, ArmedOrTaken
  <2> QED BY <2>1, <2>2
<1> QED BY <1>5, <1>6, <1>7, <1>8 DEF ProgressInv

\* IoCancelIrp takes the routine of a read that is on its list, or was not published.
LEMMA ReadCancelTaken ==
    ASSUME TypeInv, ReadInv, NEW r \in Reads, Cancel(r)
    PROVE  ReadInv'
<1> USE DEF TypeInv, TypeOK, ReadInv
<1> USE DispatchAssumption
<1>1. /\ UNCHANGED <<readPc, readCtx, driverContext, pendedReads, taken, completed>>
      /\ r \in armed /\ armed' = armed \ {r} /\ r \notin completed /\ readPc[r] # "idle"
      /\ cancelPc' = [cancelPc EXCEPT ![r] = "routine"]
      /\ early' = IF readPc[r] \in {"check", "context", "tail"} THEN early \cup {r} ELSE early
  BY DEF Cancel, readVars, sendVars, doneVars, queueVars
<1>2. /\ readPc[r] \notin {"idle", "lock"} /\ cancelPc[r] = "idle"
      /\ \A t \in Callers \cup Files : taken[t] # r
      /\ driverContext[r] # NoOne => Contains(pendedReads[driverContext[r]], r)
      /\ driverContext[r] = NoOne => readPc[r] \in {"check", "context", "tail"}
  <2>1. cancelPc[r] = "idle"
    BY <1>1 DEF CancelInv
  <2>2. \A t \in Callers \cup Files : taken[t] # r
    BY <1>1 DEF TakenInv
  <2>3. readPc[r] \notin {"idle", "lock"}
    BY <1>1 DEF ProgressInv, Progress
  <2>4. driverContext[r] # NoOne => Contains(pendedReads[driverContext[r]], r)
    BY <1>1, <2>1, <2>2 DEF ProgressInv, Progress
  <2>5. driverContext[r] = NoOne => readPc[r] \in {"check", "context", "tail"}
    BY <1>1, <2>3 DEF ProgressInv, Progress
  <2> QED BY <2>1, <2>2, <2>3, <2>4, <2>5
<1>3. \A x \in Reads : /\ cancelPc'[x] = IF x = r THEN "routine" ELSE cancelPc[x]
                       /\ x \in armed' <=> x \in armed /\ x # r
  BY <1>1
<1>4. \A x \in Reads : x \in early => x \in early'
  BY <1>1
<1>5. ListedInv'
  BY <1>1, <1>3 DEF ListedInv, ArmedOrTaken
<1>6. TakenInv'
  BY <1>1, <1>2, <1>3 DEF TakenInv
<1>7. CancelInv'
  BY <1>1, <1>2, <1>3, <1>4 DEF CancelInv
<1>8. ASSUME NEW x \in Reads PROVE Progress(x)'
  <2>1. Progress(x)
    BY DEF ProgressInv
  <2>2. CASE x = r
    BY <1>1, <1>2, <1>3, <2>1, <2>2 DEF Progress, ArmedOrTaken
  <2>3. CASE x # r
    <3>1. cancelPc'[x] = cancelPc[x] /\ (x \in armed' <=> x \in armed)
      BY <1>3, <2>3
    <3> HIDE DEF TypeOK
    <3> QED BY ONLY <1>1, <2>1, <3>1 DEF Progress, ArmedOrTaken
  <2> QED BY <2>2, <2>3
<1> QED BY <1>5, <1>6, <1>7, <1>8 DEF ProgressInv

\* DPT_ReadCancel finds the context of a published read ...
LEMMA ReadCancelStarted ==
    ASSUME TypeInv, ReadInv, NEW r \in Reads, CancelRoutine(r), driverContext[r] # NoOne
    PROVE  ReadInv'
<1> USE DEF TypeInv, TypeOK, ReadInv
<1> USE DispatchAssumption
<1>1. /\ UNCHANGED <<readPc, readCtx, driverContext, pendedReads, taken, completed, armed, early>>
      /\ cancelPc[r] = "routine" /\ cancelPc' = [cancelPc EXCEPT ![r] = "remove"]
  BY DEF CancelRoutine, CancelGoes, readVars, sendVars, queueVars
<1>2. \A x \in Reads : cancelPc'[x] = IF x = r THEN "remove" ELSE cancelPc[x]
  BY <1>1
<1>3. ListedInv'
  BY <1>1, <1>2 DEF ListedInv, ArmedOrTaken
<1>4. TakenInv'
  <2>1. \A t \in Callers \cup Files : taken[t] # r
    BY <1>1 DEF TakenInv
  <2> HIDE DEF TypeOK
  <2> QED BY <1>1, <1>2, <2>1 DEF TakenInv
<1>5. CancelInv'
  <2>1. Contains(pendedReads[driverContext[r]], r) /\ r \notin armed
    BY <1>1 DEF CancelInv
  <2>2. \A x \in Reads : x # r => cancelPc'[x] = cancelPc[x]
    BY <1>2
  <2>3. cancelPc'[r] = "remove"
    BY <1>2
  <2> HIDE DEF TypeOK
  <2> QED BY <1>1, <2>1, <2>2, <2>3 DEF CancelInv
<1>6. ASSUME NEW x \in Reads PROVE Progress(x)'
  <2>1. Progress(x)
    BY DEF ProgressInv
  <2>2. CASE x = r
    BY <1>1, <1>2, <2>1, <2>2 DEF Progress
  <2>3. CASE x # r
    <3>1. cancelPc'[x] = cancelPc[x]
      BY <1>2, <2>3
    <3> HIDE DEF TypeOK
    <3> QED BY ONLY <1>1, <2>1, <3>1 DEF Progress, ArmedOrTaken
  <2> QED BY <2>2, <2>3
<1> QED BY <1>3, <1>4, <1>5, <1>6 DEF ProgressInv

\* ... finds the read on the list of that context ...
LEMMA ReadCancelFinds ==
    ASSUME TypeInv, ReadInv, Running, NEW r \in Reads, CancelRemove(r)
    PROVE  Contains(pendedReads[driverContext[r]], r)
BY DEF TypeInv, PcInv, ReadInv, CancelInv, CancelRemove, CancelGoes

LEMMA ReadCancelRemoved ==
    ASSUME TypeInv, ReadInv, NEW r \in Reads, CancelRemove(r)
    PROVE  ReadInv'
<1> USE DEF TypeInv, TypeOK, PcInv, ReadInv
<1> USE DispatchAssumption
<1> DEFINE c == driverContext[r]
           list == Unlink(pendedReads[c], r)
<1>1. /\ UNCHANGED <<readPc, readCtx, driverContext, taken, completed, armed, early>>
      /\ cancelPc[r] = "remove" /\ cancelPc' = [cancelPc EXCEPT ![r] = "complete"]
      /\ Running
  BY DEF CancelRemove, CancelGoes, readVars, sendVars
<1>2. c \in Subscribers /\ Contains(pendedReads[c], r)
  BY <1>1, ReadCancelFinds
<1>3. pendedReads' = [pendedReads EXCEPT ![c] = list]
  BY <1>2 DEF CancelRemove
<1>4. /\ list \in Seq(Reads) /\ IsInjective(list)
      /\ \A x : Contains(list, x) <=> Contains(pendedReads[c], x) /\ x # r
  BY <1>2, UnlinkList DEF ListedInv
<1>5. /\ readCtx[r] = c /\ r \notin completed
      /\ \A t \in Callers \cup Files : taken[t] # r
  BY <1>2 DEF ListedInv
<1> HIDE DEF list
<1>6. \A d \in Subscribers, x \in Reads :
         Contains(pendedReads'[d], x) <=> Contains(pendedReads[d], x) /\ x # r
  BY <1>2, <1>3, <1>4, <1>5 DEF ListedInv
<1>7. \A x \in Reads : cancelPc'[x] = IF x = r THEN "complete" ELSE cancelPc[x]
  BY <1>1
<1>8. ListedInv'
  <2>1. \A d \in Subscribers : IsInjective(pendedReads'[d])
    BY <1>2, <1>3, <1>4 DEF ListedInv
  <2>2. ASSUME NEW d \in Subscribers, NEW x \in Reads, Contains(pendedReads'[d], x)
        PROVE  /\ readCtx'[x] = d /\ readPc'[x] \in {"context", "mark", "returned"}
               /\ x \notin completed'
               /\ \A u \in Callers \cup Files : taken'[u] # x
               /\ ArmedOrTaken(x)' \/ cancelPc'[x] = "remove"
    BY <1>1, <1>6, <1>7, <2>2 DEF ListedInv, ArmedOrTaken
  <2> QED BY <2>1, <2>2 DEF ListedInv
<1>9. TakenInv'
  <2> SUFFICES ASSUME NEW t \in Callers \cup Files, NEW x \in Reads, taken[t] = x
               PROVE  /\ readPc'[x] \in {"mark", "returned"} /\ driverContext'[x] # NoOne
                      /\ x \notin completed' /\ x \notin armed' /\ cancelPc'[x] = "idle"
    BY <1>1 DEF TakenInv
  <2>1. /\ readPc[x] \in {"mark", "returned"} /\ driverContext[x] # NoOne
        /\ x \notin completed /\ x \notin armed /\ cancelPc[x] = "idle"
    BY DEF TakenInv
  <2>2. x # r
    BY <1>5
  <2> QED BY <1>1, <1>7, <2>1, <2>2
<1>10. CancelInv'
  <2>1. ASSUME NEW x \in Reads, cancelPc'[x] \in {"routine", "remove"}, driverContext[x] # NoOne
        PROVE  Contains(pendedReads'[driverContext[x]], x)
    <3>1. x # r /\ Contains(pendedReads[driverContext[x]], x)
      BY <1>7, <2>1 DEF CancelInv
    <3>2. driverContext[x] \in Subscribers
      BY <2>1
    <3> QED BY <1>6, <3>1, <3>2
  <2> QED BY <1>1, <1>2, <1>5, <1>7, <2>1 DEF CancelInv
<1>11. ASSUME NEW x \in Reads PROVE Progress(x)'
  <2>1. Progress(x)
    BY DEF ProgressInv
  <2>2. CASE x = r
    <3>1. readPc[r] \in {"mark", "returned"}
      BY <1>2, <2>1, <2>2 DEF Progress
    <3> QED BY <1>1, <1>5, <1>7, <2>1, <2>2, <3>1 DEF Progress
  <2>3. CASE x # r
    <3>1. cancelPc'[x] = cancelPc[x]
      BY <1>7, <2>3
    <3>2. Contains(pendedReads'[readCtx[x]], x) <=> Contains(pendedReads[readCtx[x]], x)
      <4>1. CASE readCtx[x] \in Subscribers
        BY <1>6, <2>3, <4>1
      <4>2. CASE readCtx[x] = NoOne
        BY <1>2, <1>3, <4>2
      <4> QED BY <4>1, <4>2
    <3> HIDE DEF TypeOK
    <3> QED BY ONLY <1>1, <2>1, <3>1, <3>2 DEF Progress, ArmedOrTaken
  <2> QED BY <2>2, <2>3
<1> QED BY <1>8, <1>9, <1>10, <1>11 DEF ProgressInv

\* ... and is the first to complete it.
LEMMA ReadCancelCompleted ==
    ASSUME TypeInv, ReadInv, NEW r \in Reads, CancelComplete(r)
    PROVE  ReadInv' /\ r \notin completed
<1> USE DEF TypeInv, TypeOK, ReadInv
<1> USE DispatchAssumption
<1>1. /\ UNCHANGED <<readPc, readCtx, driverContext, pendedReads, taken, armed, early>>
      /\ cancelPc[r] = "complete" /\ cancelPc' = [cancelPc EXCEPT ![r] = "done"]
      /\ completed' = completed \cup {r}
  BY DEF CancelComplete, CancelGoes, IoCompleteRequest, readVars, sendVars, queueVars
<1>2. /\ r \notin completed /\ driverContext[r] # NoOne /\ r \notin armed
      /\ \A t \in Callers \cup Files : taken[t] # r
  BY <1>1 DEF CancelInv
<1>3. /\ \A c \in Subscribers : ~ Contains(pendedReads[c], r)
      /\ readPc[r] \in {"mark", "returned"}
  BY <1>1, <1>2 DEF ListedInv, ArmedOrTaken, ProgressInv, Progress
<1>4. \A x \in Reads : /\ cancelPc'[x] = IF x = r THEN "done" ELSE cancelPc[x]
                       /\ x \in completed' <=> x \in completed \/ x = r
  BY <1>1
<1>5. ListedInv'
  BY <1>1, <1>3, <1>4 DEF ListedInv, ArmedOrTaken
<1>6. TakenInv'
  BY <1>1, <1>2, <1>4 DEF TakenInv
<1>7. CancelInv'
  BY <1>1, <1>2, <1>4 DEF CancelInv
<1>8. ASSUME NEW x \in Reads PROVE Progress(x)'
  <2>1. Progress(x)
    BY DEF ProgressInv
  <2>2. CASE x = r
    BY <1>1, <1>2, <1>3, <1>4, <2>1, <2>2 DEF Progress
  <2>3. CASE x # r
    <3>1. cancelPc'[x] = cancelPc[x] /\ (x \in completed' <=> x \in completed)
      BY <1>4, <2>3
    <3> HIDE DEF TypeOK
    <3> QED BY ONLY <1>1, <2>1, <3>1 DEF Progress, ArmedOrTaken
  <2> QED BY <2>2, <2>3
<1> QED BY <1>2, <1>5, <1>6, <1>7, <1>8 DEF ProgressInv

\* DPT_Cleanup completes the reads of every list it empties.
LEMMA ReadUnloaded ==
    ASSUME TypeInv, HolderInv, ReadInv, Unload
    PROVE  ReadInv'
<1> USE DEF TypeInv, TypeOK, ReadInv
<1> USE DispatchAssumption
<1> DEFINE left == ToSet(subscriptions)
           reads == UNION {ToSet(pendedReads[c]) : c \in left}
<1>1. /\ UNCHANGED <<readPc, readCtx, driverContext, taken, early, cancelPc>>
      /\ completed' = completed \cup reads /\ armed' = armed \ reads
      /\ pendedReads' = [c \in Subscribers |-> IF c \in left THEN <<>> ELSE pendedReads[c]]
      /\ \A x \in Reads : readPc[x] \in {"idle", "returned"} /\ cancelPc[x] \in {"idle", "done"}
  BY DEF Unload, Quiescent, readVars, sendVars
<1>2. \A t \in Callers \cup Files : taken[t] = NoOne
  BY DEF Unload, Quiescent, HolderInv
<1>3. \A x : x \in reads <=> \E c \in left : x \in ToSet(pendedReads[c])
  OBVIOUS
<1>4. left \subseteq Subscribers
  BY DEF ToSet
<1>5. \A c \in Subscribers, x \in Reads :
         x \in ToSet(pendedReads[c]) <=> Contains(pendedReads[c], x)
  BY DEF ToSet, Contains
<1> HIDE DEF left, reads
<1>6. \A x \in Reads : x \in reads <=> readCtx[x] \in left /\ Contains(pendedReads[readCtx[x]], x)
  BY <1>3, <1>4, <1>5 DEF ListedInv
<1>7. \A c \in Subscribers, x \in Reads :
         Contains(pendedReads'[c], x) <=> Contains(pendedReads[c], x) /\ c \notin left
  BY <1>1, EmptyList
<1>8. ListedInv'
  <2>1. \A d \in Subscribers : IsInjective(pendedReads'[d])
    BY <1>1, EmptyList DEF ListedInv
  <2>2. ASSUME NEW d \in Subscribers, NEW x \in Reads, Contains(pendedReads'[d], x)
        PROVE  /\ readCtx'[x] = d /\ readPc'[x] \in {"context", "mark", "returned"}
               /\ x \notin completed'
               /\ \A u \in Callers \cup Files : taken'[u] # x
               /\ ArmedOrTaken(x)' \/ cancelPc'[x] = "remove"
    <3>1. Contains(pendedReads[d], x) /\ d \notin left
      BY <1>7, <2>2
    <3>2. /\ readCtx[x] = d /\ readPc[x] \in {"context", "mark", "returned"}
          /\ x \notin completed /\ \A u \in Callers \cup Files : taken[u] # x
          /\ ArmedOrTaken(x) \/ cancelPc[x] = "remove"
      BY <3>1 DEF ListedInv
    <3>3. x \notin reads
      BY <1>6, <3>1, <3>2
    <3> QED BY <1>1, <3>2, <3>3 DEF ArmedOrTaken
  <2> QED BY <2>1, <2>2 DEF ListedInv
<1>9. TakenInv'
  BY <1>1, <1>2 DEF TakenInv
<1>10. CancelInv'
  BY <1>1 DEF CancelInv
<1>11. ASSUME NEW x \in Reads PROVE Progress(x)'
  <2>1. Progress(x)
    BY DEF ProgressInv
  <2>2. ASSUME readPc[x] = "idle", x \in reads PROVE FALSE
    <3>1. readCtx[x] \in Subscribers /\ Contains(pendedReads[readCtx[x]], x)
      BY <1>4, <1>6, <2>2
    <3>2. readPc[x] \in {"context", "mark", "returned"}
      BY <3>1 DEF ListedInv
    <3> QED BY <2>2, <3>2
  <2>3. x \in completed' <=> x \in completed \/ x \in reads
    BY <1>1
  <2>4. Contains(pendedReads[readCtx[x]], x) /\ x \notin reads /\ readCtx[x] # NoOne =>
           Contains(pendedReads'[readCtx[x]], x)
    BY <1>6, <1>7
  <2>5. readPc[x] \in {"mark", "returned"} /\ x \notin completed => readCtx[x] # NoOne
    BY <2>1 DEF Progress
  <2>6. x \in armed' => x \in armed
    BY <1>1
  <2>7. readPc[x] \in {"idle", "returned"}
    BY <1>1
  <2> HIDE DEF TypeOK
  <2> QED BY ONLY <1>1, <2>1, <2>2, <2>3, <2>4, <2>5, <2>6, <2>7 DEF Progress, ArmedOrTaken
<1> QED BY <1>8, <1>9, <1>10, <1>11 DEF ProgressInv

\* Every step of a machine that goes on running keeps ReadInv.
LEMMA ReadsStep ==
    ASSUME TypeInv, LockInv, ContextLockInv, HolderInv, Running => ReadInv, [Next]_vars, Running'
    PROVE  ReadInv'
<1>1. CASE UNCHANGED readFrame
  BY <1>1 DEF readFrame, Running, ReadInv, ListedInv, TakenInv, CancelInv, ProgressInv, Progress,
     ArmedOrTaken
<1>2. CASE Unload
  BY <1>2, ReadUnloaded DEF Unload
<1>3. ASSUME NEW f \in Files, DrainRead(f) PROVE ReadInv'
  <2>1. PICK r \in Reads : TakesRead(f, fsContext[f], r)
    BY <1>3, DrainTakes DEF ReadInv
  <2>2. readPc[r] # "context"
    <3>1. /\ Running /\ ReadInv /\ fsContext[f] \in Subscribers
          /\ Contains(pendedReads[fsContext[f]], r)
      BY <1>3, <2>1 DEF TakesRead, DrainRead, FileGoes
    <3>2. readCtx[r] = fsContext[f]
      BY <3>1 DEF ReadInv, ListedInv
    <3>3. ctxLock[fsContext[f]] \in {f, NoOne}
      BY <1>3 DEF DrainRead, DrainLock
    <3> QED BY <3>2, <3>3, DispatchAssumption DEF ContextLockInv
  <2> QED BY <1>3, <2>1, <2>2, ReadTaken DEF DrainRead, FileGoes
<1>4. ASSUME NEW q \in Callers, TakeRead(q) PROVE ReadInv'
  <2>1. PICK r \in Reads : TakesRead(q, target[q], r)
    BY <1>4, SendTakes DEF ReadInv
  <2>2. readPc[r] # "context"
    <3>1. Running /\ ReadInv /\ Contains(pendedReads[target[q]], r) /\ target[q] \in Subscribers
      BY <1>4, <2>1 DEF TakesRead, TakeRead, CallGoes
    <3>2. readCtx[r] = target[q]
      BY <3>1 DEF ReadInv, ListedInv
    <3>3. ctxLock[target[q]] = q
      BY <1>4 DEF TakeRead, CallGoes, ContextLockInv
    <3> QED BY <3>2, <3>3, DispatchAssumption DEF ContextLockInv
  <2> QED BY <1>4, <2>1, <2>2, ReadTaken DEF TakeRead, CallGoes
<1>5. ASSUME NEW f \in Files, DrainComplete(f) PROVE ReadInv'
  BY <1>5, ReadCompleted DEF DrainComplete, FileGoes, IoCompleteRequest, TypeInv, PcInv, readVars,
     queueVars, cancelVars
<1>6. ASSUME NEW q \in Callers, FillRead(q) PROVE ReadInv'
  BY <1>6, ReadCompleted DEF FillRead, CallGoes, IoCompleteRequest, TypeInv, PcInv, readVars,
     queueVars, cancelVars
<1>7. ASSUME NEW f \in Files, NEW r \in Reads, Read(r, f) \/ ReadRefused(r, f) PROVE ReadInv'
  BY <1>7, ReadLocked DEF Read, ReadRefused, ReadGoes
<1>8. ASSUME NEW r \in Reads, ReadStep(r) PROVE ReadInv'
  <2>1. Running
    BY <1>8 DEF ReadStep, ReadLock, ReadCancelled, ReadQueued, ReadPend, ReadSetContext,
       ReadMarkPending, ReadComplete, ReadGoes
  <2> QED BY <1>8, <2>1, ReadLocked, ReadPended, ReadPublished DEF ReadStep
<1>9. ASSUME NEW r \in Reads, Cancel(r) PROVE ReadInv'
  BY <1>9, ReadCancelTaken DEF Cancel
<1>10. ASSUME NEW r \in Reads, CancelRoutine(r) PROVE ReadInv'
  BY <1>10, ReadCancelStarted DEF CancelRoutine, CancelGoes, Running
<1>11. ASSUME NEW r \in Reads, CancelRemove(r) \/ CancelComplete(r) PROVE ReadInv'
  BY <1>11, ReadCancelRemoved, ReadCancelCompleted DEF CancelRemove, CancelComplete, CancelGoes
<1>12. ASSUME NEW q \in Callers, NoMessage(q) PROVE ReadInv'
  BY <1>12 DEF NoMessage, Running
<1> QED BY <1>1, <1>2, <1>3, <1>4, <1>5, <1>6, <1>7, <1>8, <1>9, <1>10, <1>11, <1>12, ReadMoves
        DEF CancelStep

-----------------------------------------------------------------------------
(* Faults and closed contexts *)

\* Nothing runs after a fault.
LEMMA FaultIsFinal == ASSUME ~ Running, [Next]_vars PROVE UNCHANGED vars
BY DEF Next, FileStep, SubscriberStep, ReadStep, CancelStep, CallStep, Rest, Initialize, Unload,
   Open, Close, CloseUnsubscribed, CheckSubscription, Read, ReadRefused, Cancel, CancelUnarmed,
   FindRequest, RefuseAnswer, FlushMessages, DrainRead, DrainComplete, DrainSleep,
   FinishClose, CreateSubscription, CreateSubscriptionFails, InsertSubscription, ReadLock,
   ReadCancelled, ReadQueued, ReadPend, ReadSetContext, ReadMarkPending, ReadComplete,
   CancelRoutine, CancelRemove, CancelComplete, FinishRequest, Issue, Broadcast, NoTarget,
   SendMessage, SendFails, TakeRead, SkipReads, FillRead, MessageSent, QueueMessage, NoMessage,
   Wait, Return, FileGoes, ContextGoes, ReadGoes, CancelGoes, CallGoes, AnswerGoes

LEMMA FaultStep ==
    ASSUME TypeInv, ContextInv, ContextListInv, HolderInv, Running => ReadInv, FaultInv,
           [Next]_vars
    PROVE  FaultInv'
<1>1. CASE ~ Running
  BY <1>1, FaultIsFinal DEF vars, fileVars, linkVars, readVars, cancelVars, doneVars, FaultInv,
     UnsetContext, LeftoverOnlyByDoubleSubscribe
<1>2. CASE fault' = "none"
  BY <1>2 DEF FaultInv, LeftoverOnlyByDoubleSubscribe
<1>3. ASSUME Running, ReadInv, Unload, fault' # "none" PROVE FaultInv'
  <2>1. fault' = "freed_link" /\ ToSet(subscriptions) # {} /\ UNCHANGED <<ctxPc, ctxFile>>
    BY <1>3 DEF Unload
  <2>2. PICK s \in Subscribers : Contains(subscriptions, s)
    BY <2>1 DEF ToSet, Contains, TypeInv, TypeOK
  <2>3. ctxPc[s] = "linked" /\ ctxFile[s] \in Files /\ filePc[ctxFile[s]] = "closed"
    BY <1>3, <2>2 DEF ContextListInv, ContextInv, Unload
  <2>4. PICK t \in Subscribers : ctxFile[t] = ctxFile[s] /\ ctxPc[t] = "closed"
    BY <2>3 DEF ContextListInv
  <2>5. s # t
    BY <2>3, <2>4
  <2> QED BY <2>1, <2>3, <2>4, <2>5 DEF FaultInv, LeftoverOnlyByDoubleSubscribe
<1>4. ASSUME Running, ReadInv, NEW r \in Reads, ReadStep(r), fault' # "none" PROVE FaultInv'
  <2>1. CASE ReadComplete(r)
    BY <1>4, <2>1 DEF ReadComplete, ReadGoes, IoCompleteRequest, ReadInv, ProgressInv, Progress
  <2>2. CASE ReadMarkPending(r)
    BY <1>4, <2>2 DEF ReadMarkPending, FaultInv, LeftoverOnlyByDoubleSubscribe
  <2>3. CASE UNCHANGED fault
    BY <1>4, <2>3 DEF Running
  <2> QED BY <1>4, <2>1, <2>2, <2>3 DEF ReadStep, ReadLock, ReadCancelled, ReadQueued, ReadPend,
            ReadSetContext, doneVars
<1>5. ASSUME Running, ReadInv, NEW r \in Reads, CancelStep(r), fault' # "none" PROVE FaultInv'
  <2>1. CASE CancelRoutine(r)
    <3>1. /\ cancelPc[r] = "routine" /\ cancelPc' = [cancelPc EXCEPT ![r] = "remove"]
          /\ fault' = "unset_context" /\ driverContext[r] = NoOne
          /\ UNCHANGED <<driverContext, early>>
      BY <1>5, <2>1 DEF CancelRoutine, CancelGoes, readVars
    <3>2. r \in early /\ \A x \in Reads : cancelPc[x] = "remove" => driverContext[x] # NoOne
      BY <1>5, <3>1 DEF ReadInv, CancelInv
    <3>3. UnsetContext' = {r}
      BY <3>1, <3>2 DEF UnsetContext, TypeInv, TypeOK
    <3> QED BY <3>1, <3>2, <3>3 DEF FaultInv, LeftoverOnlyByDoubleSubscribe
  <2>2. CASE CancelRemove(r)
    <3>1. Contains(pendedReads[driverContext[r]], r)
      BY <1>5, <2>2, ReadCancelFinds
    <3>2. UNCHANGED fault
      BY <2>2, <3>1 DEF CancelRemove
    <3> QED BY <1>5, <3>2 DEF Running
  <2>3. CASE CancelComplete(r)
    <3>1. r \notin completed
      BY <1>5, <2>3, ReadCancelCompleted
    <3> QED BY <1>5, <2>3, <3>1 DEF CancelComplete, IoCompleteRequest
  <2> QED BY <1>5, <2>1, <2>2, <2>3 DEF CancelStep
<1>6. ASSUME Running, ReadInv, NEW t \in Callers \cup Files, taken[t] # NoOne,
             IoCompleteRequest(taken[t]), fault' # "none"
      PROVE  FALSE
  BY <1>6 DEF IoCompleteRequest, ReadInv, TakenInv, TypeInv, TypeOK
<1>7. ASSUME Running, ReadInv, fault' # "none",
             \/ \E f \in Files : DrainComplete(f)
             \/ \E q \in Callers : FillRead(q)
      PROVE  FALSE
  BY <1>6, <1>7 DEF DrainComplete, FileGoes, FillRead, CallGoes, TypeInv, PcInv
<1>9. ASSUME NEW q \in Callers, NoMessage(q) PROVE FaultInv'
  BY <1>9 DEF NoMessage, FaultInv, LeftoverOnlyByDoubleSubscribe
<1>8. CASE /\ Running
           /\ \/ UNCHANGED readFrame
              \/ \E f \in Files : \/ DrainRead(f)
                                  \/ \E r \in Reads : Read(r, f) \/ ReadRefused(r, f)
              \/ \E r \in Reads : Cancel(r)
              \/ \E q \in Callers : TakeRead(q)
  BY <1>2, <1>8 DEF readFrame, DrainRead, Read, ReadRefused, Cancel, TakeRead, doneVars, Running
<1> QED BY <1>1, <1>2, <1>3, <1>4, <1>5, <1>7, <1>8, <1>9, ReadMoves

\* What a step does to the lists of a context.
LEMMA QueueMoves ==
    ASSUME [Next]_vars
    PROVE  \/ UNCHANGED queueVars
           \/ Unload
           \/ \E f \in Files : FlushMessages(f) \/ DrainRead(f)
           \/ \E r \in Reads : ReadQueued(r) \/ ReadPend(r) \/ CancelRemove(r)
           \/ \E q \in Callers : TakeRead(q) \/ QueueMessage(q)
<1>1. CASE UNCHANGED vars
  BY <1>1 DEF vars
<1> QED
  BY <1>1 DEF Next, FileStep, SubscriberStep, ReadStep, CancelStep, CallStep, Rest, Initialize,
     Open, Close, CloseUnsubscribed, CheckSubscription, Read, ReadRefused, Cancel,
     CancelUnarmed, FindRequest, RefuseAnswer, DrainComplete, DrainSleep, FinishClose,
     CreateSubscription, CreateSubscriptionFails, InsertSubscription, ReadLock,
     ReadCancelled, ReadSetContext, ReadMarkPending, ReadComplete, CancelRoutine,
     CancelComplete, FinishRequest, Issue, Broadcast, NoTarget, SendMessage, SendFails,
     SkipReads, FillRead, MessageSent, NoMessage, Wait, Return

LEMMA EmptyStep ==
    ASSUME TypeInv, LockInv, ContextInv, ContextListInv, TargetInv, EmptyInv, [Next]_vars
    PROVE  EmptyInv'
<1> USE DEF TypeInv, TypeOK, PcInv, EmptyInv
<1> USE DispatchAssumption
<1>1. CASE UNCHANGED <<fileFrame, queueVars>>
  BY <1>1 DEF fileFrame, queueVars
<1>2. CASE Unload
  BY <1>2 DEF Unload
<1>3. ASSUME NEW f \in Files, FlushMessages(f) PROVE EmptyInv'
  BY <1>3 DEF FlushMessages, FileGoes, linkVars
<1>4. ASSUME NEW f \in Files, DrainRead(f) PROVE EmptyInv'
  BY <1>4 DEF DrainRead, FileGoes, linkVars
<1>5. ASSUME NEW r \in Reads, ReadQueued(r) PROVE EmptyInv'
  <2>1. /\ UNCHANGED <<fileVars, ctxPc, pendedReads>> /\ pendedMessages[readCtx[r]] # <<>>
        /\ \A c \in Subscribers : c # readCtx[r] => pendedMessages'[c] = pendedMessages[c]
    BY <1>5 DEF ReadQueued, linkVars
  <2> QED BY <2>1 DEF fileVars
<1>6. ASSUME NEW r \in Reads, ReadPend(r) PROVE EmptyInv'
  <2>1. /\ UNCHANGED <<fileVars, ctxPc, pendedMessages>> /\ readPc[r] = "check"
        /\ \A c \in Subscribers : c # readCtx[r] => pendedReads'[c] = pendedReads[c]
    BY <1>6 DEF ReadPend, ReadGoes, linkVars
  <2>2. ctxPc[readCtx[r]] # "closed"
    <3>1. readCtx[r] \in Subscribers
      BY <2>1
    <3>2. filePc[ctxFile[readCtx[r]]] = "open"
      BY <2>1 DEF ContextInv
    <3> QED BY <3>1, <3>2 DEF ContextInv
  <2> QED BY <2>1, <2>2 DEF fileVars
<1>7. ASSUME NEW r \in Reads, CancelRemove(r) PROVE EmptyInv'
  <2>1. /\ UNCHANGED <<fileVars, ctxPc, pendedMessages>>
        /\ \A c \in Subscribers : pendedReads'[c] = pendedReads[c] \/ Contains(pendedReads[c], r)
    BY <1>7 DEF CancelRemove, CancelGoes, linkVars
  <2> QED BY <2>1, EmptyList DEF fileVars
<1>8. ASSUME NEW q \in Callers, TakeRead(q) PROVE EmptyInv'
  BY <1>8 DEF TakeRead, fileVars, linkVars
<1>9. ASSUME NEW q \in Callers, QueueMessage(q) PROVE EmptyInv'
  <2>1. /\ UNCHANGED <<fileVars, ctxPc, pendedReads>> /\ callPc[q] = "queue"
        /\ \A c \in Subscribers : c # target[q] => pendedMessages'[c] = pendedMessages[c]
    BY <1>9 DEF QueueMessage, linkVars
  <2>2. ctxPc[target[q]] # "closed"
    BY <2>1 DEF TargetInv, ContextListInv
  <2>3. \A f \in Files : filePc[f] \notin {"drain", "complete"}
    BY <2>1 DEF LockInv
  <2> QED BY <2>1, <2>2, <2>3 DEF fileVars
<1>10. ASSUME UNCHANGED queueVars, NEW f \in Files, FileStep(f), ~ FlushMessages(f), ~ DrainRead(f)
       PROVE  EmptyInv'
  <2>1. CASE DrainComplete(f)
    BY <1>10, <2>1 DEF DrainComplete, FileGoes, linkVars, queueVars
  <2>2. CASE DrainSleep(f)
    BY <1>1, <2>2 DEF DrainSleep, fileFrame, fileVars, linkVars
  <2>3. CASE FinishClose(f)
    BY <1>10, <2>3 DEF FinishClose, FileGoes, Drained, queueVars
  <2> QED BY <1>10, <2>1, <2>2, <2>3 DEF FileStep
<1>11. ASSUME UNCHANGED queueVars, NEW f \in Files, Open(f) \/ Close(f) \/ CloseUnsubscribed(f)
       PROVE  EmptyInv'
  <2>1. CASE Open(f)
    BY <1>11, <2>1 DEF Open, FileGoes, linkVars, queueVars
  <2>2. CASE Close(f)
    BY <1>11, <2>2 DEF Close, FileGoes, linkVars, queueVars
  <2>3. CASE CloseUnsubscribed(f)
    BY <1>11, <2>3 DEF CloseUnsubscribed, FileGoes, linkVars, queueVars
  <2> QED BY <1>11, <2>1, <2>2, <2>3
<1>12. ASSUME UNCHANGED queueVars, NEW f \in Files, NEW s \in Subscribers, CheckSubscription(s, f)
       PROVE  EmptyInv'
  BY <1>12 DEF CheckSubscription, fileVars, queueVars
<1>13. ASSUME UNCHANGED queueVars, NEW s \in Subscribers, SubscriberStep(s) PROVE EmptyInv'
  <2>1. CASE CreateSubscription(s)
    BY <1>13, <2>1 DEF CreateSubscription, ContextGoes, queueVars, ContextInv
  <2>2. CASE CreateSubscriptionFails(s) \/ InsertSubscription(s)
    BY <1>13, <2>2 DEF CreateSubscriptionFails, InsertSubscription, ContextGoes, queueVars, fileVars
  <2> QED BY <1>13, <2>1, <2>2 DEF SubscriberStep
<1>14. ASSUME NEW f \in Files, NEW r \in Reads, Read(r, f) PROVE EmptyInv'
  BY <1>1, <1>14 DEF Read, fileFrame, fileVars, linkVars
<1> QED BY <1>1, <1>2, <1>3, <1>4, <1>5, <1>6, <1>7, <1>8, <1>9, <1>10, <1>11, <1>12, <1>13, <1>14,
        ContextMoves, QueueMoves

-----------------------------------------------------------------------------
(* Messages *)

\* A settled read stays so.
LEMMA SettledStep ==
    ASSUME TypeInv, HolderInv, Running, ReadInv, [Next]_vars, NEW r \in Reads, Settled(r)
    PROVE  Settled(r)' /\ readCtx'[r] = readCtx[r]
<1> USE DEF TypeInv, TypeOK, PcInv, Settled
<1> USE DispatchAssumption
<1>1. CASE UNCHANGED readFrame
  BY <1>1 DEF readFrame
<1>2. CASE Unload
  BY <1>2, EmptyList DEF Unload, readVars, sendVars
<1>3. ASSUME NEW t, NEW c, NEW x, TakesRead(t, c, x) PROVE Settled(r)' /\ readCtx'[r] = readCtx[r]
  <2>1. /\ UNCHANGED <<readPc, readCtx>> /\ x # r
        /\ \A u \in Callers \cup Files : taken'[u] = taken[u] \/ taken'[u] = x
    BY <1>3 DEF TakesRead
  <2>2. \A d \in Subscribers : Contains(pendedReads'[d], r) => Contains(pendedReads[d], r)
    BY <1>3 DEF TakesRead
  <2> QED BY <2>1, <2>2
<1>4. CASE \/ \E f \in Files : DrainRead(f)
           \/ \E q \in Callers : TakeRead(q)
  BY <1>3, <1>4, DrainTakes, SendTakes DEF ReadInv
<1>5. CASE \/ \E f \in Files : DrainComplete(f)
           \/ \E q \in Callers : FillRead(q)
  BY <1>5 DEF DrainComplete, FillRead, readVars, queueVars
<1>6. ASSUME NEW f \in Files, NEW x \in Reads, Read(x, f) \/ ReadRefused(x, f)
      PROVE  Settled(r)' /\ readCtx'[r] = readCtx[r]
  BY <1>6 DEF Read, ReadRefused, ReadGoes, queueVars, sendVars
<1>7. ASSUME NEW x \in Reads, ReadStep(x) PROVE Settled(r)' /\ readCtx'[r] = readCtx[r]
  <2>1. CASE ReadPend(x)
    <3>1. /\ x # r /\ UNCHANGED <<readCtx, taken>> /\ readPc'[r] = readPc[r]
      BY <2>1 DEF ReadPend, ReadGoes, sendVars
    <3>2. \A d \in Subscribers : Contains(pendedReads'[d], r) => Contains(pendedReads[d], r)
      <4>1. \A d \in Subscribers : \/ pendedReads'[d] = pendedReads[d]
                                   \/ pendedReads'[d] = Append(pendedReads[d], x)
        BY <2>1 DEF ReadPend
      <4>2. \A d \in Subscribers : pendedReads[d] \in Seq(Reads)
        OBVIOUS
      <4>3. ASSUME NEW d \in Subscribers
            PROVE  Contains(Append(pendedReads[d], x), r) => Contains(pendedReads[d], r)
        BY ONLY <3>1, <4>2, AppendList, x \in Reads, r \in Reads
      <4>4. ASSUME NEW d \in Subscribers, Contains(pendedReads'[d], r)
            PROVE  Contains(pendedReads[d], r)
        <5>1. CASE pendedReads'[d] = pendedReads[d]
          BY ONLY <4>4, <5>1
        <5>2. CASE pendedReads'[d] = Append(pendedReads[d], x)
          BY ONLY <4>3, <4>4, <5>2
        <5> QED BY <4>1, <5>1, <5>2
      <4> QED BY <4>4
    <3> QED BY <3>1, <3>2
  <2>2. CASE ~ ReadPend(x)
    <3>1. /\ UNCHANGED <<readCtx, taken, pendedReads>>
          /\ \/ readPc'[r] = readPc[r] \/ readPc'[r] = "returned"
             \/ readPc[r] \in {"lock", "check", "context"}
      BY <1>7, <2>2 DEF ReadStep, ReadLock, ReadCancelled, ReadQueued, ReadSetContext,
         ReadMarkPending, ReadComplete, ReadGoes, queueVars, sendVars
    <3> QED BY <3>1
  <2> QED BY <2>1, <2>2
<1>8. ASSUME NEW x \in Reads, Cancel(x) \/ CancelRoutine(x) \/ CancelComplete(x)
      PROVE  Settled(r)' /\ readCtx'[r] = readCtx[r]
  BY <1>8 DEF Cancel, CancelRoutine, CancelComplete, queueVars, readVars, sendVars
<1>9. ASSUME NEW x \in Reads, CancelRemove(x) PROVE Settled(r)' /\ readCtx'[r] = readCtx[r]
  <2>1. UNCHANGED <<readPc, readCtx, taken>>
    BY <1>9 DEF CancelRemove, readVars, sendVars
  <2>2. Contains(pendedReads[driverContext[x]], x) /\ driverContext[x] \in Subscribers
    BY <1>9, ReadCancelFinds DEF CancelRemove, CancelGoes
  <2>3. \A y : Contains(Unlink(pendedReads[driverContext[x]], x), y) =>
                  Contains(pendedReads[driverContext[x]], y)
    BY <2>2, UnlinkList DEF ReadInv, ListedInv
  <2>4. \A d \in Subscribers : Contains(pendedReads'[d], r) => Contains(pendedReads[d], r)
    <3>1. pendedReads' = [pendedReads EXCEPT ![driverContext[x]] =
                             Unlink(pendedReads[driverContext[x]], x)]
      BY <1>9, <2>2 DEF CancelRemove
    <3> QED BY <2>2, <2>3, <3>1
  <2> QED BY <2>1, <2>4
<1>10. CASE \E q \in Callers : NoMessage(q)
  BY <1>10 DEF NoMessage, readVars, queueVars, cancelVars, sendVars
<1> QED BY <1>1, <1>2, <1>4, <1>5, <1>6, <1>7, <1>8, <1>9, <1>10, ReadMoves DEF CancelStep

\* What a step does to messages.
LEMMA MessageMoves ==
    ASSUME [Next]_vars
    PROVE  \/ UNCHANGED <<pendedMessages, delivered>>
           \/ Unload
           \/ \E f \in Files : FlushMessages(f)
           \/ \E r \in Reads : ReadQueued(r)
           \/ \E q \in Callers : FillRead(q) \/ QueueMessage(q)
<1> USE DEF queueVars, doneVars
<1>1. CASE UNCHANGED vars
  BY <1>1 DEF vars
<1> QED
  BY <1>1 DEF Next, FileStep, SubscriberStep, ReadStep, CancelStep, CallStep, Rest, Initialize,
     Open, Close, CloseUnsubscribed, CheckSubscription, Read, ReadRefused, Cancel,
     CancelUnarmed, FindRequest, RefuseAnswer, DrainRead, DrainComplete, DrainSleep,
     FinishClose, CreateSubscription, CreateSubscriptionFails, InsertSubscription, ReadLock,
     ReadCancelled, ReadPend, ReadSetContext, ReadMarkPending, ReadComplete, CancelRoutine,
     CancelRemove, CancelComplete, FinishRequest, Issue, Broadcast, NoTarget, SendMessage,
     SendFails, TakeRead, SkipReads, MessageSent, NoMessage, Wait, Return

\* Context c gets q's message, which it did not have, in its queue ...
LEMMA MessageQueued ==
    ASSUME TypeInv, CopyInv, NEW q \in Callers, QueueMessage(q), ~ Has(target[q], q),
           target[q] # NoOne
    PROVE  /\ CopyInv'
           /\ \A c \in Subscribers, p \in Callers :
                 Has(c, p)' <=> Has(c, p) \/ (c = target[q] /\ p = q)
<1> USE DEF TypeInv, TypeOK
<1> USE DispatchAssumption
<1> DEFINE d == target[q]
           list == Append(pendedMessages[d], q)
<1>1. /\ UNCHANGED <<readPc, readCtx, pendedReads, taken, delivered>>
      /\ d \in Subscribers /\ pendedMessages' = [pendedMessages EXCEPT ![d] = list]
  BY DEF QueueMessage, readVars, doneVars
<1>2. ~ Contains(pendedMessages[d], q)
  BY DEF Has
<1>3. IsInjective(list) /\ \A x : Contains(list, x) <=> Contains(pendedMessages[d], x) \/ x = q
  BY <1>1, <1>2, AppendList DEF CopyInv
<1>4. ~ Delivered(d, q)
  BY DEF Has
<1> HIDE DEF d, list
<1>5. \A c \in Subscribers, p \in Callers :
         Contains(pendedMessages'[c], p) <=> Contains(pendedMessages[c], p) \/ (c = d /\ p = q)
  BY <1>1, <1>3
<1>6. \A c \in Subscribers : IsInjective(pendedMessages'[c])
  BY <1>1, <1>3 DEF CopyInv
<1>7. ASSUME NEW r \in Reads, delivered[r] # NoOne
      PROVE  Settled(r)' /\ ~ Contains(pendedMessages'[readCtx[r]], delivered[r])
  <2>1. Settled(r) /\ ~ Contains(pendedMessages[readCtx[r]], delivered[r])
    BY <1>7 DEF CopyInv
  <2>2. readCtx[r] \in Subscribers /\ delivered[r] \in Callers
    BY <1>7, <2>1 DEF Settled
  <2>3. ~ (readCtx[r] = d /\ delivered[r] = q)
    BY <1>4 DEF Delivered
  <2>4. Settled(r)'
    BY <1>1, <2>1 DEF Settled
  <2> QED BY <1>5, <2>1, <2>2, <2>3, <2>4
<1>8. CopyInv'
  BY <1>1, <1>6, <1>7 DEF CopyInv
<1>9. \A c \in Subscribers, p \in Callers : Has(c, p)' <=> Has(c, p) \/ (c = d /\ p = q)
  BY <1>1, <1>5 DEF Has, Delivered
<1> QED BY <1>8, <1>9 DEF d

\* ... or in a read that its sender has taken from its list.
LEMMA MessageFilled ==
    ASSUME TypeInv, HolderInv, Running, ReadInv, CopyInv, NEW q \in Callers, FillRead(q),
           ~ Has(target[q], q), target[q] # NoOne, readCtx[taken[q]] = target[q]
    PROVE  /\ CopyInv'
           /\ \A c \in Subscribers, p \in Callers :
                 Has(c, p)' <=> Has(c, p) \/ (c = target[q] /\ p = q)
<1> USE DEF TypeInv, TypeOK, PcInv
<1> USE DispatchAssumption
<1> DEFINE d == target[q]
<1>0. PICK r \in Reads : r = taken[q]
  BY DEF FillRead, CallGoes
<1>1. /\ UNCHANGED <<readPc, readCtx, pendedReads, pendedMessages>>
      /\ d \in Subscribers /\ readCtx[r] = d
      /\ delivered' = [delivered EXCEPT ![r] = q] /\ taken' = [taken EXCEPT ![q] = NoOne]
  BY <1>0 DEF FillRead, CallGoes, readVars, queueVars
<1>2. /\ readPc[r] \in {"mark", "returned"}
      /\ \A c \in Subscribers : ~ Contains(pendedReads[c], r)
  BY <1>0 DEF ReadInv, TakenInv, ListedInv
<1>3. delivered[r] = NoOne
  BY <1>0 DEF CopyInv, Settled
<1>4. ~ Contains(pendedMessages[d], q) /\ ~ Delivered(d, q)
  BY DEF Has
<1>5. \A u \in Callers \cup Files : taken'[u] # r /\ (taken'[u] = taken[u] \/ taken'[u] = NoOne)
  BY <1>0, <1>1 DEF HolderInv
<1> HIDE DEF d
<1>6. \A x \in Reads : delivered'[x] = IF x = r THEN q ELSE delivered[x]
  BY <1>1
<1>7. Settled(r)'
  BY <1>1, <1>2, <1>5 DEF Settled
<1>8. ASSUME NEW x \in Reads, delivered'[x] # NoOne
      PROVE  Settled(x)' /\ ~ Contains(pendedMessages[readCtx[x]], delivered'[x])
  <2>1. CASE x = r
    BY <1>1, <1>4, <1>6, <1>7, <2>1
  <2>2. CASE x # r
    <3>1. Settled(x) /\ ~ Contains(pendedMessages[readCtx[x]], delivered[x])
      BY <1>6, <1>8, <2>2 DEF CopyInv
    <3>2. Settled(x)'
      BY <1>1, <1>5, <3>1 DEF Settled
    <3> QED BY <1>6, <2>2, <3>1, <3>2
  <2> QED BY <2>1, <2>2
<1>9. ASSUME NEW x \in Reads, NEW y \in Reads, delivered'[x] # NoOne,
             delivered'[x] = delivered'[y], readCtx[x] = readCtx[y]
      PROVE  x = y
  <2>1. \A z \in Reads : ~ (readCtx[z] = d /\ delivered[z] = q)
    BY <1>4 DEF Delivered
  <2> QED BY <1>1, <1>6, <1>9, <2>1 DEF CopyInv
<1>10. CopyInv'
  BY <1>1, <1>8, <1>9 DEF CopyInv
<1>11. ASSUME NEW c \in Subscribers, NEW p \in Callers
       PROVE  Delivered(c, p)' <=> Delivered(c, p) \/ (c = d /\ p = q)
  BY <1>1, <1>3, <1>6 DEF Delivered
<1>12. \A c \in Subscribers, p \in Callers : Has(c, p)' <=> Has(c, p) \/ (c = d /\ p = q)
  BY <1>1, <1>11 DEF Has
<1> QED BY <1>10, <1>12 DEF d

\* DPT_Read moves the first message of a context from its queue to the read.
LEMMA MessageDequeued ==
    ASSUME TypeInv, Running, ReadInv, CopyInv, NEW r \in Reads, ReadQueued(r)
    PROVE  /\ CopyInv'
           /\ \A c \in Subscribers, p \in Callers : Has(c, p)' <=> Has(c, p)
<1> USE DEF TypeInv, TypeOK, PcInv
<1> USE DispatchAssumption
<1> DEFINE d == readCtx[r]
           q == Head(pendedMessages[d])
           list == Tail(pendedMessages[d])
<1>1. /\ UNCHANGED <<readCtx, pendedReads, taken>>
      /\ d \in Subscribers /\ pendedMessages[d] # <<>>
      /\ readPc[r] = "check" /\ readPc' = [readPc EXCEPT ![r] = "tail"]
      /\ delivered' = [delivered EXCEPT ![r] = q]
      /\ pendedMessages' = [pendedMessages EXCEPT ![d] = list]
  BY DEF ReadQueued, ReadGoes, Dequeued, sendVars
<1>2. /\ q \in Callers /\ Contains(pendedMessages[d], q) /\ IsInjective(list)
      /\ \A x : Contains(list, x) <=> Contains(pendedMessages[d], x) /\ x # q
  BY <1>1, TailList DEF CopyInv
<1>3. delivered[r] = NoOne
  BY <1>1 DEF CopyInv, Settled
<1>4. /\ \A c \in Subscribers : ~ Contains(pendedReads[c], r)
      /\ \A t \in Callers \cup Files : taken[t] # r
  BY <1>1 DEF ReadInv, ListedInv, TakenInv
<1> HIDE DEF q, list
<1>5. \A x \in Reads : /\ delivered'[x] = IF x = r THEN q ELSE delivered[x]
                       /\ readPc'[x] = IF x = r THEN "tail" ELSE readPc[x]
  BY <1>1
<1>6. \A c \in Subscribers, p \in Callers :
         Contains(pendedMessages'[c], p) <=> Contains(pendedMessages[c], p) /\ ~ (c = d /\ p = q)
  BY <1>1, <1>2
<1>7. ASSUME NEW x \in Reads, readCtx[x] = d, delivered[x] = q PROVE FALSE
  <2>1. delivered[x] # NoOne
    BY <1>2, <1>7
  <2>2. ~ Contains(pendedMessages[readCtx[x]], delivered[x])
    BY <2>1 DEF CopyInv
  <2> QED BY <1>2, <1>7, <2>2
<1>8. \A c \in Subscribers : IsInjective(pendedMessages'[c])
  BY <1>1, <1>2 DEF CopyInv
<1> HIDE DEF d
<1>9. Settled(r)'
  BY <1>1, <1>4, <1>5 DEF Settled, d
<1>10. ASSUME NEW x \in Reads, delivered'[x] # NoOne
       PROVE  Settled(x)' /\ ~ Contains(pendedMessages'[readCtx[x]], delivered'[x])
  <2>1. CASE x = r
    BY <1>1, <1>2, <1>5, <1>6, <1>9, <2>1 DEF d
  <2>2. CASE x # r
    <3>1. Settled(x) /\ ~ Contains(pendedMessages[readCtx[x]], delivered[x])
      BY <1>5, <1>10, <2>2 DEF CopyInv
    <3>2. Settled(x)'
      BY <1>1, <1>5, <2>2, <3>1 DEF Settled
    <3>3. readCtx[x] \in Subscribers /\ delivered[x] \in Callers
      BY <1>5, <1>10, <2>2, <3>1 DEF Settled
    <3> QED BY <1>5, <1>6, <2>2, <3>1, <3>2, <3>3
  <2> QED BY <2>1, <2>2
<1>11. ASSUME NEW x \in Reads, NEW y \in Reads, delivered'[x] # NoOne,
              delivered'[x] = delivered'[y], readCtx[x] = readCtx[y]
       PROVE  x = y
  BY <1>1, <1>5, <1>7, <1>11 DEF CopyInv, d
<1>12. CopyInv'
  BY <1>1, <1>8, <1>10, <1>11 DEF CopyInv
<1>13. ASSUME NEW c \in Subscribers, NEW p \in Callers
       PROVE  Delivered(c, p)' <=> Delivered(c, p) \/ (c = d /\ p = q)
  BY <1>1, <1>2, <1>3, <1>5 DEF Delivered, d
<1>14. ASSUME NEW c \in Subscribers, NEW p \in Callers PROVE Has(c, p)' <=> Has(c, p)
  BY <1>1, <1>2, <1>6, <1>13 DEF Has
<1> QED BY <1>12, <1>14

\* Nobody else delivers a message; only a flush drops one.
LEMMA MessageKept ==
    ASSUME TypeInv, HolderInv, Running, ReadInv, CopyInv, [Next]_vars, UNCHANGED delivered,
           \A c \in Subscribers : pendedMessages'[c] \in {pendedMessages[c], <<>>}
    PROVE  /\ CopyInv'
           /\ \A c \in Subscribers, p \in Callers :
                 /\ Has(c, p)' => Has(c, p)
                 /\ pendedMessages'[c] = pendedMessages[c] => (Has(c, p)' <=> Has(c, p))
<1> USE DEF TypeInv, TypeOK
<1> USE DispatchAssumption
<1>1. \A r \in Reads : delivered[r] # NoOne => Settled(r)' /\ readCtx'[r] = readCtx[r]
  BY SettledStep DEF CopyInv
<1>2. \A c \in Subscribers : \A p :
         Contains(pendedMessages'[c], p) => Contains(pendedMessages[c], p)
  <2> SUFFICES ASSUME NEW c \in Subscribers, NEW p, Contains(pendedMessages'[c], p)
               PROVE  Contains(pendedMessages[c], p)
    OBVIOUS
  <2>1. pendedMessages'[c] # <<>>
    BY EmptyList
  <2> QED BY <2>1
<1>3. ASSUME NEW r \in Reads, delivered[r] # NoOne
      PROVE  ~ Contains(pendedMessages'[readCtx'[r]], delivered[r])
  <2>1. Settled(r) /\ ~ Contains(pendedMessages[readCtx[r]], delivered[r])
    BY <1>3 DEF CopyInv
  <2>2. readCtx[r] \in Subscribers /\ readCtx'[r] = readCtx[r]
    BY <1>1, <1>3, <2>1 DEF Settled
  <2> QED BY <1>2, <2>1, <2>2
<1>4. \A c \in Subscribers : IsInjective(pendedMessages'[c])
  BY EmptyList DEF CopyInv
<1>5. ASSUME NEW r \in Reads, NEW s \in Reads, delivered[r] # NoOne, delivered[r] = delivered[s],
             readCtx'[r] = readCtx'[s]
      PROVE  r = s
  BY <1>1, <1>5 DEF CopyInv
<1>6. CopyInv'
  BY <1>1, <1>3, <1>4, <1>5 DEF CopyInv
<1>7. ASSUME NEW c \in Subscribers, NEW p \in Callers PROVE Delivered(c, p)' <=> Delivered(c, p)
  <2>1. ASSUME NEW r \in Reads, delivered[r] = p PROVE readCtx'[r] = readCtx[r]
    BY <1>1, <2>1
  <2>2. Delivered(c, p)' <=> \E r \in Reads : readCtx'[r] = c /\ delivered[r] = p
    BY DEF Delivered
  <2> QED BY <2>1, <2>2 DEF Delivered
<1>8. ASSUME NEW c \in Subscribers, NEW p \in Callers
      PROVE  /\ Has(c, p)' => Has(c, p)
             /\ pendedMessages'[c] = pendedMessages[c] => (Has(c, p)' <=> Has(c, p))
  BY <1>2, <1>7 DEF Has
<1> QED BY <1>6, <1>8

\* What a step does to the messages of a context.
LEMMA HasStep ==
    ASSUME TypeInv, HolderInv, Running, ReadInv, MessageInv, [Next]_vars
    PROVE  /\ CopyInv'
           /\ \A c \in Subscribers, p \in Callers :
                 /\ Has(c, p)' => Has(c, p) \/ FillRead(p) \/ QueueMessage(p)
                 /\ FillRead(p) \/ QueueMessage(p) => (Has(c, p)' <=> Has(c, p) \/ c = target[p])
                 /\ Has(c, p) => Has(c, p)' \/ Flushed(c)'
<1> USE DEF TypeInv, TypeOK
<1> USE DispatchAssumption
<1>1. ASSUME NEW q \in Callers, FillRead(q) \/ QueueMessage(q)
      PROVE  /\ CopyInv' /\ target[q] \in Subscribers
             /\ \A c \in Subscribers, p \in Callers :
                   Has(c, p)' <=> Has(c, p) \/ (c = target[q] /\ p = q)
  <2>1. callPc[q] \in {"fill", "queue"}
    BY <1>1 DEF FillRead, QueueMessage, CallGoes
  <2>2. target[q] \in Subscribers
    BY <2>1 DEF PcInv
  <2>3. ~ Has(target[q], q) /\ (callPc[q] = "fill" => readCtx[taken[q]] = target[q])
    BY <2>1 DEF MessageInv, SentInv, Sent, Sending
  <2>4. CASE FillRead(q)
    <3>1. callPc[q] = "fill" /\ target[q] # NoOne
      BY <2>2, <2>4 DEF FillRead, CallGoes
    <3>2. CopyInv
      BY DEF MessageInv
    <3> HIDE DEF TypeInv, TypeOK
    <3> QED BY <2>2, <2>3, <2>4, <3>1, <3>2, MessageFilled
  <2>5. CASE QueueMessage(q)
    BY <2>2, <2>3, <2>5, MessageQueued DEF MessageInv
  <2> QED BY <1>1, <2>2, <2>4, <2>5
<1>2. ASSUME NEW r \in Reads, ReadQueued(r)
      PROVE  CopyInv' /\ \A c \in Subscribers, p \in Callers : Has(c, p)' <=> Has(c, p)
  BY <1>2, MessageDequeued DEF MessageInv
<1>3. CASE UNCHANGED <<pendedMessages, delivered>>
  <2>1. CopyInv' /\ \A c \in Subscribers, p \in Callers : Has(c, p)' <=> Has(c, p)
    BY <1>3, MessageKept DEF MessageInv
  <2> QED BY <1>1, <2>1
<1>4. CASE Unload \/ \E f \in Files : FlushMessages(f)
  <2>1. UNCHANGED delivered
    BY <1>4 DEF Unload, FlushMessages, doneVars
  <2>2. \A c \in Subscribers : pendedMessages'[c] \in {pendedMessages[c], <<>>}
    BY <1>4 DEF Unload, FlushMessages
  <2>3. /\ CopyInv'
        /\ \A c \in Subscribers, p \in Callers :
              /\ Has(c, p)' => Has(c, p)
              /\ pendedMessages'[c] = pendedMessages[c] => (Has(c, p)' <=> Has(c, p))
    BY <2>1, <2>2, MessageKept DEF MessageInv
  <2>4. \A c \in Subscribers : pendedMessages'[c] = pendedMessages[c] \/ Flushed(c)'
    <3>1. CASE Unload
      BY <3>1 DEF Unload, Flushed
    <3>2. CASE \E f \in Files : FlushMessages(f)
      BY <3>2 DEF FlushMessages, FileGoes, Flushed
    <3> QED BY <1>4, <3>1, <3>2
  <2> QED BY <1>1, <2>3, <2>4
<1>5. CASE \E q \in Callers : FillRead(q) \/ QueueMessage(q)
  <2>1. PICK q \in Callers : FillRead(q) \/ QueueMessage(q)
    BY <1>5
  <2>2. /\ CopyInv' /\ target[q] \in Subscribers
        /\ \A c \in Subscribers, p \in Callers :
              Has(c, p)' <=> Has(c, p) \/ (c = target[q] /\ p = q)
    BY <1>1, <2>1
  <2> QED BY <1>1, <2>1, <2>2
<1>6. CASE \E r \in Reads : ReadQueued(r)
  BY <1>1, <1>2, <1>6
<1> QED BY <1>3, <1>4, <1>5, <1>6, MessageMoves

\* A context that was flushed stays so.
LEMMA FlushedStep ==
    ASSUME TypeInv, ContextInv, [Next]_vars, NEW c \in Subscribers, Flushed(c)
    PROVE  Flushed(c)'
<1> USE DEF TypeInv, TypeOK, PcInv, Flushed
<1> USE DispatchAssumption
<1>1. CASE UNCHANGED <<device, fileFrame>>
  BY <1>1 DEF fileFrame
<1>2. CASE Initialize \/ Unload
  BY <1>2 DEF Initialize, Unload, linkVars
<1>3. CASE UNCHANGED device
  <2>1. ASSUME NEW f \in Files, Open(f) PROVE Flushed(c)'
    BY <1>3, <2>1 DEF Open, FileGoes, linkVars
  <2>2. ASSUME NEW f \in Files, Close(f) \/ CloseUnsubscribed(f) PROVE Flushed(c)'
    BY <1>3, <2>2 DEF Close, CloseUnsubscribed, FileGoes, linkVars
  <2>3. ASSUME NEW f \in Files, FileStep(f), ~ FinishClose(f) PROVE Flushed(c)'
    <3>1. /\ UNCHANGED <<fsContext, ctxPc>> /\ filePc[f] \in {"flush", "drain", "complete"}
          /\ filePc' = [filePc EXCEPT ![f] = filePc'[f]]
          /\ filePc'[f] \in {"drain", "complete"}
      BY <2>3 DEF FileStep, FlushMessages, DrainRead, DrainComplete, DrainSleep, FileGoes,
         linkVars, fileVars
    <3> QED BY <1>3, <3>1
  <2>4. ASSUME NEW f \in Files, FinishClose(f) PROVE Flushed(c)'
    BY <1>3, <2>4 DEF FinishClose, FileGoes
  <2>5. ASSUME NEW f \in Files, NEW s \in Subscribers, CheckSubscription(s, f) PROVE Flushed(c)'
    BY <1>3, <2>5 DEF CheckSubscription, fileVars
  <2>6. ASSUME NEW s \in Subscribers, CreateSubscription(s) PROVE Flushed(c)'
    BY <1>3, <2>6 DEF CreateSubscription, ContextGoes, ContextInv
  <2>7. ASSUME NEW s \in Subscribers, CreateSubscriptionFails(s) \/ InsertSubscription(s)
        PROVE  Flushed(c)'
    BY <1>3, <2>7 DEF CreateSubscriptionFails, InsertSubscription, ContextGoes, fileVars
  <2>8. ASSUME NEW f \in Files, NEW r \in Reads, Read(r, f) PROVE Flushed(c)'
    BY <1>1, <2>8 DEF Read, fileFrame, fileVars, linkVars
  <2> QED BY <1>1, <1>3, <2>1, <2>2, <2>3, <2>4, <2>5, <2>6, <2>7, <2>8, ContextMoves
          DEF SubscriberStep, fileFrame
<1>4. Initialize \/ Unload \/ UNCHANGED device
  <2>1. CASE UNCHANGED vars
    BY <2>1 DEF vars, fileVars
  <2> QED
    BY <2>1 DEF fileVars, Next, FileStep, SubscriberStep, ReadStep, CancelStep, CallStep, Rest,
       Open, Close, CloseUnsubscribed, CheckSubscription, Read, ReadRefused, Cancel,
       CancelUnarmed, FindRequest, RefuseAnswer, FlushMessages, DrainRead, DrainComplete,
       DrainSleep, FinishClose, CreateSubscription, CreateSubscriptionFails,
       InsertSubscription, ReadLock, ReadCancelled, ReadQueued, ReadPend, ReadSetContext,
       ReadMarkPending, ReadComplete, CancelRoutine, CancelRemove, CancelComplete,
       FinishRequest, Issue, Broadcast, NoTarget, SendMessage, SendFails, TakeRead,
       SkipReads, FillRead, MessageSent, QueueMessage, NoMessage, Wait, Return
<1> QED BY <1>2, <1>3, <1>4

\* A caller that is sending holds DptLock: the list of subscriptions does not change.
LEMMA ListKept ==
    ASSUME TypeInv, LockInv, [Next]_vars, NEW q \in Callers, Sending(q)
    PROVE  UNCHANGED subscriptions
<1>1. dptLock = q /\ callPc[q] \notin {"idle", "done"}
  BY DEF LockInv, Sending
<1>2. ~ Unload
  BY <1>1 DEF Unload, Quiescent
<1>3. \A f \in Files : ~ FinishClose(f)
  BY <1>1, DispatchAssumption DEF FinishClose, FileGoes, LockInv
<1>4. \A s \in Subscribers : ~ InsertSubscription(s)
  BY <1>1, DispatchAssumption DEF InsertSubscription
<1> QED BY <1>2, <1>3, <1>4, SubscriptionMoves DEF TypeInv

\* The steps of caller q.
CallerStep(q) == Issue(q) \/ Broadcast(q) \/ NoTarget(q) \/ CallStep(q)

LEMMA CallerMoves ==
    ASSUME TypeOK, [Next]_vars, NEW q \in Callers
    PROVE  CallerStep(q) \/ (callPc'[q] = callPc[q] /\ target'[q] = target[q])
<1> USE DEF TypeOK, CallerStep, sendVars
<1>1. CASE UNCHANGED vars
  BY <1>1 DEF vars
<1>2. ASSUME NEW p \in Callers, p # q, Issue(p) \/ Broadcast(p) \/ NoTarget(p)
      PROVE  callPc'[q] = callPc[q] /\ target'[q] = target[q]
  BY <1>2 DEF Issue, Broadcast, NoTarget, CallGoes, FirstTarget
<1>3. ASSUME NEW p \in Callers, p # q, MessageSent(p) \/ QueueMessage(p)
      PROVE  callPc'[q] = callPc[q] /\ target'[q] = target[q]
  BY <1>3 DEF MessageSent, QueueMessage, NextTarget, LastTarget
<1>4. ASSUME NEW p \in Callers, p # q, CallStep(p), ~ MessageSent(p), ~ QueueMessage(p)
      PROVE  callPc'[q] = callPc[q] /\ target'[q] = target[q]
  BY <1>4 DEF CallStep, SendMessage, SendFails, TakeRead, SkipReads, FillRead, NoMessage, Wait,
     Return, CallGoes
<1>5. CASE \E p \in Callers : Issue(p) \/ Broadcast(p) \/ NoTarget(p) \/ CallStep(p)
  BY <1>2, <1>3, <1>4, <1>5
<1>6. CASE ~ \E p \in Callers : Issue(p) \/ Broadcast(p) \/ NoTarget(p) \/ CallStep(p)
  BY <1>1, <1>6 DEF Next, FileStep, SubscriberStep, ReadStep, CancelStep, Rest, Initialize,
     Unload, Open, Close, CloseUnsubscribed, CheckSubscription, Read, ReadRefused, Cancel,
     CancelUnarmed, FindRequest, RefuseAnswer, FlushMessages, DrainRead, DrainComplete,
     DrainSleep, FinishClose, CreateSubscription, CreateSubscriptionFails,
     InsertSubscription, ReadLock, ReadCancelled, ReadQueued, ReadPend, ReadSetContext,
     ReadMarkPending, ReadComplete, CancelRoutine, CancelRemove, CancelComplete,
     FinishRequest
<1> QED BY <1>5, <1>6

LEMMA ReadCtxKept ==
    ASSUME TypeOK, [Next]_vars, NEW r \in Reads, readPc[r] # "idle"
    PROVE  readCtx'[r] = readCtx[r]
<1> USE DEF TypeOK
<1>1. ASSUME NEW f \in Files, \/ Open(f) \/ Close(f) \/ CloseUnsubscribed(f) \/ FileStep(f)
                              \/ \E s \in Subscribers : CheckSubscription(s, f)
      PROVE  UNCHANGED readCtx
  BY <1>1 DEF Open, Close, CloseUnsubscribed, FileStep, FlushMessages, DrainRead, DrainComplete,
     DrainSleep, FinishClose, CheckSubscription, readVars
<1>2. ASSUME NEW s \in Subscribers, SubscriberStep(s) PROVE UNCHANGED readCtx
  BY <1>2 DEF SubscriberStep, CreateSubscription, CreateSubscriptionFails, InsertSubscription,
     readVars
<1>3. ASSUME NEW f \in Files, NEW x \in Reads, Read(x, f) PROVE readCtx'[r] = readCtx[r]
  BY <1>3 DEF Read, ReadGoes
<1> QED BY <1>1, <1>2, <1>3, ContextMoves

\* What other threads do leaves the messages of a caller where they have to be.
LEMMA SentRest ==
    ASSUME TypeInv, LockInv, ContextInv, TargetInv, HolderInv, Running, ReadInv, MessageInv,
           [Next]_vars, NEW q \in Callers, callPc'[q] = callPc[q], target'[q] = target[q],
           ~ FillRead(q), ~ QueueMessage(q)
    PROVE  Sent(q)'
<1> USE DEF TypeInv, TypeOK
<1> USE DispatchAssumption
<1>1. \A c \in Subscribers : /\ Has(c, q)' => Has(c, q)
                             /\ Has(c, q) => Has(c, q)' \/ Flushed(c)'
  BY HasStep
<1>2. Sent(q)
  BY DEF MessageInv, SentInv
<1>3. Sending(q)' <=> Sending(q)
  BY DEF Sending
<1>4. callPc[q] = "idle" => \A c \in Subscribers : ~ Has(c, q)'
  BY <1>1, <1>2 DEF Sent
<1>5. Sending(q) => target[q] \in Subscribers /\ UNCHANGED subscriptions
  BY ListKept DEF Sending, PcInv
<1>6. Sending(q) /\ callPc[q] # "sent" => ~ Has(target[q], q)'
  BY <1>1, <1>2, <1>5 DEF Sent
<1>7. ASSUME Sending(q), q \in Broadcasters, NEW i \in DOMAIN subscriptions,
             NEW j \in DOMAIN subscriptions, i < j, subscriptions[i] = target[q]
      PROVE  ~ Has(subscriptions[j], q)'
  <2>1. ~ Has(subscriptions[j], q)
    BY <1>2, <1>7 DEF Sent
  <2>2. subscriptions[j] \in Subscribers /\ subscriptions'[j] = subscriptions[j]
    BY <1>5, <1>7
  <2> QED BY <1>1, <2>1, <2>2 DEF Has, Delivered
<1>8. ASSUME callPc[q] = "fill" PROVE readCtx'[taken'[q]] = target[q]
  <2>1. taken'[q] = taken[q]
    <3>1. \A f \in Files : f # q
      OBVIOUS
    <3>2. ASSUME NEW p \in Callers, TakeRead(p) \/ FillRead(p) PROVE p # q
      BY <1>8, <3>2 DEF TakeRead, CallGoes
    <3>3. \A f \in Files : DrainRead(f) \/ DrainComplete(f) => taken'[q] = taken[q]
      BY <3>1 DEF DrainRead, DrainComplete
    <3>4. \A p \in Callers : p # q /\ (TakeRead(p) \/ FillRead(p)) => taken'[q] = taken[q]
      BY DEF TakeRead, FillRead
    <3> QED BY <3>2, <3>3, <3>4, TakenMoves
  <2>2. taken[q] \in Reads /\ readPc[taken[q]] \in {"mark", "returned"}
    <3>1. taken[q] \in Reads
      BY <1>8 DEF PcInv
    <3> QED BY <3>1 DEF ReadInv, TakenInv
  <2>3. readCtx'[taken[q]] = readCtx[taken[q]]
    BY <2>2, ReadCtxKept
  <2> QED BY <1>2, <1>8, <2>1, <2>3 DEF Sent
<1>9. ASSUME callPc[q] \in {"sent", "wait", "woken", "done"}, q \notin Broadcasters,
             target[q] # NoOne
      PROVE  Has(target[q], q)' \/ Flushed(target[q])'
  <2>1. target[q] \in Subscribers
    BY <1>9
  <2>2. Has(target[q], q) \/ Flushed(target[q])
    BY <1>2, <1>9 DEF Sent
  <2>3. ASSUME NEW c \in Subscribers, Flushed(c) PROVE Flushed(c)'
    BY <2>3, FlushedStep
  <2> QED BY <1>1, <2>1, <2>2, <2>3
<1>10. Sending(q) /\ q \in Broadcasters =>
          \A i, j \in DOMAIN subscriptions' :
             i < j /\ subscriptions'[i] = target[q] => ~ Has(subscriptions[j], q)'
  BY <1>5, <1>7
<1> HIDE DEF TypeOK
<1> QED BY <1>3, <1>4, <1>6, <1>8, <1>9, <1>10 DEF Sent

\* A caller comes to its first context.
LEMMA SentFirst ==
    ASSUME TypeInv, LockInv, ContextListInv, HolderInv, Running, ReadInv, MessageInv,
           [Next]_vars, NEW q \in Callers, Issue(q) \/ Broadcast(q)
    PROVE  Sent(q)'
<1> USE DEF TypeInv, TypeOK
<1> USE DispatchAssumption
<1>1. /\ UNCHANGED subscriptions /\ callPc[q] = "idle"
      /\ callPc' = [callPc EXCEPT ![q] = "send"]
      /\ ~ FillRead(q) /\ ~ QueueMessage(q)
  BY DEF Issue, Broadcast, CallGoes, FillRead, QueueMessage, linkVars
<1>2. PICK i \in DOMAIN subscriptions : target' = [target EXCEPT ![q] = subscriptions[i]]
  BY DEF Issue, Broadcast, FirstTarget, Targets
<1>3. \A c \in Subscribers : ~ Has(c, q)'
  <2>1. \A c \in Subscribers : ~ Has(c, q)
    BY <1>1 DEF MessageInv, SentInv, Sent
  <2> QED BY <1>1, <2>1, HasStep
<1>4. target'[q] \in Subscribers
  BY <1>2
<1>5. \A j \in DOMAIN subscriptions' : ~ Has(subscriptions[j], q)'
  BY <1>1, <1>3
<1> HIDE DEF TypeOK
<1>6. callPc'[q] = "send"
  BY <1>1 DEF TypeOK
<1> QED BY <1>3, <1>4, <1>5, <1>6 DEF Sent

\* A message that was sent or queued is with its context; a broadcast goes on to
\* the next, which does not have it.
LEMMA SentNext ==
    ASSUME TypeInv, LockInv, ContextInv, ContextListInv, TargetInv, HolderInv, Running, ReadInv,
           MessageInv, [Next]_vars, NEW q \in Callers, MessageSent(q) \/ QueueMessage(q)
    PROVE  Sent(q)'
<1> USE DEF TypeInv, TypeOK
<1> USE DispatchAssumption
<1>1. /\ UNCHANGED subscriptions /\ callPc[q] \in {"sent", "queue"} /\ ~ FillRead(q)
      /\ NextTarget(q) \/ LastTarget(q)
  BY DEF MessageSent, QueueMessage, FillRead, CallGoes, linkVars
<1>2. target[q] \in Subscribers
  BY <1>1 DEF PcInv
<1>3. \A c \in Subscribers : /\ Has(c, q)' => Has(c, q) \/ c = target[q]
                             /\ QueueMessage(q) => (Has(c, q)' <=> Has(c, q) \/ c = target[q])
                             /\ Has(c, q) => Has(c, q)' \/ Flushed(c)'
  BY <1>1, HasStep
<1>4. Sent(q)
  BY DEF MessageInv, SentInv
<1>5. CASE NextTarget(q)
  <2>1. PICK i \in 1..(Len(subscriptions) - 1) :
           /\ subscriptions[i] = target[q]
           /\ target' = [target EXCEPT ![q] = subscriptions[i + 1]]
    BY <1>5 DEF NextTarget
  <2>2. q \in Broadcasters /\ callPc' = [callPc EXCEPT ![q] = "send"]
    BY <1>5 DEF NextTarget
  <2>3. DOMAIN subscriptions = 1..Len(subscriptions) /\ Len(subscriptions) \in Nat
    OBVIOUS
  <2>4. i \in DOMAIN subscriptions /\ i + 1 \in DOMAIN subscriptions /\ i < i + 1
    BY ONLY <2>3, i \in 1..(Len(subscriptions) - 1)
  <2>5. \A j \in DOMAIN subscriptions : i < j => ~ Has(subscriptions[j], q)
    BY <1>1, <1>4, <2>1, <2>2, <2>4 DEF Sent, Sending
  <2>6. \A j, k \in DOMAIN subscriptions : subscriptions[j] = subscriptions[k] => j = k
    BY DEF ContextListInv, IsInjective
  <2>7. ASSUME NEW j \in DOMAIN subscriptions, i < j PROVE ~ Has(subscriptions[j], q)'
    <3>1. subscriptions[j] # target[q]
      BY <2>1, <2>3, <2>4, <2>6, <2>7
    <3>2. subscriptions[j] \in Subscribers /\ ~ Has(subscriptions[j], q)
      BY <2>5, <2>7
    <3> QED BY <1>1, <1>3, <3>1, <3>2
  <2>8. callPc'[q] = "send" /\ target'[q] = subscriptions[i + 1]
    BY <2>1, <2>2
  <2>9. ~ Has(target[q], q)'
    BY <1>1, <2>4, <2>7, <2>8
  <2>10. ASSUME NEW j \in DOMAIN subscriptions, NEW k \in DOMAIN subscriptions, j < k,
                subscriptions[j] = target'[q]
         PROVE  ~ Has(subscriptions[k], q)'
    <3>1. j = i + 1
      BY <2>4, <2>6, <2>8, <2>10
    <3>2. i < k
      BY ONLY <2>3, <2>4, <2>10, <3>1
    <3> QED BY <2>7, <3>2
  <2> HIDE DEF TypeOK
  <2>11. \A j, k \in DOMAIN subscriptions' :
            j < k /\ subscriptions'[j] = target'[q] => ~ Has(subscriptions[k], q)'
    BY <1>1, <2>10
  <2> QED BY <2>8, <2>9, <2>11 DEF Sent
<1>6. CASE LastTarget(q)
  <2>1. /\ callPc'[q] = IF q \in Broadcasters THEN "done" ELSE "wait"
        /\ target'[q] = target[q]
    BY <1>6 DEF LastTarget
  <2>2. ASSUME q \notin Broadcasters PROVE Has(target[q], q)' \/ Flushed(target[q])'
    <3>1. CASE QueueMessage(q)
      <4>1. \A c \in Subscribers : c = target[q] => Has(c, q)'
        BY <1>3, <3>1
      <4> QED BY <1>2, <2>1, <4>1
    <3>2. CASE MessageSent(q)
      <4>1. callPc[q] = "sent" /\ target[q] # NoOne
        BY <1>2, <3>2 DEF MessageSent
      <4>2. Has(target[q], q) \/ Flushed(target[q])
        BY <1>4, <2>2, <4>1 DEF Sent
      <4>3. ASSUME NEW c \in Subscribers, Flushed(c) PROVE Flushed(c)'
        BY <4>3, FlushedStep
      <4> QED BY <1>2, <1>3, <2>1, <4>2, <4>3
    <3> QED BY <3>1, <3>2
  <2> HIDE DEF TypeOK
  <2> QED BY <2>1, <2>2 DEF Sent, Sending
<1> QED BY <1>1, <1>5, <1>6

\* DPT_SendMessage looks for a read ...
LEMMA SentScan ==
    ASSUME TypeInv, LockInv, HolderInv, Running, ReadInv, MessageInv, [Next]_vars,
           NEW q \in Callers, SendMessage(q) \/ SendFails(q) \/ SkipReads(q) \/ TakeRead(q)
    PROVE  Sent(q)'
<1> USE DEF TypeInv, TypeOK
<1> USE DispatchAssumption
<1>1. /\ UNCHANGED <<subscriptions, target, readCtx>>
      /\ callPc[q] \in {"send", "scan"} /\ callPc'[q] \in {"scan", "queue", "fill"}
      /\ ~ FillRead(q) /\ ~ QueueMessage(q)
  BY DEF SendMessage, SendFails, SkipReads, TakeRead, CallGoes, FillRead, QueueMessage, linkVars,
     readVars
<1>2. Sent(q)
  BY DEF MessageInv, SentInv
<1>3. \A c \in Subscribers : Has(c, q)' => Has(c, q)
  BY <1>1, HasStep
<1>4. target[q] \in Subscribers
  BY <1>1 DEF PcInv
<1>5. ~ Has(target[q], q)'
  BY <1>1, <1>2, <1>3, <1>4 DEF Sent, Sending
<1>6. ASSUME q \in Broadcasters, NEW i \in DOMAIN subscriptions, NEW j \in DOMAIN subscriptions,
             i < j, subscriptions[i] = target[q]
      PROVE  ~ Has(subscriptions[j], q)'
  <2>1. ~ Has(subscriptions[j], q) /\ subscriptions[j] \in Subscribers
    BY <1>1, <1>2, <1>6 DEF Sent, Sending
  <2> QED BY <1>1, <1>3, <2>1
<1>7. ASSUME callPc'[q] = "fill" PROVE readCtx[taken'[q]] = target[q]
  <2>1. TakeRead(q)
    BY <1>7 DEF SendMessage, SendFails, SkipReads, CallGoes
  <2>2. PICK r \in Reads : TakesRead(q, target[q], r)
    BY <2>1, SendTakes DEF ReadInv
  <2>3. taken'[q] = r /\ Contains(pendedReads[target[q]], r)
    BY <2>2 DEF TakesRead
  <2> QED BY <1>4, <2>3 DEF ReadInv, ListedInv
<1>8. q \in Broadcasters =>
         \A i, j \in DOMAIN subscriptions' :
            i < j /\ subscriptions'[i] = target'[q] => ~ Has(subscriptions[j], q)'
  BY <1>1, <1>6
<1> HIDE DEF TypeOK
<1> QED BY <1>1, <1>5, <1>7, <1>8 DEF Sent

\* ... and fills it.
LEMMA SentFilled ==
    ASSUME TypeInv, LockInv, ContextListInv, HolderInv, Running, ReadInv, MessageInv,
           [Next]_vars, NEW q \in Callers, FillRead(q)
    PROVE  Sent(q)'
<1> USE DEF TypeInv, TypeOK
<1> USE DispatchAssumption
<1>1. /\ UNCHANGED <<subscriptions, target>> /\ callPc[q] = "fill" /\ callPc'[q] = "sent"
  BY DEF FillRead, CallGoes, linkVars
<1>2. Sent(q)
  BY DEF MessageInv, SentInv
<1>3. \A c \in Subscribers : Has(c, q)' <=> Has(c, q) \/ c = target[q]
  BY HasStep
<1>4. target[q] \in Subscribers
  BY <1>1 DEF PcInv
<1>5. Has(target[q], q)'
  BY <1>1, <1>3, <1>4
<1>6. ASSUME q \in Broadcasters, NEW i \in DOMAIN subscriptions, NEW j \in DOMAIN subscriptions,
             i < j, subscriptions[i] = target[q]
      PROVE  ~ Has(subscriptions[j], q)'
  <2>1. ~ Has(subscriptions[j], q) /\ subscriptions[j] \in Subscribers
    BY <1>1, <1>2, <1>6 DEF Sent, Sending
  <2>2. subscriptions[j] # target[q]
    <3>1. i # j
      BY <1>6
    <3> QED BY <1>6, <3>1 DEF ContextListInv, IsInjective
  <2> QED BY <1>1, <1>3, <2>1, <2>2
<1>7. q \in Broadcasters =>
         \A i, j \in DOMAIN subscriptions' :
            i < j /\ subscriptions'[i] = target'[q] => ~ Has(subscriptions[j], q)'
  BY <1>1, <1>6
<1> HIDE DEF TypeOK
<1> QED BY <1>1, <1>5, <1>7 DEF Sent

\* The end of a request, or of a call that found nobody to send to.
LEMMA SentDone ==
    ASSUME TypeInv, ContextInv, TargetInv, HolderInv, Running, ReadInv, MessageInv, [Next]_vars,
           NEW q \in Callers, Wait(q) \/ Return(q) \/ NoTarget(q)
    PROVE  Sent(q)'
<1> USE DEF TypeInv, TypeOK
<1> USE DispatchAssumption
<1>1. /\ target'[q] = target[q]
      /\ callPc'[q] \in {"woken", "done"}
      /\ callPc[q] \in {"wait", "woken"} \/ (callPc[q] = "idle" /\ target[q] = NoOne)
  BY DEF Wait, Return, NoTarget, CallGoes, TargetInv
<1>2. ASSUME q \notin Broadcasters, target[q] # NoOne
      PROVE  Has(target[q], q)' \/ Flushed(target[q])'
  <2>1. Has(target[q], q) \/ Flushed(target[q])
    BY <1>1, <1>2 DEF MessageInv, SentInv, Sent
  <2>2. target[q] \in Subscribers
    BY <1>2
  <2>3. ASSUME NEW c \in Subscribers, Flushed(c) PROVE Flushed(c)'
    BY <2>3, FlushedStep
  <2>4. \A c \in Subscribers : Has(c, q) => Has(c, q)' \/ Flushed(c)'
    BY HasStep
  <2> QED BY <1>1, <2>1, <2>2, <2>3, <2>4
<1> HIDE DEF TypeOK
<1> QED BY <1>1, <1>2 DEF Sent, Sending

LEMMA MessagesStep ==
    ASSUME TypeInv, LockInv, ContextInv, ContextListInv, TargetInv, HolderInv, Running, ReadInv,
           MessageInv, [Next]_vars
    PROVE  MessageInv'
<1>1. CopyInv'
  BY HasStep
<1>2. ASSUME NEW q \in Callers PROVE Sent(q)'
  <2>1. TypeOK
    BY DEF TypeInv
  <2>4. CASE NoMessage(q)
    <3>1. /\ callPc[q] = "queue" /\ fault = "none" /\ fault' = "null_message"
          /\ callPc' = callPc /\ target' = target
      BY <2>4 DEF NoMessage, sendVars, Running
    <3>2. ~ FillRead(q) /\ ~ QueueMessage(q)
      BY <3>1 DEF FillRead, QueueMessage, CallGoes, doneVars
    <3> QED BY <3>1, <3>2, SentRest
  <2>2. CASE CallerStep(q)
    BY <2>2, <2>4, SentFirst, SentNext, SentScan, SentFilled, SentDone DEF CallerStep, CallStep
  <2>3. CASE ~ CallerStep(q)
    <3>1. callPc'[q] = callPc[q] /\ target'[q] = target[q]
      BY <2>1, <2>3, CallerMoves
    <3> QED BY <2>3, <3>1, SentRest DEF CallerStep, CallStep
  <2> QED BY <2>2, <2>3
<1> QED BY <1>1, <1>2 DEF MessageInv, SentInv

-----------------------------------------------------------------------------
(* The invariant and the theorems that follow from it *)

\* Contexts, their lists and the threads at them agree, whatever has happened; the
\* reads and messages do until the driver has made a mistake.
AccessInv ==
    /\ ContextInv /\ ContextLockInv /\ ContextListInv /\ TargetInv /\ EmptyInv /\ HolderInv
    /\ FaultInv
    /\ Running => ReadInv /\ MessageInv

LEMMA AccessInit == Init => AccessInv
<1> SUFFICES ASSUME Init PROVE AccessInv
  OBVIOUS
<1> USE DEF Init
<1> USE DispatchAssumption
<1>1. IsInjective(<<>>) /\ \A x : ~ Contains(<<>>, x)
  BY EmptyList
<1>2. ContextInv /\ ContextLockInv /\ ContextListInv /\ TargetInv /\ EmptyInv
  BY <1>1 DEF ContextInv, ContextLockInv, ContextListInv, TargetInv, EmptyInv
<1>3. HolderInv /\ FaultInv
  BY DEF HolderInv, FaultInv, LeftoverOnlyByDoubleSubscribe
<1>4. ListedInv /\ TakenInv /\ CancelInv
  BY <1>1 DEF ListedInv, TakenInv, CancelInv
<1>5. ProgressInv
  BY DEF ProgressInv, Progress
<1>6. MessageInv
  BY <1>1 DEF MessageInv, CopyInv, SentInv, Sent, Sending, Has, Delivered
<1> QED BY <1>2, <1>3, <1>4, <1>5, <1>6 DEF AccessInv, ReadInv

LEMMA AccessStep ==
    ASSUME TypeInv, LockInv, AccessInv, [Next]_vars
    PROVE  AccessInv'
<1>1. Running => ListedInv
  BY DEF AccessInv, ReadInv
<1>2. ContextInv' /\ ContextListInv'
  BY ContextStep, ListStep DEF AccessInv
<1>3. ContextLockInv' /\ TargetInv' /\ EmptyInv'
  BY ContextLockStep, TargetStep, EmptyStep DEF AccessInv
<1>4. HolderInv'
  BY <1>1, HolderStep DEF AccessInv
<1>5. FaultInv'
  BY FaultStep DEF AccessInv
<1>6. (Running => ReadInv)'
  BY ReadsStep DEF AccessInv
<1>7. Running' => Running
  BY FaultIsFinal DEF Running, vars, doneVars
<1>8. (Running => MessageInv)'
  BY <1>7, MessagesStep DEF AccessInv
<1> QED BY <1>2, <1>3, <1>4, <1>5, <1>6, <1>8 DEF AccessInv

LEMMA AccessAlways == Spec => [](TypeInv /\ AccessInv)
<1>1. Init => TypeInv
  BY DispatchAssumption DEF Init, TypeInv, TypeOK, PcInv
<1> QED BY <1>1, TypeStep, RequestsAlways, AccessInit, AccessStep, PTL DEF Spec, RequestsInv

\* Senders, DPT_ReadCancel and DPT_CancelPendingReads never lose a pended read and
\* never both complete it.
THEOREM PendedReadsOwned == Spec => []PendedReadOwned
<1>1. ASSUME TypeInv, AccessInv PROVE PendedReadOwned
  <2> USE DEF TypeInv, TypeOK
  <2> USE DispatchAssumption
  <2> SUFFICES ASSUME Running, NEW r \in Reads, readPc[r] \in {"mark", "returned"}
               PROVE  Cardinality(Owners(r)) = IF r \in completed THEN 0 ELSE 1
    BY DEF PendedReadOwned
  <2>1. ReadInv /\ HolderInv
    BY <1>1 DEF AccessInv
  <2>2. \A x : x \in Owners(r) <=>
           \/ x \in Subscribers /\ Contains(pendedReads[x], r)
           \/ x \in Callers \cup Files /\ taken[x] = r
           \/ x = r /\ cancelPc[r] = "complete"
    BY <2>1 DEF Owners, HolderInv
  <2>3. CASE r \in completed
    <3>1. Owners(r) = {}
      BY <2>1, <2>2, <2>3 DEF ReadInv, ListedInv, TakenInv, CancelInv
    <3> QED BY <2>3, <3>1, FS_EmptySet
  <2>4. CASE r \notin completed
    <3>1. ASSUME Contains(pendedReads[readCtx[r]], r), readCtx[r] \in Subscribers
          PROVE  Owners(r) = {readCtx[r]}
      <4>1. \A t \in Callers \cup Files : taken[t] # r
        BY <2>1, <3>1 DEF ReadInv, ListedInv
      <4>2. \A c \in Subscribers : Contains(pendedReads[c], r) => c = readCtx[r]
        BY <2>1 DEF ReadInv, ListedInv
      <4>3. cancelPc[r] # "complete"
        BY <2>1, <3>1 DEF ReadInv, ListedInv, ArmedOrTaken
      <4> QED BY <2>2, <3>1, <4>1, <4>2, <4>3
    <3>2. ASSUME NEW t \in Callers \cup Files, taken[t] = r
          PROVE  Owners(r) = {t}
      <4>1. \A c \in Subscribers : ~ Contains(pendedReads[c], r)
        BY <2>1, <3>2 DEF ReadInv, ListedInv
      <4>2. \A u \in Callers \cup Files : taken[u] = r => u = t
        BY <2>1, <3>2 DEF HolderInv
      <4>3. cancelPc[r] # "complete"
        BY <2>1, <3>2 DEF ReadInv, TakenInv
      <4> QED BY <2>2, <3>2, <4>1, <4>2, <4>3
    <3>3. ASSUME cancelPc[r] = "complete"
          PROVE  Owners(r) = {r}
      <4>1. \A t \in Callers \cup Files : taken[t] # r
        BY <2>1, <3>3 DEF ReadInv, CancelInv
      <4>2. \A c \in Subscribers : ~ Contains(pendedReads[c], r)
        BY <2>1, <3>3 DEF ReadInv, ListedInv, ArmedOrTaken, CancelInv
      <4> QED BY <2>2, <3>3, <4>1, <4>2
    <3>4. Progress(r)
      BY <2>1 DEF ReadInv, ProgressInv
    <3>5. /\ readCtx[r] \in Subscribers
          /\ \/ Contains(pendedReads[readCtx[r]], r)
             \/ \E t \in Callers \cup Files : taken[t] = r
             \/ cancelPc[r] = "complete"
      <4>1. driverContext[r] # NoOne /\ driverContext[r] = readCtx[r]
        BY <2>4, <3>4 DEF Progress
      <4>2. readCtx[r] \in Subscribers
        BY <1>1, <4>1
      <4> QED BY <2>4, <3>4, <4>2 DEF Progress
    <3>6. \E x : Owners(r) = {x}
      BY <3>1, <3>2, <3>3, <3>5
    <3> QED BY <2>4, <3>6, FS_Singleton
  <2> QED BY <2>3, <2>4
<1> QED BY <1>1, AccessAlways, PTL

\* DPT_ReadCancel uses an unset context only for a read that was cancelled before DPT_Read
\* had published it; it never unlinks or completes a read a second time.
THEOREM CancelFaultsEarly == Spec => []CancelFaultsOnlyEarly
<1>1. AccessInv => CancelFaultsOnlyEarly
  BY DEF AccessInv, FaultInv, CancelFaultsOnlyEarly
<1> QED BY <1>1, AccessAlways, PTL

\* A context that DPT_Close has unlinked has nothing on its lists and no sender; one that
\* DPT_Cleanup finds was left by two subscriptions of one file.
THEOREM ClosedIsEmpty == Spec => []ClosedContextEmpty
<1>1. ASSUME TypeInv, AccessInv PROVE ClosedContextEmpty
  <2>1. LeftoverOnlyByDoubleSubscribe
    BY <1>1 DEF AccessInv, FaultInv
  <2>2. ASSUME NEW c \in Subscribers, ctxPc[c] = "closed", NEW q \in Callers, target[q] = c
        PROVE  callPc[q] \in {"wait", "woken", "done"}
    <3>1. ~ Contains(subscriptions, c)
      BY <1>1, <2>2 DEF AccessInv, ContextListInv
    <3>2. callPc[q] \notin {"send", "scan", "fill", "sent", "queue"}
      BY <1>1, <2>2, <3>1 DEF AccessInv, TargetInv
    <3>3. callPc[q] # "idle"
      BY <1>1, <2>2, DispatchAssumption DEF AccessInv, TargetInv
    <3> QED BY <1>1, <3>2, <3>3 DEF TypeInv, TypeOK
  <2> QED BY <1>1, <2>1, <2>2 DEF ClosedContextEmpty, AccessInv, EmptyInv
<1> QED BY <1>1, AccessAlways, PTL

\* Whatever senders, readers and cancellation do, a context never has a message twice,
\* and it has the message of a request until it is closed.
THEOREM MessagesOnce == Spec => []MessageOnce
<1>1. ASSUME TypeInv, AccessInv, Running, NEW c \in Subscribers, NEW q \in Callers
      PROVE  Copies(c, q) = IF Has(c, q) THEN 1 ELSE 0
  <2> DEFINE Queued == {i \in DOMAIN pendedMessages[c] : pendedMessages[c][i] = q}
             Filled == {r \in Reads : readCtx[r] = c /\ delivered[r] = q}
  <2>1. CopyInv /\ q # NoOne /\ pendedMessages[c] \in Seq(Callers)
    BY <1>1, DispatchAssumption DEF AccessInv, MessageInv, TypeInv, TypeOK
  <2>2. CASE Contains(pendedMessages[c], q)
    <3>1. PICK i \in DOMAIN pendedMessages[c] : pendedMessages[c][i] = q
      BY <2>1, <2>2, OnList
    <3>2. Queued = {i}
      BY <2>1, <3>1 DEF CopyInv, IsInjective
    <3>3. Filled = {}
      BY <2>1, <2>2 DEF CopyInv
    <3>4. Cardinality(Queued) = 1 /\ Cardinality(Filled) = 0
      BY <3>2, <3>3, FS_Singleton, FS_EmptySet
    <3> QED BY <2>2, <3>4 DEF Copies, Has
  <2>3. CASE ~ Contains(pendedMessages[c], q)
    <3>1. Queued = {}
      BY <2>1, <2>3, OnList
    <3>2. CASE Delivered(c, q)
      <4>1. PICK r \in Reads : readCtx[r] = c /\ delivered[r] = q
        BY <3>2 DEF Delivered
      <4>2. Filled = {r}
        BY <2>1, <4>1 DEF CopyInv
      <4>3. Cardinality(Queued) = 0 /\ Cardinality(Filled) = 1
        BY <3>1, <4>2, FS_Singleton, FS_EmptySet
      <4> QED BY <3>2, <4>3 DEF Copies, Has
    <3>3. CASE ~ Delivered(c, q)
      <4>1. Filled = {}
        BY <3>3 DEF Delivered
      <4>2. Cardinality(Queued) = 0 /\ Cardinality(Filled) = 0
        BY <3>1, <4>1, FS_EmptySet
      <4> QED BY <2>3, <3>3, <4>2 DEF Copies, Has
    <3> QED BY <3>2, <3>3
  <2> QED BY <2>2, <2>3
<1>2. ASSUME TypeInv, AccessInv, Running, NEW c \in Subscribers, NEW q \in Callers
      PROVE  /\ Copies(c, q) <= 1
             /\ q \notin Broadcasters /\ target[q] = c /\ callPc[q] \in {"wait", "woken", "done"}
                   /\ ~ Flushed(c) => Copies(c, q) = 1
  <2>1. target[q] = c => target[q] # NoOne
    BY DispatchAssumption
  <2>2. q \notin Broadcasters /\ target[q] = c /\ callPc[q] \in {"wait", "woken", "done"}
           /\ ~ Flushed(c) => Has(c, q)
    BY <1>2, <2>1 DEF AccessInv, MessageInv, SentInv, Sent
  <2> QED BY <1>1, <1>2, <2>2
<1>3. TypeInv /\ AccessInv => MessageOnce
  BY <1>2 DEF MessageOnce
<1> QED BY <1>3, AccessAlways, PTL

=============================================================================
