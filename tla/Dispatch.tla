------------------------------ MODULE Dispatch ------------------------------
(***************************************************************************)
(* The control device of the driver (src/EVhdParser/Dispatch.c): user-mode *)
(* files subscribe to driver messages with an IOCTL and read them, kernel  *)
(* threads post requests and wait for the service's answer, the I/O        *)
(* manager cancels reads and closes files.                                 *)
(*                                                                         *)
(* Every thread is one call of one dispatch routine; its program counter   *)
(* stops wherever another thread can observe or change something: at each  *)
(* lock, before each unlocked access, and between the accesses made to an  *)
(* IRP while its cancel routine is armed.  A subscription context is named *)
(* by the thread that allocates it, a message by the caller that sends it. *)
(***************************************************************************)
EXTENDS Naturals, FiniteSets, SequencesExt

CONSTANTS
    Files,          \* file objects of the control device
    Subscribers,    \* CREATE_SUBSCRIPTION calls, and the contexts they allocate
    Reads,          \* read IRPs
    Cancellable,    \* those of them the I/O manager may cancel
    Callers,        \* kernel threads that send a message
    Broadcasters,   \* those of them that call DPT_QueueMessage
    Answers,        \* FINISH_REQUEST calls
    Ids,            \* the request ids they may name
    CloseAfterIrps, \* does IRP_MJ_CLOSE wait for the file's reads to complete?
    NoOne

ASSUME DispatchAssumption ==
    /\ Cancellable \subseteq Reads /\ Broadcasters \subseteq Callers /\ Ids \subseteq Nat
    /\ CloseAfterIrps \in BOOLEAN
    /\ NoOne \notin Files \cup Subscribers \cup Reads \cup Callers \cup Answers
    \* the owners of one lock are told apart
    /\ Files \cap Callers = {} /\ Files \cap Answers = {} /\ Callers \cap Answers = {}
    /\ Files \cap Reads = {} /\ Callers \cap Reads = {}

VARIABLES
    device,         \* "down", "up" or "unloaded"
    dptLock,        \* owner of DptLock
    cancelLock,     \* owner of the system cancel spin lock
    subscriptions,  \* DptSubscriptions
    requests,       \* DptRequests: callers whose stack entry is linked
    counter,        \* DptRequestCounter
    early,          \* history: reads cancelled before DPT_Read published them
    fault,          \* the undefined behaviour that was reached, if any
    filePc, fsContext,
    ctxPc, ctxFile, ctxLock,                            \* of a subscription context
    servicing,      \* the contexts with ServicingContext set
    pendedReads, pendedMessages,
    readPc, readCtx,                                    \* DPT_Read and its pContext
    driverContext,  \* DriverContext[0] of a read IRP
    armed,          \* the read IRPs whose cancel routine is set
    cancelled,      \* those with Irp->Cancel set
    cancelPc, delivered, completed,
    callPc, target, requestId, response, status,        \* of a caller
    taken,          \* the read a caller, or a closing file, has unlinked to complete it
    answerPc, answerId, entry                           \* of a FINISH_REQUEST call

fileVars == <<device, filePc, fsContext>>
linkVars == <<subscriptions, ctxPc, ctxFile, servicing>>
queueVars == <<pendedReads, pendedMessages>>
lockVars == <<dptLock, cancelLock, ctxLock>>
readVars == <<readPc, readCtx, driverContext>>
cancelVars == <<armed, cancelled, cancelPc, early>>
doneVars == <<delivered, completed, fault>>
sendVars == <<callPc, target, taken>>
requestVars == <<requests, counter, requestId, response, status, answerPc, answerId, entry>>
vars == <<fileVars, linkVars, queueVars, lockVars, readVars, cancelVars, doneVars, sendVars,
          requestVars>>

-----------------------------------------------------------------------------
TypeOK ==
    /\ device \in {"down", "up", "unloaded"}
    /\ dptLock \in Files \cup Callers \cup Answers \cup {NoOne}
    /\ cancelLock \in Reads \cup {NoOne}
    /\ subscriptions \in Seq(Subscribers)
    /\ requests \in SUBSET Callers
    /\ counter \in Nat
    /\ early \in SUBSET Reads
    /\ fault \in {"none", "unset_context", "unlinked_remove", "completed_twice",
                  "touched_completed", "freed_link", "null_message"}
    /\ filePc \in [Files -> {"none", "open", "flush", "drain", "complete", "closed"}]
    /\ fsContext \in [Files -> Subscribers \cup {NoOne}]
    /\ ctxPc \in [Subscribers -> {"free", "checked", "insert", "linked", "refused", "closed"}]
    /\ ctxFile \in [Subscribers -> Files \cup {NoOne}]
    /\ ctxLock \in [Subscribers -> Files \cup Reads \cup Callers \cup {NoOne}]
    /\ servicing \in SUBSET Subscribers
    /\ pendedReads \in [Subscribers -> Seq(Reads)]
    /\ pendedMessages \in [Subscribers -> Seq(Callers)]
    /\ readPc \in [Reads -> {"idle", "lock", "check", "context", "mark", "tail", "returned"}]
    /\ readCtx \in [Reads -> Subscribers \cup {NoOne}]
    /\ driverContext \in [Reads -> Subscribers \cup {NoOne}]
    /\ armed \in SUBSET Reads
    /\ cancelled \in SUBSET Reads
    /\ cancelPc \in [Reads -> {"idle", "routine", "remove", "complete", "done"}]
    /\ delivered \in [Reads -> Callers \cup {NoOne}]
    /\ completed \in SUBSET Reads
    /\ callPc \in [Callers -> {"idle", "send", "scan", "fill", "sent", "queue", "wait",
                               "woken", "done"}]
    /\ target \in [Callers -> Subscribers \cup {NoOne}]
    /\ requestId \in [Callers -> Nat]
    /\ response \in [Callers -> Answers \cup {NoOne}]
    /\ status \in [Callers -> {"none", "SUCCESS", "TIMEOUT"}]
    /\ taken \in [Callers \cup Files -> Reads \cup {NoOne}]
    /\ answerPc \in [Answers -> {"idle", "found", "done"}]
    /\ answerId \in [Answers -> Nat]
    /\ entry \in [Answers -> Callers \cup {NoOne}]

Init ==
    /\ device = "down"
    /\ dptLock = NoOne /\ cancelLock = NoOne /\ ctxLock = [c \in Subscribers |-> NoOne]
    /\ subscriptions = <<>>
    /\ requests = {} /\ counter = 0
    /\ early = {} /\ fault = "none"
    /\ filePc = [f \in Files |-> "none"]
    /\ fsContext = [f \in Files |-> NoOne]
    /\ ctxPc = [c \in Subscribers |-> "free"]
    /\ ctxFile = [c \in Subscribers |-> NoOne]
    /\ servicing = {}
    /\ pendedReads = [c \in Subscribers |-> <<>>]
    /\ pendedMessages = [c \in Subscribers |-> <<>>]
    /\ readPc = [r \in Reads |-> "idle"]
    /\ readCtx = [r \in Reads |-> NoOne] /\ driverContext = readCtx /\ delivered = readCtx
    /\ armed = {} /\ cancelled = {} /\ completed = {}
    /\ cancelPc = [r \in Reads |-> "idle"]
    /\ callPc = [q \in Callers |-> "idle"]
    /\ target = [q \in Callers |-> NoOne] /\ response = target
    /\ requestId = [q \in Callers |-> 0]
    /\ status = [q \in Callers |-> "none"]
    /\ taken = [t \in Callers \cup Files |-> NoOne]
    /\ answerPc = [a \in Answers |-> "idle"]
    /\ answerId = [a \in Answers |-> 0]
    /\ entry = [a \in Answers |-> NoOne]

-----------------------------------------------------------------------------
(* Helpers *)

\* A fault is a bugcheck: nothing runs after it.
Running == fault = "none"

\* A thread of each kind goes on from one stop to another.
FileGoes(f, from, to) == Running /\ filePc[f] = from /\ filePc' = [filePc EXCEPT ![f] = to]
ContextGoes(s, from, to) == Running /\ ctxPc[s] = from /\ ctxPc' = [ctxPc EXCEPT ![s] = to]
ReadGoes(r, from, to) == Running /\ readPc[r] = from /\ readPc' = [readPc EXCEPT ![r] = to]
CancelGoes(r, from, to) ==
    Running /\ cancelPc[r] = from /\ cancelPc' = [cancelPc EXCEPT ![r] = to]
CallGoes(q, from, to) == Running /\ callPc[q] = from /\ callPc' = [callPc EXCEPT ![q] = to]
AnswerGoes(a, from, to) ==
    Running /\ answerPc[a] = from /\ answerPc' = [answerPc EXCEPT ![a] = to]

\* IoCompleteRequest: completing an IRP twice stops the machine.
IoCompleteRequest(r) ==
    /\ completed' = completed \cup {r}
    /\ fault' = IF r \in completed THEN "completed_twice" ELSE "none"

\* RemoveEntryList
Unlink_Keeps(list, x) == list           \* mutant
Unlink(list, x) == RemoveAt(list, CHOOSE i \in DOMAIN list : list[i] = x)

\* IoSetCancelRoutine(pIrp, NULL) returns the routine: the I/O manager has not
\* taken it to cancel the IRP.
Completable_Always(r) == TRUE           \* mutant
Completable(r) == r \in armed

\* The requests a file still has inside a dispatch routine.
InDispatch(f) ==
    \/ \E c \in Subscribers : ctxFile[c] = f /\ ctxPc[c] \in {"checked", "insert"}
    \/ \E r \in Reads, c \in Subscribers :
          readCtx[r] = c /\ ctxFile[c] = f /\ readPc[r] # "returned"

\* The I/O manager sends IRP_MJ_CLOSE when the last reference to the file object
\* goes; a read that was not completed holds one.
MayClose(f) ==
    /\ ~ InDispatch(f)
    /\ CloseAfterIrps => \A r \in Reads, c \in Subscribers :
                            readCtx[r] = c /\ ctxFile[c] = f => r \in completed

-----------------------------------------------------------------------------
(* Load, open, subscribe, close, unload *)

\* DPT_Initialize; a failure to create the device or its link undoes itself.
Initialize ==
    /\ Running /\ device = "down"
    /\ device' = "up"
    /\ UNCHANGED <<filePc, fsContext, linkVars, queueVars, lockVars, readVars, cancelVars,
                   doneVars, sendVars, requestVars>>

Open(f) ==
    /\ FileGoes(f, "none", "open") /\ device = "up"
    /\ fsContext' = [fsContext EXCEPT ![f] = NoOne]
    /\ UNCHANGED <<device, linkVars, queueVars, lockVars, readVars, cancelVars, doneVars,
                   sendVars, requestVars>>

\* CREATE_SUBSCRIPTION reads FsContext with no lock held.
CheckSubscription(s, f) ==
    /\ Running /\ filePc[f] = "open" /\ ctxPc[s] = "free"
    /\ ctxFile' = [ctxFile EXCEPT ![s] = f]
    /\ ctxPc' = [ctxPc EXCEPT ![s] = IF fsContext[f] = NoOne THEN "checked" ELSE "refused"]
    /\ UNCHANGED <<fileVars, subscriptions, servicing, queueVars, lockVars, readVars,
                   cancelVars, doneVars, sendVars, requestVars>>

\* It allocates and fills the context and stores it in the file object ...
CreateSubscription(s) ==
    /\ ContextGoes(s, "checked", "insert")
    /\ servicing' \in {servicing, servicing \cup {s}}
    /\ fsContext' = [fsContext EXCEPT ![ctxFile[s]] = s]
    /\ UNCHANGED <<device, filePc, subscriptions, ctxFile, queueVars, lockVars, readVars,
                   cancelVars, doneVars, sendVars, requestVars>>

\* ... unless the pool is exhausted ...
CreateSubscriptionFails(s) ==
    /\ ContextGoes(s, "checked", "refused")
    /\ UNCHANGED <<fileVars, subscriptions, ctxFile, servicing, queueVars, lockVars, readVars,
                   cancelVars, doneVars, sendVars, requestVars>>

\* ... and only then links it, under DptLock.
InsertSubscription(s) ==
    /\ ContextGoes(s, "insert", "linked") /\ dptLock = NoOne
    /\ subscriptions' = Append(subscriptions, s)
    /\ UNCHANGED <<fileVars, ctxFile, servicing, queueVars, lockVars, readVars, cancelVars,
                   doneVars, sendVars, requestVars>>

\* DPT_Close holds DptLock from its first statement to its last.
Close(f) ==
    /\ FileGoes(f, "open", "flush")
    /\ MayClose(f) /\ dptLock = NoOne /\ fsContext[f] # NoOne
    /\ dptLock' = f
    /\ UNCHANGED <<device, fsContext, linkVars, queueVars, cancelLock, ctxLock, readVars,
                   cancelVars, doneVars, sendVars, requestVars>>

CloseUnsubscribed(f) ==
    /\ FileGoes(f, "open", "closed")
    /\ MayClose(f) /\ dptLock = NoOne /\ fsContext[f] = NoOne
    /\ UNCHANGED <<device, fsContext, linkVars, queueVars, lockVars, readVars, cancelVars,
                   doneVars, sendVars, requestVars>>

\* DPT_CancelPendingReads takes the context lock and drops the queued messages.
FlushMessages(f) ==
    LET c == fsContext[f] IN
    /\ FileGoes(f, "flush", "drain") /\ ctxLock[c] = NoOne
    /\ ctxLock' = [ctxLock EXCEPT ![c] = f]
    /\ pendedMessages' = [pendedMessages EXCEPT ![c] = <<>>]
    /\ UNCHANGED <<device, fsContext, linkVars, pendedReads, dptLock, cancelLock, readVars,
                   cancelVars, doneVars, sendVars, requestVars>>

\* A round of its loop: it still has the lock, or takes it again.
DrainLock(f) == ctxLock[fsContext[f]] \in {f, NoOne}

DrainRead(f) ==
    LET c == fsContext[f]
        r == Head(pendedReads[c]) IN
    /\ FileGoes(f, "drain", "complete") /\ DrainLock(f) /\ pendedReads[c] # <<>>
    /\ Completable(r)
    /\ armed' = armed \ {r}
    /\ pendedReads' = [pendedReads EXCEPT ![c] = Tail(@)]
    /\ taken' = [taken EXCEPT ![f] = r]
    /\ ctxLock' = [ctxLock EXCEPT ![c] = NoOne]
    /\ UNCHANGED <<device, fsContext, linkVars, pendedMessages, dptLock, cancelLock, readVars,
                   cancelled, cancelPc, early, doneVars, callPc, target, requestVars>>

\* The IRP is completed outside the context lock.
DrainComplete(f) ==
    /\ FileGoes(f, "complete", "drain") /\ IoCompleteRequest(taken[f])
    /\ taken' = [taken EXCEPT ![f] = NoOne]
    /\ UNCHANGED <<device, fsContext, linkVars, queueVars, lockVars, readVars, cancelVars,
                   delivered, callPc, target, requestVars>>

\* The first read is being cancelled: the lock is released for a sleep.
Asleep_Locked(f) == f                   \* mutant: it is not
Asleep(f) == NoOne

DrainSleep(f) ==
    LET c == fsContext[f] IN
    /\ Running /\ filePc[f] = "drain" /\ ctxLock[c] = f /\ pendedReads[c] # <<>>
    /\ ~ Completable(Head(pendedReads[c]))
    /\ ctxLock' = [ctxLock EXCEPT ![c] = Asleep(f)]
    /\ UNCHANGED <<fileVars, linkVars, queueVars, dptLock, cancelLock, readVars, cancelVars,
                   doneVars, sendVars, requestVars>>

\* The loop ends when no read is left ...
Drained_SkipsCancelled(c) == \A i \in DOMAIN pendedReads[c] :     \* mutant
                                ~ Completable(pendedReads[c][i])
Drained(c) == pendedReads[c] = <<>>

\* ... and DPT_Close unlinks the context, which is never freed.
FinishClose(f) ==
    LET c == fsContext[f] IN
    /\ FileGoes(f, "drain", "closed") /\ DrainLock(f) /\ Drained(c)
    /\ Contains(subscriptions, c)
    /\ subscriptions' = Unlink(subscriptions, c)
    /\ ctxPc' = [ctxPc EXCEPT ![c] = "closed"]
    /\ fsContext' = [fsContext EXCEPT ![f] = NoOne]
    /\ ctxLock' = [ctxLock EXCEPT ![c] = NoOne]
    /\ dptLock' = NoOne
    /\ UNCHANGED <<device, ctxFile, servicing, queueVars, cancelLock, readVars, cancelVars,
                   doneVars, sendVars, requestVars>>

\* No thread is inside the driver.
Quiescent ==
    /\ \A f \in Files : filePc[f] \in {"none", "open", "closed"}
    /\ \A c \in Subscribers : ctxPc[c] \in {"free", "linked", "refused", "closed"}
    /\ \A r \in Reads : readPc[r] \in {"idle", "returned"} /\ cancelPc[r] \in {"idle", "done"}
    /\ \A q \in Callers : callPc[q] \in {"idle", "done"}
    /\ \A a \in Answers : answerPc[a] \in {"idle", "done"}

\* DPT_Cleanup, which the driver's unload routine calls when no handle is left:
\* a context still linked is drained, freed, and unlinked afterwards.
Unload ==
    LET left == ToSet(subscriptions)
        reads == UNION {ToSet(pendedReads[c]) : c \in left} IN
    /\ Running /\ device = "up" /\ Quiescent
    /\ \A f \in Files : filePc[f] \in {"none", "closed"}
    /\ device' = "unloaded"
    /\ fault' \in IF left = {} THEN {"none"} ELSE {"none", "freed_link"}
    /\ subscriptions' = <<>>
    /\ pendedReads' = [c \in Subscribers |-> IF c \in left THEN <<>> ELSE pendedReads[c]]
    /\ pendedMessages' = [c \in Subscribers |-> IF c \in left THEN <<>> ELSE pendedMessages[c]]
    /\ completed' = completed \cup reads
    /\ armed' = armed \ reads
    /\ UNCHANGED <<filePc, fsContext, ctxPc, ctxFile, servicing, lockVars, readVars, cancelled,
                   cancelPc, early, delivered, sendVars, requestVars>>

-----------------------------------------------------------------------------
(* Reads *)

\* DPT_Read fetches the context with no lock held.
Read(r, f) ==
    /\ ReadGoes(r, "idle", "lock") /\ filePc[f] = "open" /\ fsContext[f] # NoOne
    /\ readCtx' = [readCtx EXCEPT ![r] = fsContext[f]]
    /\ UNCHANGED <<fileVars, linkVars, queueVars, lockVars, driverContext, cancelVars, doneVars,
                   sendVars, requestVars>>

\* It refuses a file without a subscription and a buffer too small for a message.
ReadRefused(r, f) ==
    /\ ReadGoes(r, "idle", "returned") /\ filePc[f] = "open"
    /\ completed' = completed \cup {r}
    /\ UNCHANGED <<fileVars, linkVars, queueVars, lockVars, readCtx, driverContext, cancelVars,
                   delivered, fault, sendVars, requestVars>>

\* It takes the context lock and arms the cancel routine.
ReadLock(r) ==
    LET c == readCtx[r] IN
    /\ ReadGoes(r, "lock", "check") /\ ctxLock[c] = NoOne
    /\ ctxLock' = [ctxLock EXCEPT ![c] = r]
    /\ armed' = armed \cup {r}
    /\ UNCHANGED <<fileVars, linkVars, queueVars, dptLock, cancelLock, readCtx, driverContext,
                   cancelled, cancelPc, early, doneVars, sendVars, requestVars>>

\* pIrp->Cancel is set and the routine could be taken back.
WasCancelled_NotChecked(r) == FALSE     \* mutant
WasCancelled(r) == r \in cancelled /\ Completable(r)

ReadCancelled(r) ==
    /\ ReadGoes(r, "check", "tail") /\ WasCancelled(r)
    /\ armed' = armed \ {r}
    /\ ctxLock' = [ctxLock EXCEPT ![readCtx[r]] = NoOne]
    /\ UNCHANGED <<fileVars, linkVars, queueVars, dptLock, cancelLock, readCtx, driverContext,
                   cancelled, cancelPc, early, doneVars, sendVars, requestVars>>

\* What is left of a queue whose first message was copied out.
Dequeued_Keeps(queue) == queue          \* mutant
Dequeued(queue) == Tail(queue)

\* A queued message is copied out; the cancel routine stays armed.
ReadQueued(r) ==
    LET c == readCtx[r] IN
    /\ ReadGoes(r, "check", "tail") /\ ~ WasCancelled(r) /\ pendedMessages[c] # <<>>
    /\ delivered' = [delivered EXCEPT ![r] = Head(pendedMessages[c])]
    /\ pendedMessages' = [pendedMessages EXCEPT ![c] = Dequeued(@)]
    /\ ctxLock' = [ctxLock EXCEPT ![c] = NoOne]
    /\ UNCHANGED <<fileVars, linkVars, pendedReads, dptLock, cancelLock, readCtx, driverContext,
                   cancelVars, completed, fault, sendVars, requestVars>>

ReadPend(r) ==
    LET c == readCtx[r] IN
    /\ ReadGoes(r, "check", "context") /\ ~ WasCancelled(r) /\ pendedMessages[c] = <<>>
    /\ pendedReads' = [pendedReads EXCEPT ![c] = Append(@, r)]
    /\ UNCHANGED <<fileVars, linkVars, pendedMessages, lockVars, readCtx, driverContext,
                   cancelVars, doneVars, sendVars, requestVars>>

\* DriverContext[0] is set after the IRP is linked.
ReadSetContext(r) ==
    /\ ReadGoes(r, "context", "mark")
    /\ driverContext' = [driverContext EXCEPT ![r] = readCtx[r]]
    /\ ctxLock' = [ctxLock EXCEPT ![readCtx[r]] = NoOne]
    /\ UNCHANGED <<fileVars, linkVars, queueVars, dptLock, cancelLock, readCtx, cancelVars,
                   doneVars, sendVars, requestVars>>

\* With no lock held, STATUS_PENDING is stored in the IRP and the IRP is marked
\* pending; a sender may have completed it by then.
ReadMarkPending(r) ==
    /\ ReadGoes(r, "mark", "returned")
    /\ fault' \in IF r \in completed THEN {"none", "touched_completed"} ELSE {"none"}
    /\ UNCHANGED <<fileVars, linkVars, queueVars, lockVars, readCtx, driverContext, cancelVars,
                   delivered, completed, sendVars, requestVars>>

ReadComplete(r) ==
    /\ ReadGoes(r, "tail", "returned") /\ IoCompleteRequest(r)
    /\ UNCHANGED <<fileVars, linkVars, queueVars, lockVars, readCtx, driverContext, cancelVars,
                   delivered, sendVars, requestVars>>

-----------------------------------------------------------------------------
(* Cancellation *)

\* IoCancelIrp: under the cancel lock it sets Cancel and takes the routine; with
\* a routine to call it keeps the lock.
Cancel(r) ==
    /\ Running /\ r \in Cancellable \ (completed \cup cancelled) /\ readPc[r] # "idle"
    /\ cancelLock = NoOne /\ r \in armed
    /\ cancelled' = cancelled \cup {r}
    /\ armed' = armed \ {r}
    /\ cancelPc' = [cancelPc EXCEPT ![r] = "routine"]
    /\ cancelLock' = r
    /\ early' = IF readPc[r] \in {"check", "context", "tail"} THEN early \cup {r} ELSE early
    /\ UNCHANGED <<fileVars, linkVars, queueVars, dptLock, ctxLock, readVars, doneVars,
                   sendVars, requestVars>>

CancelUnarmed(r) ==
    /\ Running /\ r \in Cancellable \ (completed \cup cancelled) /\ readPc[r] # "idle"
    /\ cancelLock = NoOne /\ r \notin armed
    /\ cancelled' = cancelled \cup {r}
    /\ UNCHANGED <<fileVars, linkVars, queueVars, lockVars, readVars, armed, cancelPc, early,
                   doneVars, sendVars, requestVars>>

\* DPT_ReadCancel drops the cancel lock first and reads DriverContext[0].
CancelRoutine(r) ==
    /\ CancelGoes(r, "routine", "remove")
    /\ cancelLock' = NoOne
    /\ fault' = IF driverContext[r] = NoOne THEN "unset_context" ELSE "none"
    /\ UNCHANGED <<fileVars, linkVars, queueVars, dptLock, ctxLock, readVars, armed, cancelled,
                   early, delivered, completed, sendVars, requestVars>>

\* The read is unlinked under the context lock and completed after it.  It must
\* still be on the list: nobody checks.
CancelRemove(r) ==
    LET c == driverContext[r] IN
    /\ CancelGoes(r, "remove", "complete") /\ ctxLock[c] = NoOne
    /\ IF Contains(pendedReads[c], r)
       THEN pendedReads' = [pendedReads EXCEPT ![c] = Unlink(@, r)] /\ UNCHANGED fault
       ELSE fault' = "unlinked_remove" /\ UNCHANGED pendedReads
    /\ UNCHANGED <<fileVars, linkVars, pendedMessages, lockVars, readVars, armed, cancelled,
                   early, delivered, completed, sendVars, requestVars>>

CancelComplete(r) ==
    /\ CancelGoes(r, "complete", "done") /\ IoCompleteRequest(r)
    /\ UNCHANGED <<fileVars, linkVars, queueVars, lockVars, readVars, armed, cancelled, early,
                   delivered, sendVars, requestVars>>

-----------------------------------------------------------------------------
(* Sending: DPT_QueueMessage, DPT_SynchronouseRequest and DPT_SendMessage *)

\* Where a caller sends to: every subscription, or the first that services requests.
Targets(q) == {i \in DOMAIN subscriptions : q \in Broadcasters \/ subscriptions[i] \in servicing}

FirstTarget(q) ==
    \E i \in Targets(q) : /\ \A j \in Targets(q) : i <= j
                          /\ target' = [target EXCEPT ![q] = subscriptions[i]]

\* InterlockedIncrement(&DptRequestCounter)
NextId_Decremented == counter - 1      \* mutant
NextId_NotAdvanced == counter          \* mutant
NextId == counter + 1

\* A caller takes DptLock and holds it until its message is sent or queued.
\* DPT_SynchronouseRequest links an entry on its stack before it sends.
Issue(q) ==
    /\ CallGoes(q, "idle", "send") /\ device = "up" /\ q \notin Broadcasters
    /\ dptLock = NoOne /\ FirstTarget(q)
    /\ dptLock' = q
    /\ counter' = NextId
    /\ requestId' = [requestId EXCEPT ![q] = NextId]
    /\ requests' = requests \cup {q}
    /\ UNCHANGED <<fileVars, linkVars, queueVars, cancelLock, ctxLock, readVars, cancelVars,
                   doneVars, taken, response, status, answerPc, answerId, entry>>

Broadcast(q) ==
    /\ CallGoes(q, "idle", "send") /\ device = "up" /\ q \in Broadcasters
    /\ dptLock = NoOne /\ FirstTarget(q)
    /\ dptLock' = q
    /\ UNCHANGED <<fileVars, linkVars, queueVars, cancelLock, ctxLock, readVars, cancelVars,
                   doneVars, taken, requestVars>>

\* Nobody listens: DPT_SynchronouseRequest returns FALSE.
NoTarget(q) ==
    /\ CallGoes(q, "idle", "done") /\ device = "up" /\ dptLock = NoOne /\ Targets(q) = {}
    /\ UNCHANGED <<fileVars, linkVars, queueVars, lockVars, readVars, cancelVars, doneVars,
                   target, taken, requestVars>>

\* DPT_SendMessage takes the context lock; with no pended read it has failed.
SendMessage(q) ==
    LET c == target[q] IN
    /\ CallGoes(q, "send", "scan") /\ ctxLock[c] = NoOne /\ pendedReads[c] # <<>>
    /\ ctxLock' = [ctxLock EXCEPT ![c] = q]
    /\ UNCHANGED <<fileVars, linkVars, queueVars, dptLock, cancelLock, readVars, cancelVars,
                   doneVars, target, taken, requestVars>>

SendFails(q) ==
    LET c == target[q] IN
    /\ CallGoes(q, "send", "queue") /\ ctxLock[c] = NoOne /\ pendedReads[c] = <<>>
    /\ UNCHANGED <<fileVars, linkVars, queueVars, lockVars, readVars, cancelVars, doneVars,
                   target, taken, requestVars>>

\* With the context lock held, each read is looked at under the cancel lock, and
\* the first that is not being cancelled is unlinked.  (The list does not change,
\* and a read that is being cancelled stays so: the scan is one step.)
TakeRead(q) ==
    LET c == target[q] IN
    /\ CallGoes(q, "scan", "fill") /\ cancelLock = NoOne
    /\ \E i \in DOMAIN pendedReads[c] :
          LET r == pendedReads[c][i] IN
          /\ Completable(r)
          /\ \A j \in 1..(i - 1) : ~ Completable(pendedReads[c][j])
          /\ armed' = armed \ {r}
          /\ pendedReads' = [pendedReads EXCEPT ![c] = Unlink(@, r)]
          /\ taken' = [taken EXCEPT ![q] = r]
    /\ ctxLock' = [ctxLock EXCEPT ![c] = NoOne]
    /\ UNCHANGED <<fileVars, linkVars, pendedMessages, dptLock, cancelLock, readVars, cancelled,
                   cancelPc, early, doneVars, target, requestVars>>

\* Every read is being cancelled: DPT_SendMessage has failed.
SkipReads(q) ==
    LET c == target[q] IN
    /\ CallGoes(q, "scan", "queue") /\ cancelLock = NoOne
    /\ \A i \in DOMAIN pendedReads[c] : ~ Completable(pendedReads[c][i])
    /\ ctxLock' = [ctxLock EXCEPT ![c] = NoOne]
    /\ UNCHANGED <<fileVars, linkVars, queueVars, dptLock, cancelLock, readVars, cancelVars,
                   doneVars, target, taken, requestVars>>

\* The read is filled and completed with the context lock free.
FillRead(q) ==
    /\ CallGoes(q, "fill", "sent")
    /\ delivered' = [delivered EXCEPT ![taken[q]] = q]
    /\ IoCompleteRequest(taken[q])
    /\ taken' = [taken EXCEPT ![q] = NoOne]
    /\ UNCHANGED <<fileVars, linkVars, queueVars, lockVars, readVars, cancelVars, target,
                   requestVars>>

\* After one context: a broadcast goes on to the next of the list, a request
\* releases DptLock and waits.
NextTarget(q) ==
    /\ q \in Broadcasters
    /\ \E i \in 1..(Len(subscriptions) - 1) :
          /\ subscriptions[i] = target[q]
          /\ target' = [target EXCEPT ![q] = subscriptions[i + 1]]
    /\ callPc' = [callPc EXCEPT ![q] = "send"]
    /\ UNCHANGED dptLock

LastTarget(q) ==
    /\ q \in Broadcasters => subscriptions[Len(subscriptions)] = target[q]
    /\ callPc' = [callPc EXCEPT ![q] = IF q \in Broadcasters THEN "done" ELSE "wait"]
    /\ dptLock' = NoOne
    /\ UNCHANGED target

\* DPT_SendMessage has succeeded: it takes and drops the context lock once more.
MessageSent(q) ==
    /\ Running /\ callPc[q] = "sent" /\ ctxLock[target[q]] = NoOne
    /\ NextTarget(q) \/ LastTarget(q)
    /\ UNCHANGED <<fileVars, linkVars, queueVars, cancelLock, ctxLock, readVars, cancelVars,
                   doneVars, taken, requestVars>>

\* It has failed: its caller queues the message under a second acquisition of
\* the context lock.
QueueMessage(q) ==
    LET c == target[q] IN
    /\ Running /\ callPc[q] = "queue" /\ ctxLock[c] = NoOne
    /\ pendedMessages' = [pendedMessages EXCEPT ![c] = Append(@, q)]
    /\ NextTarget(q) \/ LastTarget(q)
    /\ UNCHANGED <<fileVars, linkVars, pendedReads, cancelLock, ctxLock, readVars, cancelVars,
                   doneVars, taken, requestVars>>

\* The memory for the queued message is written without a look at the pointer.
NoMessage(q) ==
    /\ Running /\ callPc[q] = "queue"
    /\ fault' = "null_message"
    /\ UNCHANGED <<fileVars, linkVars, queueVars, lockVars, readVars, cancelVars, delivered,
                   completed, sendVars, requestVars>>

\* The due time handed to KeWaitForSingleObject is positive, so it lies in the
\* past: the wait is over when it begins.
Expired_Never(q) == FALSE               \* mutant: waits without a timeout
Expired(q) == callPc[q] = "wait"

\* KeWaitForSingleObject: it prefers the event to the timeout.  (The response is
\* written and the event set under one acquisition of DptLock.)
Wait(q) ==
    /\ CallGoes(q, "wait", "woken")
    /\ response[q] # NoOne \/ Expired(q)
    /\ status' = [status EXCEPT ![q] = IF response[q] # NoOne THEN "SUCCESS" ELSE "TIMEOUT"]
    /\ UNCHANGED <<fileVars, linkVars, queueVars, lockVars, readVars, cancelVars, doneVars,
                   target, taken, requests, counter, requestId, response, answerPc, answerId,
                   entry>>

\* The entry is unlinked under DptLock before the frame that holds it goes.
Relocked_NoLock(q) == callPc[q] = "woken"            \* mutant
Relocked(q) == dptLock = NoOne
Remaining_KeepsEntry(q) == requests                  \* mutant
Remaining(q) == requests \ {q}

Return(q) ==
    /\ CallGoes(q, "woken", "done") /\ Relocked(q)
    /\ requests' = Remaining(q)
    /\ UNCHANGED <<fileVars, linkVars, queueVars, lockVars, readVars, cancelVars, doneVars,
                   target, taken, counter, requestId, response, status, answerPc, answerId,
                   entry>>

\* The caller is told TRUE on every success code; STATUS_TIMEOUT (0x102) is one.
Succeeded(q) == status[q] \in {"SUCCESS", "TIMEOUT"}

-----------------------------------------------------------------------------
(* Answers: FINISH_REQUEST *)

\* The service names a request; the entry is looked up under DptLock ...
FindRequest(a, id) ==
    /\ AnswerGoes(a, "idle", "found") /\ device = "up" /\ dptLock = NoOne
    /\ \E q \in requests : requestId[q] = id /\ entry' = [entry EXCEPT ![a] = q]
    /\ answerId' = [answerId EXCEPT ![a] = id]
    /\ dptLock' = a
    /\ UNCHANGED <<fileVars, linkVars, queueVars, cancelLock, ctxLock, readVars, cancelVars,
                   doneVars, sendVars, requests, counter, requestId, response, status>>

\* (no such request: STATUS_INVALID_DEVICE_REQUEST)
RefuseAnswer(a, id) ==
    /\ AnswerGoes(a, "idle", "done") /\ device = "up" /\ dptLock = NoOne
    /\ \A q \in requests : requestId[q] # id
    /\ answerId' = [answerId EXCEPT ![a] = id]
    /\ UNCHANGED <<fileVars, linkVars, queueVars, lockVars, readVars, cancelVars, doneVars,
                   sendVars, requests, counter, requestId, response, status, entry>>

\* ... and its response buffer written and event set before the lock is dropped.  (The
\* one caller of DPT_SynchronouseRequest, Ext_Mount, has such a buffer.)
FinishRequest(a) ==
    /\ AnswerGoes(a, "found", "done")
    /\ response' = [response EXCEPT ![entry[a]] = a]
    /\ dptLock' = NoOne
    /\ UNCHANGED <<fileVars, linkVars, queueVars, cancelLock, ctxLock, readVars, cancelVars,
                   doneVars, sendVars, requests, counter, requestId, status, answerId, entry>>

-----------------------------------------------------------------------------
FileStep(f) ==
    FlushMessages(f) \/ DrainRead(f) \/ DrainComplete(f) \/ DrainSleep(f) \/ FinishClose(f)
SubscriberStep(s) ==
    CreateSubscription(s) \/ CreateSubscriptionFails(s) \/ InsertSubscription(s)
ReadStep(r) == \/ ReadLock(r) \/ ReadCancelled(r) \/ ReadQueued(r) \/ ReadPend(r)
               \/ ReadSetContext(r) \/ ReadMarkPending(r) \/ ReadComplete(r)
CancelStep(r) ==
    CancelRoutine(r) \/ CancelRemove(r) \/ CancelComplete(r)
CallStep(q) == \/ SendMessage(q) \/ SendFails(q) \/ TakeRead(q) \/ SkipReads(q)
               \/ FillRead(q) \/ MessageSent(q) \/ QueueMessage(q) \/ NoMessage(q)
               \/ Wait(q) \/ Return(q)

\* A driver with no thread inside it, or a stopped machine, may rest.
Rest == (~ Running \/ Quiescent) /\ UNCHANGED vars

Next ==
    \* calls that enter the driver; nothing obliges anyone to make them
    \/ Initialize \/ Unload
    \/ \E f \in Files : Open(f) \/ Close(f) \/ CloseUnsubscribed(f)
    \/ \E f \in Files, s \in Subscribers : CheckSubscription(s, f)
    \/ \E f \in Files, r \in Reads : Read(r, f) \/ ReadRefused(r, f)
    \/ \E r \in Reads : Cancel(r) \/ CancelUnarmed(r)
    \/ \E q \in Callers : Issue(q) \/ Broadcast(q) \/ NoTarget(q)
    \/ \E a \in Answers, id \in Ids : FindRequest(a, id) \/ RefuseAnswer(a, id)
    \* steps of the calls inside it
    \/ \E f \in Files : FileStep(f)
    \/ \E s \in Subscribers : SubscriberStep(s)
    \/ \E r \in Reads : ReadStep(r) \/ CancelStep(r)
    \/ \E q \in Callers : CallStep(q)
    \/ \E a \in Answers : FinishRequest(a)
    \/ Rest

\* Kernel threads inside the driver keep running.
Fairness ==
    /\ \A f \in Files : WF_vars(FileStep(f))
    /\ \A s \in Subscribers : WF_vars(SubscriberStep(s))
    /\ \A r \in Reads : WF_vars(ReadStep(r)) /\ WF_vars(CancelStep(r))
    /\ \A q \in Callers : WF_vars(CallStep(q))
    /\ \A a \in Answers : WF_vars(FinishRequest(a))

Spec == Init /\ [][Next]_vars
FairSpec == Spec /\ Fairness

-----------------------------------------------------------------------------
(* Safety *)

\* The entry a FINISH_REQUEST found is still linked, and the caller whose stack
\* holds it has not left its wait, when the response is written through it.
LiveEntry ==
    \A a \in Answers : answerPc[a] = "found" =>
        entry[a] \in requests /\ callPc[entry[a]] \notin {"idle", "done"}

\* Nothing writes to the stack frame of a caller that has returned: a late answer
\* finds no entry.
ReturnedFrameUntouched ==
    [][\A q \in Callers : callPc[q] = "done" =>
           response'[q] = response[q]]_vars

\* Linked requests have different ids, and a response was posted for the id of
\* the request it was written to, whose caller has not left its wait.
AnswerReachesItsRequest ==
    /\ LiveEntry
    /\ \A p, q \in requests : requestId[p] = requestId[q] => p = q
    /\ \A q \in Callers : response[q] # NoOne => answerId[response[q]] = requestId[q]

\* Who has to complete a pended read: the list it is on, a sender, a closing
\* file or its cancel routine.
Owners(r) ==
    {c \in Subscribers : Contains(pendedReads[c], r)}
      \cup {q \in Callers : callPc[q] = "fill" /\ taken[q] = r}
      \cup {f \in Files : filePc[f] = "complete" /\ taken[f] = r}
      \cup {x \in {r} : cancelPc[r] = "complete"}

\* A pended read has exactly one owner until it is complete, and none after:
\* senders, cancellation and close never lose it or fight for it.
PendedReadOwned ==
    Running => \A r \in Reads : readPc[r] \in {"mark", "returned"} =>
        Cardinality(Owners(r)) = IF r \in completed THEN 0 ELSE 1

\* Copies of q's message that context c holds or has delivered.
Copies(c, q) ==
    Cardinality({i \in DOMAIN pendedMessages[c] : pendedMessages[c][i] = q})
      + Cardinality({r \in Reads : readCtx[r] = c /\ delivered[r] = q})

Flushed(c) ==
    \/ ctxPc[c] = "closed" \/ device = "unloaded"
    \/ \E f \in Files : fsContext[f] = c /\ filePc[f] \in {"drain", "complete"}

\* A message is never duplicated, and a request's message is queued or was
\* delivered from the moment its caller waits until its context is closed.
MessageOnce ==
    Running => \A c \in Subscribers, q \in Callers :
        /\ Copies(c, q) <= 1
        /\ (/\ q \notin Broadcasters
            /\ target[q] = c
            /\ callPc[q] \in {"wait", "woken", "done"}
            /\ ~ Flushed(c)) => Copies(c, q) = 1

\* The reads whose cancel routine went on with DriverContext[0] unset.
UnsetContext == {r \in Reads : cancelPc[r] = "remove" /\ driverContext[r] = NoOne}

\* The cancel routine dereferences an unset context only for a read that was itself
\* cancelled before DPT_Read had published it; once a read is pended, cancellation is
\* safe against senders and close: it is neither unlinked nor completed twice.
CancelFaultsOnlyEarly ==
    /\ fault \notin {"unlinked_remove", "completed_twice"}
    /\ fault = "unset_context" => UnsetContext # {} /\ UnsetContext \subseteq early

\* Unloading finds a subscription to free only if its file was subscribed twice.
LeftoverOnlyByDoubleSubscribe ==
    fault = "freed_link" =>
        \E s, t \in Subscribers : /\ s # t /\ ctxFile[s] = ctxFile[t]
                                  /\ ctxPc[s] = "linked" /\ ctxPc[t] \in {"linked", "closed"}

\* A closed context keeps no pended read and no message, and no caller is
\* sending to it, though it is never freed; one that no close has found is left only
\* by two subscriptions of its file.
ClosedContextEmpty ==
    /\ LeftoverOnlyByDoubleSubscribe
    /\ \A c \in Subscribers : ctxPc[c] = "closed" =>
          /\ pendedReads[c] = <<>> /\ pendedMessages[c] = <<>>
          /\ \A q \in Callers : target[q] = c => callPc[q] \in {"wait", "woken", "done"}

-----------------------------------------------------------------------------
(* Liveness, under FairSpec *)

\* A caller that took DptLock always comes back, whatever the service does and
\* whoever cancels reads or closes files.
RequestReturns ==
    \A q \in Callers : callPc[q] = "send" ~> (callPc[q] = "done" \/ ~ Running)

\* A read that is cancelled is completed.
CancelledReadCompletes ==
    \A r \in Reads : r \in cancelled ~> (r \in completed \/ ~ Running)

\* DPT_Close, which keeps DptLock while it waits for cancelled reads, returns.
CloseReturns ==
    \A f \in Files : filePc[f] = "flush" ~> (filePc[f] = "closed" \/ ~ Running)

-----------------------------------------------------------------------------
(* What the repository says of the module and the code does not do *)

\* A message is queued only when it could not be delivered: no context has both
\* a message queued and a read waiting that is not being cancelled.
QueuedOnlyWithoutReader ==
    \A c \in Subscribers : pendedMessages[c] # <<>> =>
        ~ \E r \in armed : Contains(pendedReads[c], r) /\ readPc[r] = "returned"

\* Looking at the Cancel field without a lock is safe.
CancelFieldIsSafe ==
    fault \notin {"unset_context", "unlinked_remove", "completed_twice"}

\* A request that succeeded has filled its out parameter.
SuccessHasResponse ==
    \A q \in Callers : callPc[q] = "done" /\ Succeeded(q) => response[q] # NoOne

-----------------------------------------------------------------------------
(* The promise of the request protocol, without locks, contexts or reads *)

Requesters == Callers \ Broadcasters

RequestState(q) == IF callPc[q] = "idle" THEN "idle"
                   ELSE IF callPc[q] = "done" THEN "returned" ELSE "outstanding"

Promise == INSTANCE SyncRequest WITH
    Callers <- Requesters,
    state <- [q \in Requesters |-> RequestState(q)],
    answeredBy <- [q \in Requesters |-> response[q]]

\* DPT_SynchronouseRequest and FINISH_REQUEST implement the request protocol.
ImplementsPromise == Promise!Spec

=============================================================================
