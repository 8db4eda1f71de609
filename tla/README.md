# A verification model of evhdparser

evhdparser is a set of Windows kernel drivers (`EVhdParser`, one build each for
Windows Server 2012, 2012 R2 and 2016) that stand between the storage VSP of
Hyper-V (`storvsp`) and the virtual disk miniport `vhdmp`. They forward a VM's
SCSI packets, encrypt the writes and decrypt the reads of a virtual disk, and
talk to a user-mode service through a control device. `EVhdConfig` is a small
command-line tool for that device. This directory models the drivers in TLA+.

Paths below are relative to `src/EVhdParser/`.

## 1. The system

| component | state | operations | hard part |
|---|---|---|---|
| control device, `Dispatch.c` | list of subscriptions with their pended reads and queued messages; list of requests that wait (each an entry on its caller's stack); `DptLock`, one lock per subscription, the cancel spin lock | open, subscribe, read, cancel, close, `DPT_QueueMessage`, `DPT_SynchronouseRequest`, `FINISH_REQUEST`, unload | four kinds of threads compete for one read; an answer races the timeout of its request, whose entry dies with a stack frame; close sleeps under a lock |
| 2012 R2 parser, `2012R2/parser.c` | a `ParserInstance` per disk: handle, object, IRP, QoS and I/O registration, `bMounted`, save size | open, mount, dismount, close, SCSI packets and their completion, save, restore, queries | nine steps of open and mount may fail, through two roll-back paths; packets complete while control calls run; no lock |
| 2012 parser, `2012/parser.c` | the same without the IRP, QoS registered at each mount | init, mount, cleanup, SRBs, save, restore | `vhdmp` may refuse to remove the disk; the extension is deleted before the disk is removed |
| 2016 parser, `2016/parser.c` | direct IRP with its push lock, QoS IRP, recovery IRP with a rundown protection; a meta operation with its own IRP, buffer and cancel flag | open, mount, dismount, close, recovery and QoS queries, resiliency, packets, save and restore, meta operations, change tracking | one IRP for every thread; IRPs that stay at `vhdmp` beyond the call that sent them; callbacks that run inside the call that asked for them |
| `vhdmp` device, `Vdrvroot.c` | local variables of `OpenVhdmpDevice` | find the shim device, create, ask, close and create again | a loop around five resources, with one failure path for all |
| extension, `Extension.c` | engine and cipher context of a disk; inner MDLs | create, mount, dismount, delete, start and complete a packet | an inner MDL per write, whose release depends on the cipher at completion time; the sector number of a CDB |
| cipher options, `cipher.c`, `DCryptCipher.c` | table of options per disk; cipher contexts | set options, create, destroy | options change at any time |
| log, `Log.c` | current file, rotation flag, count of deferred prints, settings | print, worker, rotate, set, cleanup | a rotation is a dozen file operations, any of which fails, with no lock but a flag |
| driver entry of 2012 and 2012 R2, `2012/driver.c`, `2012R2/driver.c` | device, link, reference, registry key, shim device | load, unload | seven steps that may fail, no roll-back; unload races the workers of the log |
| registry and I/O helpers, `RegUtils.c`, `utils.c` | - | wrappers | the status of an IOCTL that pends; an IRP that is used unchecked |
| `EVhdConfig` | - | one IOCTL | - |

How they interact: `DriverEntry` starts the control device, then the log, then
registers the parser; unload ends them in an order of its own while work items of
the log still run. The VSP calls a parser; the parser opens the disk through
`Vdrvroot.c`, calls `vhdmp` by IOCTL (`SynchronouseCall`, or the direct IRP) and
through the routines `vhdmp` handed out at registration; `vhdmp` calls back when a
packet or a meta operation completes. A parser calls its extension at mount
and dismount and with every packet; `Ext_Mount` asks the user-mode service for
the cipher with `DPT_SynchronouseRequest` and falls back on the table in
`cipher.c`. IOCTLs of the control device set cipher options and log settings.

What makes each correct:

* control device: a pended read is completed once and never lost; a message is
  delivered or queued once; an answer reaches the request it names, while that
  request's stack frame exists; calls return; a closed subscription is empty.
* parsers: whatever step fails, `bMounted` agrees with the registrations, and a
  closed disk holds nothing; no packet is completed into freed memory; a save
  stays in its buffer.
* extension: one context per mounted cipher, freed once and not used after; the
  cipher does not change under a packet; the pages of inner MDLs are
  all freed, and only they;
  a sector is decrypted with the number it was encrypted with, so that the disk
  gives back what was written.
* 2016 IRPs: a status is read by the thread that asked; an IRP is not freed while
  `vhdmp` has it; every question is answered; a meta operation is called back once
  if it was started and never if it was refused; a packet is completed once.
* log: one rotation at a time; kept files stay in order, also across a crash; only
  the oldest is deleted.
* driver: nobody uses the log or the device once it is taken away; unload leaves
  nothing acquired.

## 2. The modules

| module | models | about |
|---|---|---|
| `Dispatch` | `Dispatch.c` | the control device, thread by thread |
| `SyncRequest` | - | what `DPT_SynchronouseRequest` promises its caller; `Dispatch` implements it |
| `Extension` | `Extension.c`, `cipher.c` and the packet part that two parsers share | operators and variables, no specification of its own |
| `ParserR2` | `2012R2/parser.c`, `utils.c` | EXTENDS `Extension` |
| `Parser2012` | `2012/parser.c` | EXTENDS `Extension` |
| `EncryptedDisk` | the data path of `Extension.c`, `ScsiOp.h` | keys, sector numbers and contents of sectors |
| `BlockStore` | - | what a filtered disk promises to a guest; `EncryptedDisk` implements it |
| `VhdmpDevice` | `Vdrvroot.c` | operators and variables, no specification of its own |
| `Parser2016` | `2016/parser.c` | EXTENDS `VhdmpDevice`: the life of an instance and its three IRPs |
| `Requests2016` | `2016/parser.c` | packets, save and restore, queries and meta operations of an open disk |
| `Log` | `Log.c` | the actions and properties of the log |
| `Driver` | `2012R2/driver.c`, `2012/driver.c`, `DPT_Initialize`, `DPT_Cleanup`, start and end of `Log.c` | EXTENDS `Log`; its specification has both |
| `DispatchProofs`, `EncryptedDiskProofs`, `DriverProofs`, `Parser2016Proofs`, `Requests2016Proofs`, `ParserR2Proofs`, `Parser2012Proofs` | - | theorems, each about the module it is named after |
| `ExtensionProofs` | - | lemmas about `Extension`, which the proofs of both parsers that extend it use |
| `MC...` | - | symmetry sets and a constant for TLC |

### Dispatch
Every thread is one call of one dispatch routine. `filePc`, `ctxPc`, `readPc`,
`cancelPc`, `callPc` and `answerPc` are the program counters of files (create,
close), of `CREATE_SUBSCRIPTION`, of `DPT_Read`, of `DPT_ReadCancel`, of senders
and of `FINISH_REQUEST`. A counter stops at each lock, before each unlocked
access, and between the accesses to an IRP whose cancel routine is armed; what
lies between two stops no other thread can observe. `dptLock`, `ctxLock` and
`cancelLock` hold the owner. A subscription context is named by the thread that
allocates it, a message by its caller, an entry of `DptRequests` by the caller
whose stack it is on. The I/O manager is external: it cancels an IRP by taking
its cancel routine and calling it under the cancel lock (`Cancel`), and sends
`IRP_MJ_CLOSE` when no request of the file is inside a dispatch routine
(`MayClose`). Whether a pended read keeps a file from being closed is the constant
`CloseAfterIrps`; where it is FALSE the model has more behaviours than Windows, so
that the code of `DPT_CancelPendingReads` is exercised. A message for which there is no
memory is written through NULL (`NoMessage`).

`fault` records undefined behaviour (a context that is not set, a removal of an
entry that is on no list, an IRP completed twice, a free of a linked context) and
stops the machine; `Running` guards every action. Some faults can be reached; the
properties say when, and only when. The other modules use `fault` the same way.

### Extension, ParserR2, Parser2012
One disk. `ctl` is the next step of the control call in progress: each IOCTL or
allocation that may fail is an action, with its failure as a disjunct. `held` is
the set of resources the instance owns. A packet has a state, an opcode class
(`read`, `write`, `other`), the MDL it points to and its inner MDL. `Ext_FreeInnerMdl`
frees the pages of an inner MDL and not the MDL, which nobody frees: `inner` is then
`"hollow"`, and what the properties say of inner MDLs they say of those with pages. A
missing MDL and one that came out too short are faults (`NoMemory`).

`Ext_Dismount` destroys the context, forgets it and forgets the engine in three steps
(`ExtDestroy`, `ExtForgetContext`, `ExtForgetEngine`) and takes no lock. The callback of
a read is two steps: it looks for a cipher (`Complete`), and then takes the engine and
the context anew for each sector (`Decrypt`; the packet is `"decrypting"`). A write
is encrypted in one step, as the VSP is assumed to make no control call meanwhile.
`CipherCreate` stores engine and context in one step: all engines share the context type and
the functions of `DCryptCipher.c`, and a callback between the two stores does what it would
have done before them (no context, or the old one) or, for a write, after them.

The VSP makes
one control call at a time and sends packets to a mounted disk between control
calls: an assumption on code that is not in the repository.

`ParserR2` makes three more of them visible, because the code's correctness
depends on them. The variable `env`, chosen at the start from the constant
`Environments` and never changed, says whether removing a disk waits for its
packets (`drains`), whether the VSP mounts a mounted disk (`remounts`), and whether
an IOCTL may pend and fail afterwards (`pends`): `SynchronouseCall` then returns
STATUS_PENDING, a success code, and the parser goes on with an answer that was
never filled in. Each property of `ParserR2` names the assumptions it needs.
In `Parser2012` a successful removal drains, and `pends` is a variable of its own: there
a registration that pended and failed leaves a disk mounted without `routines`, and a
refusal that pended is taken for a success. `CallWithoutIrp`, in these modules and in those
of the 2016 parser, is `SynchronouseCall` using an IRP that it failed to allocate; `Calls`
says at which steps it may.

Of the questions to `vhdmp` the models keep what the driver allocates, and the one answer
it copies with a length nobody checks: the parents' names. The 2012 R2 driver even takes that
length, and whether to free the buffer, from memory it has not written (`NamesCopied`,
`NamesFreed`, fault `overrun_names`).

Cipher options change at any moment (`SetCipherOpts`). The response of the user
service at mount is any algorithm, an unknown one, or none.

`Parser2012` has two history variables: `unremoved` (`vhdmp` has refused a removal
or an unregistration) and `orphaned` (packets at `vhdmp` when their cipher was
forgotten, by `EVhd_Cleanup` or by a dismount that took a refusal for a success). The code
behaves differently after each, and the properties name them. After a refusal the module follows the instance to its end
but opens no second one.

Integers: the save size is added in 32 bits in the code and modulo `2^Width` here,
with `Width = 3` and the sizes around the wrap.

### EncryptedDisk and BlockStore
A cipher is symbolic: an encrypted block remembers its key and the number it was
encrypted with, and is noise to anyone who decrypts with another. A request is a
CDB (its length, its first and its last sector); `SectorOffset` is what
`Ext_StartScsiRequest` reads out of the CDB, which is four bytes at offset 2
whatever the length, and `Tweak` what a sector is encrypted with. `vhdmp` moves the
sectors of a request one by one in any order and may fail half-way. A write goes
out of its inner MDL; a read is decrypted in place when it completes, unless its
buffer cannot be mapped (`"raw"`), which the code reports as a success. The cipher
changes between requests only: that is `CipherStable` of `ParserR2`.

`BlockStore` knows no CDBs, MDLs or sector numbers: a store per sector of contents
and cipher, and requests that move sectors. Overlapping requests race in both. The
refinement mapping of `ImplementsStore` decrypts: what a request carries is what
someone would see who holds the key of the mount. A read that ended `"raw"` is
mapped to a failure; taking it for a success, as the code does, would break the
promise.

### VhdmpDevice and Parser2016
`dev` is the next step of `OpenVhdmpDevice`, `temps` what it has acquired, and
`named` the variables that are not NULL: the failure path releases by looking at
the variables, and one of them is stale after a differencing disk was closed.
`EVhdOpenDisk` of `Parser2016` runs these steps as its first one.

`asking[t]` is the step of thread `t` inside `EvhdDirectIoControl`, `carries` and
`ioStatus` are what the shared IRP carries, `notify` and `recovery` follow a
recovery notification, `rundown` counts references that were acquired. The
completion routine does not release the rundown protection, nor does anything
else in the driver. An answer to the QoS question is copied with the size that `vhdmp`
says (fault `overrun_qos`).

### Requests2016
`owned[o]` is what exists of a meta operation, `userBuffer[o]` who has to free its
buffer, `atVhdmp` the operations whose IRP is at `vhdmp`. `vhdmp` may finish an
operation before `EvhdStartMetaOperation` has returned, and the VSP may clean it up
inside the callback. `packet`, `srb`, `told` and `answers` follow a SCSI packet:
`pfnStartIo` fails, finishes or keeps it. `srb` is the SrbStatus in the VSP's request, at
first the one the VSC sent and then any that `vhdmp` sets; it is independent of the
status, so that a failed packet may be told to have succeeded. Mounting is one step
here, with or without `routines`; `Parser2016` has its steps. `Faults` lists the undefined
behaviour: `RequestsSafe` says which of it the code can reach, and when.

### Log and Driver
A file is its generation; `kept[i]` is the generation stored under suffix `i`.
`Rotation` lists the steps of `Log_WriteLine` and `Log_Rotate` between setting and
resetting the flag; `index` is `RotateIndex` of each thread. `MaxKeptRotatedFiles`
is read twice in a rotation, and may change in between. A suffix beyond `Limit`
(999) does not fit the name buffer. The user may delete the log file at any time.
`Log_WriteLine` reads `LogFile` three times with other threads in between: before it takes
the flag (`FileOpen`), in the query, and before it writes (`Write`). `Append` writes with the
handle read last, which a rotation may have closed: the line is lost, or goes to the
newest file if that has the same number. A work item that could not be allocated
is queued all the same (`NoWorkItem`), after which nothing is said of the system
(phase `"fault"`). While the driver ends, its thread prints beside the workers.

`phase` of `Driver` is the next step of `DriverEntry` or of the unload routine.
`held` is what the loaded driver has acquired, `left` what a driver that is gone
has not released and a later one finds: a name in `left` cannot be created again.
`Crash` may happen in every state: memory is gone, files stay as they are in the
middle of a rotation, and the driver may be loaded again.

## 3. The runs

| run | instance | shows |
|---|---|---|
| `dispatch_cancel` | 2 cancellable reads, a broadcast, a request, 2 subscriptions of one file, a close; 2.0 M states | `PendedReadOwned`, `MessageOnce`, `ClosedContextEmpty`; a cancel routine finds no context only if its read was cancelled before `DPT_Read` had published it; unload finds a leftover context only after a double subscription |
| `dispatch_protocol` | 2 requests, 2 answers with ids 1..3, a cancellable read, a close; fair; 208 k | late and wrong answers are harmless; `Dispatch` implements `SyncRequest`; callers return, cancelled reads complete, close returns |
| `r2_disk` | 2 packets, 2 contexts, 2 algorithms, 5 environments: orderly, without one of the three assumptions, without all of them; 3.5 M | memory safety, ownership of contexts and MDLs, roll-back, no leaks, the cipher is stable under packets |
| `p2012_disk` | 2 packets, 2 contexts, 2 algorithms; 5.7 M | the same questions for the 2012 parser, with refusals and IOCTLs that pend and fail |
| `p2016_disk` | 2 queriers, the VSP, 2 notifications; fair; 56 k | exclusive use of the direct IRP, the rundown protection covers what it should, every failing path of `Vdrvroot.c`, and three liveness properties |
| `p2016_meta` | 2 meta operations, 2 packets; 423 k | nothing freed is used, callbacks and completions happen once, what a packet is told, what a call keeps |
| `driver_rotate` | 2 threads, a worker, maxima 0, 1, 3 and 4, limit 3, 4 files, 2 loads; 2.8 M | one rotator, order of kept files, only the oldest deleted, unload and failed starts |
| `data_readback` | 2 requests, 2 sectors, CDBs of 10 and 12 bytes, 2 keys; 255 k | a sector is decrypted with the number it was encrypted with; the disk is a block store |

Four runs end in a counterexample, and each contradicts a line of the source (see
`findings` in `PROJECT.json`):

* `dispatch_lostwakeup`: "if was not able to send message immediatelly, put it in
  the queue" - a read that pends between the failed send and the queueing waits
  beside the queued message.
* `dispatch_earlycancel`: "This code is safe referencing the Irp->Cancel field
  without locks" - a read cancelled between the arming of its routine and its
  publication reaches the routine with no context; one that delivers a queued
  message is completed with its routine armed.
* `dispatch_timeout`: a request that timed out returns TRUE, since
  `STATUS_TIMEOUT` is a success code, with its `_Out_opt_` response unwritten.
* `data_cdb16`: `ScsiOp.h` declares the address of a 16-byte CDB as a ULONG64 with
  its first byte the most significant, and `Extension.c` takes four bytes of it: a
  sector written by WRITE(16) comes back as noise through READ(10).

Some properties state an exception, which is a behaviour of the code that the
same run reaches: `MemorySafe` and `RequestsSafe` (allocations that are not checked or
come out too short, a second close in `EVhd_Init`, the unchecked length of the parents'
names, calls through the routines of a registration that pended and failed),
`PacketAnsweredOnce` (a failed packet whose Srb says success),
`CloseReturns` of `Parser2016` (a rundown reference
that nobody gives back), `ClosedOnce` (the stale handle of `OpenVhdmpDevice`),
`NothingKept` and `NothingLeaks` (buffers and page-less MDLs that are never freed), `UnloadReleases`
(the registry key, and all that a failed start leaves), `RotationFlag` (a query that
fails leaves the flag set). The exception is exact: that nothing else goes wrong is
what the property says. `PROJECT.json` has these under `hazards` too.

Bounds. Two reads are what the list operations of `Dispatch` tell apart (the first
is being cancelled, the second is not); two requests are a linked one and its
successor, with a third id that nobody has; two packets are one with an inner MDL
and one without at the same time; two contexts the old and the new one; two
queriers and the VSP contend for one IRP; two meta operations are one at `vhdmp` and
one in the hands of the VSP; a limit of three suffixes has a first, a middle and a
last, and maxima beyond it; two loads are a driver and the one that finds what
it left; two sectors and two requests overlap or do not, and `Byte = 2` puts an
address of two sectors into the bytes of a CDB that differ between its forms.
`Generations`, `Loads` and `Notifications` cap counters in the guards of `LogPrint`,
`LoadImage` and `NotifyRecoveryStatus`. `counter` and the ids of `Dispatch` are
bounded by the number of callers. Symmetry is used only in runs without liveness
properties.

Deadlock is checked except in `dispatch_protocol` (a driver that nobody calls rests)
and `p2016_disk` (a close that waits for a lost rundown reference stays).
`Rest` of `Dispatch` and `Faulted` of the parser modules are where the others may stop.

Fairness. `Dispatch`: weak fairness of each thread inside the driver; nobody is
obliged to call it, to cancel, to answer or to close. Every
call takes finitely many steps, so that a lock is free for good once the other
calls of the instance are over, and weak fairness is enough.
`Parser2016`: weak fairness of the steps of an open, of a close, of the notification
path and of `vhdmp` completing a direct IRP (`IoSynchronousCallDriver`, and the wait
of `SynchronouseCall`, have no timeout, so that the code relies on it), and strong
fairness of taking the push lock, which Windows hands on in the order of arrival.

Every property of a passing run has a mutant in `PROJECT.json`: a changed
definition, kept beside the one it changes and marked `\* mutant`, under which TLC
finds that property violated.

## 4. What is proved

### DispatchProofs
For all values of the constants:

* `TypeCorrect`: `Spec => []TypeOK`. `TypeOK` is not inductive: a step writes
  `fsContext[f]` or `taken[q]` as an index, so `PcInv` adds that a thread past its
  first step has the object it works on. `TypeInv == TypeOK /\ PcInv`.
* `EntriesLive`, `AnswersMatch`: `Spec => []LiveEntry`, `[]AnswerReachesItsRequest`.
  The strengthening is `RequestsInv == LockInv /\ RequestInv`. `LockInv` says who
  holds `DptLock` at which step: in particular an answer between finding an entry
  and writing to it does, so that the caller cannot unlink the entry there.
  `RequestInv` says that a linked entry belongs to a caller inside
  `DPT_SynchronouseRequest`, that its id is at most the counter (hence new ids are
  new), and which answer has written to it.
* `FramesUntouched`: `Spec => ReturnedFrameUntouched`, an action property, from the
  same invariant: the only writer is `FinishRequest`, through an entry that is
  linked, and a caller that has returned has none.
* `KeepsPromise`: `Spec => ImplementsPromise`, that `Dispatch` implements
  `SyncRequest`. `VisibleStep` reduces a step to what it does to `callPc` and
  `response`, `PromiseStep` maps that to a step of the promise or a stutter.

Subscriptions, pended reads and messages have one more invariant, `AccessInv`, on top
of `TypeInv` and `LockInv`. It says where everything is at each step:

* `ClosedIsEmpty`: `Spec => []ClosedContextEmpty`. A sender works on a context of the list
  (`TargetInv`; the list stays as it is because the sender holds `DptLock`), and a
  context leaves the list only when it has been flushed and drained (`EmptyInv`). A
  context that `DPT_Cleanup` finds belongs to a closed file whose `FsContext` was
  another context (`ContextListInv`).
* `PendedReadsOwned`: `Spec => []PendedReadOwned`, and `CancelFaultsEarly`:
  `Spec => []CancelFaultsOnlyEarly`, which names the reads whose routine has found no context.
  `ReadInv` follows a read: on a list it is there once, and either its cancel routine is armed or that routine is about to remove
  it (`ListedInv`); in the hands of a sender or of a closing file it is on no list
  and cannot be cancelled any more (`TakenInv`, with one holder by `HolderInv`); in
  `DPT_ReadCancel` it is found on the list of its context, and completed by it alone
  (`CancelInv`). `ProgressInv` says when `DPT_Read` has published the read, since
  before that its cancel routine finds no context. All this holds while the driver
  runs; `FaultInv` says what can stop it: a read cancelled early, never a second
  completion or a removal from no list.
* `MessagesOnce`: `Spec => []MessageOnce`. `CopyInv`: a message is in a queue once or
  in one read, and a read with a message has left the lists. `SentInv`: a sender
  has not delivered to its target before it is through with it, a broadcast to no
  context behind its target, and a request's target has the message from then on
  until it is flushed.

The theorems of `Dispatch` rest on `DispatchAssumption` only (the sets of names are
disjoint where they can own the same lock). `DptRequestCounter` is a LONG and the model's counter
does not wrap: a request is linked for the length of its poll only, so that two
linked ids meet only with 2^32 requests at once.

### EncryptedDiskProofs
For every disk, set of requests, key and content:

* `TypeCorrect`, for CDBs of all four lengths and sectors of any length: `OffsetIsNatural` and
  `TweakIsNatural` are what it takes, since a block remembers the number it was encrypted
  with.

The others need the condition `Flat` (commands of 10 or 12 bytes, and sectors of one block
of 512 bytes; `data_cdb16` shows that the first half is needed):

* `AlwaysDecipherable`: `Spec => []Decipherable`. The invariant `Inv` says that every
  encrypted block, on the disk, in a write's inner MDL and in a read's buffer, carries the number of the sector it stands for; `TweakIsSector`
  is where `Flat` enters.
* `KeepsStore`: `Spec => ImplementsStore`, one lemma per kind of step
  (`StoreMount`, `StoreStart`, `StoreMove`, `StoreComplete`).

### DriverProofs
For any number of threads and workers, any sizes, settings, loads and crashes, with
`Inv` inductive:

* `TypeCorrect`. The range of `LogScheduledPrints` needs `CountInv`: it is the number of
  workers that are not done with the log, which is also what makes `Log_Cleanup`
  wait long enough.
* `FlagIsALock`: `Spec => []RotationFlag`. It is inductive but for a load, which
  resets the flag: `PhaseInv` says that nobody is at the log then.
* `KeptInOrder`: `Spec => []RotatedInOrder`. What has to be shown is that a file is
  never kept twice, or `Rename` would put the newest file beside an older name of
  itself: `OpenInv` says that the open file is kept only between the renaming and the
  closing, and that a thread in a rotation has a file; that the other threads do
  not close it there is `RotationFlag`.
* `UnloadClean`: `Spec => []UnloadReleases`, from `PhaseInv`: what is held, what was left
  and who is at the log in each phase.
* `OldestGoes`: `Spec => OnlyOldestDeleted`, an action property.

They rest on `LogAssumption` and `DriverAssumption` (the types of the constants).

### Parser2016Proofs
For any number of queriers and notifications, with the inductive `Inv`:

* `TypeCorrect`.
* `DirectIrpIsExclusive`: `Spec => []DirectIrpExclusive`. `AskInv` adds that the owner
  of the push lock is the one whose request is sent, and that the VSP asks in
  `EvhdUnregisterIo` only, the others while the disk is open.
* `RundownProtects`: `Spec => []RundownCovers`. `NotifyInv`: whoever is on the way to
  `vhdmp` with the recovery IRP, or has it there, holds a reference, so that no wait of
  `EvhdFinalize` ends before it. The reference is never given back, which is why
  the theorem is about safety and `CloseReturns` has an exception.
* `InstanceIsReleased`: `Spec => []InstanceReleased`. `DevInv` lists what
  `OpenVhdmpDevice` has and which of its variables are set at each step, `HeldInv` what
  the instance has at each step of an open and a close, `MountInv` `bMounted` and
  `bIoRegistered`.

They rest on `Parser2016Assumption` (names are different, a bound is a number).

### Requests2016Proofs
For any number of packets and meta operations, any width and any sizes:
`TypeCorrect`, `RequestsAreSafe`, `OperationsCalledBackOnce`, `NothingIsKept` and
`PacketsAnsweredOnce`, one for each safety property of `p2016_meta`. They are inductive
together with `OwnedInv` (what there is of a meta operation in each phase, and who
frees its buffer) and `BufferInv`. `RequestsAreSafe` admits four kinds of undefined behaviour
and says where each of them may happen; `PacketExecuted` and the callback are where a
packet gets its one answer, with any two statuses. `SumWithoutWrap` is the lemma that matters: a sum in a
ULONG32 that passed the check of the code is the sum, so that the buffer is as long as
what is copied. They rest on `RequestsAssumption`: sizes fit in `Width` bits, and
operations, packets and the names of buffers are different values.

### ExtensionProofs
What `Extension` does in either parser: `CreateInv`, `MountInv` and `DismountInv` (who
owns a cipher context before and after, over the three steps of a dismount), `Started`,
`PostProcessed`, `Completion` and `Decryption` (a packet's MDLs before and after, and which
fault its callback may run into), `SumWithoutWrap`.

### ParserR2Proofs
For any packets, pool memory, algorithms, sizes and any set of environments:

* `TypeCorrect`, and `CipherIsStable`: `Spec => CipherStable`, an action property.
* `CipherIsOwned`: `Spec => []CipherOwned`. `CipherInv` says what engine, context and pool
  are at each step of `Ext_Dismount`, `PacketInv` that in an environment that drains no
  read is decrypted there.
* `MemoryIsSafe`: `Spec => []MemorySafe`. `PacketInv` says that in an environment that
  drains `vhdmp` has packets of a registered disk only. An attempt to prove an earlier
  form of `MemorySafe` failed on environments that no run had: it gave too little
  to a VSP that mounts a mounted disk and drains, whose packets lose their cipher
  and whose failed mount forgets the routines. The property names these causes
  now, and the run has five environments instead of two. A read that is decrypted while
  `Ext_Dismount` runs loses its cipher (`lost_cipher`) only if removing does not drain.
* `BuffersInOrder` and `NothingIsLeaked`, from `HeldInv`, `RegisteredInv` and `MountedInv`
  (what is held, registered and mounted at each step of a control call), and
  `CipherInv` (there is no cipher without a mount).

### Parser2012Proofs
For any packets, pool memory, algorithms and sizes, whatever `vhdmp` refuses:
`TypeCorrect`, `MemoryIsSafe`, `InnerIsFreed` (a live inner MDL at `vhdmp` is one whose pages
will be freed when the packet comes back, or its cipher was forgotten) and
`CleanupIsComplete`. The invariant has two parts about registrations,
`MountedInv` always and `UnmountedInv` as long as `vhdmp` has refused nothing.

Both rest on `ParserAssumption` of their module and `ExtensionAssumption`: sizes fit in
`Width` bits (the code keeps them in a ULONG32), and `Null` is no context or algorithm.

### What stays with TLC
Every safety invariant that a passing run checks is a theorem. Only model-checked are
the liveness properties (`RequestReturns`, `CancelledReadCompletes` and `CloseReturns`
of `Dispatch`, the three of `Parser2016`): they need fairness and ENABLED, which
are beyond the prover. No proof needs induction over data, and no module has a
recursive operator.

## 5. Not modelled

* What an answer of `vhdmp` says, where the driver only passes it on: QoS
  configuration, geometry, capabilities, versions. What the driver keeps of it is
  (`saveSize`, the list of names, a mount's registrations). That the answer to a question
  that pended and failed is read from an uninitialised stack is left out with it, and so are
  the sizes inside a change-tracking or a resize request, which are the caller's.
* That a packet may be told to have succeeded when it failed is `Requests2016`; the 2012 R2
  driver (`2012R2/parser.c:135`) does the same, and `ParserR2` has no SrbStatus.
* A save or restore that `vhdmp` fails is reported as done (`2012R2/parser.c:785`,
  `2016/parser.c:695` and `710`): the saved bytes are `vhdmp`'s.
* `FINISH_REQUEST` for a request without a response buffer: the only caller,
  `Ext_Mount`, passes one.
* `bStateless` in the 2012 parser: the flags that `EVhd_Init` computes never set it.
  Its `PARSER_STATE` and spin lock are unused.
* `DPT_PassThrough`, the contents of messages and responses, IRQL rules.
* The list of cipher options and its mutex: they are one value for the one disk of
  a model. `CipherCleanup` releases a mutex that nobody holds and leaves the list,
  at a moment when nothing uses either any more.
* The arithmetic of the cipher, which is in a submodule that is not in the repository.
* Levels, texts and lengths of log lines; `Log_CompressFile`, which `Log_Rotate` calls at
  `Log.c:128` and whose status line 130 overwrites: it changes how a file is stored. What a
  line does to a file of somebody else, opened under the number of a closed log.
* The registry helpers: `Driver` takes any value they may read.
* The entry of the 2016 build: the project file excludes both `driver.c` from the builds for
  Windows 10, and the repository has no other.
* `EVhdConfig`, which issues one IOCTL and exits, and the headers of Windows
  interfaces, which declare.
* Sectors longer than a block of 512 bytes, or addresses beyond 32 bits: these are
  outside the condition `Flat`, and no run has them but `data_cdb16`.

## 6. Plan

The control device came first (its concurrency is the program's own, and the other
parts rely on its requests), then the life of a disk with packets, the log, the
IRPs of 2016 and the 2012 parser; after them the data path, the meta operations, the
`vhdmp` device, and the start and the unloading of the driver. Left to do:

1. Compose `Ext_Mount` with `Dispatch`: a request that timed out decides the cipher of
   a disk.
2. Several disks that share the table of options, with its mutex.
3. Prove action properties beyond those of the runs, such as that `vhdmp`'s callback of a
   meta operation and the VSP's clean-up each change only their own operation.
