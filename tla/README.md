# Verification of the VMCE5 board support package

The repository is a Windows CE 5.0 board support package: a USB host controller
driver (UHCI), an NDIS miniport for AMD PCnet Ethernet, the polled Ethernet and
serial transports of the kernel debugger, two boot loaders and the OEM adaptation
layer. This directory holds TLA+ models of its drivers, TLC configurations that
check them, and theorems that TLAPS checks. Paths below are relative to
`src/SRC/`; `PROJECT.json` maps every definition to the lines it stands for.

    tlasany M.tla                      parse
    tlc -config X.cfg MC_M.tla         model-check (the runs are listed below)
    tlapm M_proofs.tla                 check the proofs

## 1. The system

### USB host controller driver, `DRIVERS/HCD`

| component | state | operations | calls and shares |
|---|---|---|---|
| `CHW` (chw.cpp), `CUhcd` (cuhcd.cpp) | USBCMD, frame counter, interrupt event, flags `m_bDoResume`, `g_fPowerUpFlag`, `g_fPowerResuming` | interrupt thread, `PowerMgmtCallback`, `CeResumeThread`, `GetFrameNumber`, `EnterOperationalState` | signals the done thread of `CUHCIFrame`; tears down and rebuilds the two below |
| `CUHCIFrame` (cpipe.cpp) | busy pipe list, frame list, queue head tree, `numReclamationTransfers` | `AddToBusyPipeList`, `RemoveFromBusyPipeList`, `CheckForDoneTransfersThread` | calls `CheckForDoneTransfers` of each busy pipe under `m_csBusyPipeListLock` |
| `CQueuedPipe`: `CBulkPipe`, `CControlPipe`, `CInterruptPipe` | chain of `STransfer`, `m_fTransferInProgress`, TD lists, `m_dataToggleC/Q`, halted flag | issue, abort, close, reset, completion of transfers | memory shared with the controller: the queue head points into the TD list |
| `CIsochronousPipe` | frame-indexed TDs, wake-up list | the same for streams | writes the frame list while the controller reads it |
| `CDevice`, `CHub`, `CFunction` (cdevice.cpp) | device tree, per-device locks, address 0 lock, detach count | hub status threads, enumeration, attach, detach, pipe table | one device at a time may answer to address 0 |
| `CPhysMem` (cphysmem.cpp) | free and in-use lists of two regions, a special page | allocate, free | DMA memory of every transfer |
| `CritSec_Ex`, `Countdown` (sync.cpp) | owner, nesting, waiters, event; count, event | enter, leave, close, delete; increment, decrement, wait | address 0, hub shutdown, detach threads |
| hcddrv.cpp, system.c | a pointer to the controller | argument checks, loading of clients | entry points of the USB bus driver |

A client driver calls `IssueTransfer`, `AbortTransfer`, `ClosePipe` through
`CFunction`, which holds `m_csDeviceLock` meanwhile. The pipe builds TDs, hands
them to the controller by storing a pointer in its queue head, and puts itself on
the busy list. The controller's interrupt wakes the interrupt thread, which sets
an event; `CheckForDoneTransfersThread` walks the busy list and completes
transfers, calling the client's completion routine.

What is hard here: three kinds of actors (client threads, the done thread, the
controller) change the same queue under two locks taken in both orders, with
flags read outside of any lock; callbacks run with the pipe lock held; an abort
sleeps for a frame while the controller may still be in the TD; the power
callback runs without locks and at any point of everything else; a lock can be
deleted while threads wait for it.

`CDevice` and its kind are entered from three sides: a thread per hub that waits
for its ports to change and enumerates, one device at a time on address 0, worker
threads that detach, and calls of USBD, which hold the lock of the driver and
those of the hubs on their way down to a function. `DisableDevice` detaches and
attaches from a call; unloading takes the tree apart from above.

### PCnet miniport, `DRIVERS/netcard/pcnet`

| component | state | operations | calls and shares |
|---|---|---|---|
| rings (send.c, interrup.c) | transmit and receive descriptors, `FirstTxQueue`, `OpFlags`, `PktArray` | `LanceSendPackets`, `LanceDeferredSend`, `LanceISR`, `LanceHandleInterrupt`, `XmitComplete`, `RcvComplete` | descriptors are written by the driver and the card; completions call up into NDIS, which may call back |
| adapter (LANCE.C, alloc.c, REQUEST.C) | what is allocated and registered, filter, multicast list, `LinkActive`, timers | `LanceInitialize`, `LanceHalt`, `LanceReset`, `LanceSetInformation`, timers, shutdown handler | stops and restarts the rings; tells NDIS of the cable |
| wake-up patterns (REQUEST.C, LANCE.C) | pattern memory `pmRAM` with its lists of blocks, `PatternControl` | add, remove, enable; sleep, wake, reset | the controller compares frames with it while asleep |

Hard: descriptors shared with the card, deferred sends entered from completions,
an interrupt handled while or after the adapter is halted, initialisation that
fails half-way, memory kept in two lists, a pool and a total.

### Serial boot loader, `BOOTLOADER/SBOOT`

One thread that asks a host for an image (`OEMPreDownload`), reads it block by
block (`OEMReadData`) and waits to be told to jump (`OEMLaunch`), over a line that
loses, damages and cuts packets, while the host repeats what is not acknowledged.

### The other parts

KITL (`COMMON/KITL`): a polled receive ring, error frames, interrupt switching.
The Ethernet boot loader (`BOOTLOADER/EBOOT`), the OAL (`KERNEL/OAL`) and the image
configuration (`FILES`) are menus, register set-up and data; the protocols they
use are in libraries outside the repository.

The properties that make each part correct are in section 4. `PROJECT.json` lists
40 hazards with the property that covers each or the reason why none does.

## 2. The modules

**`TransferService`** is what a queued pipe promises to a client: accepted
transfers finish in order, any pending one can be cancelled, each is notified
once, and a pipe closes only when nothing is pending.

**`PipeQueue`** models `CQueuedPipe` and the busy list of `CUHCIFrame`. `queue[p]`
is `m_transfer` with the chain behind it, `last[p]` the node `m_pLastTransfer`
points to (0 for none or freed), `vlink[p]` the transfer that `HW_paVLink` points
into. There is a program counter per pipe for its client (`cpc`), one for the done
thread (`dpc`), and the controller takes steps by itself (`HwFinish`, `HwStop`).
A step ends where the code takes or drops a lock, where a flag can be read
without the lock, where it sleeps for a frame or calls a client's routine.
Nodes are freed by copying the successor over them, as the code does, and
`AfterCopy` says which pointers survive that. On a control pipe (`Control`) a transfer
whose data stage was short is taken twice by the done thread, the second time after the
jump to the status stage, and may fail as the data is copied to the client
(`DoneFaulted`): then the queue head stays at TDs that are freed. The content of the TDs
is left to:

**`TransferTDs`**, the inside of one pipe: `AddTransfer` of bulk and control pipes,
the controller executing TDs against a device that checks toggles, sends short
packets, stalls and errs, and `CheckForDoneTransfers`, `ProcessShortTransfer`,
`AbortQueue`, `ResetPipe` reading back what was done. What the client is told is
kept beside what the bus did (`report`), and compared.

**`HostController`** models the interrupt thread, `PowerMgmtCallback`,
`CeResumeThread` and the frame counter. Every access to one of the unlocked flags
is a step of its own. Frame numbers are a pair: units of half the range of FRNUM
(`unit`), and the frame within it.

**`CritSecEx`** models `CritSec_Ex`: one step for each passage through the inner
critical section, others for the waits and for events set outside it. Win32 events
are modelled from how the file uses them: `SetEvent` on an auto-reset event
releases one sleeper or stays set, `PulseEvent` releases one sleeper at most and
leaves the event reset.

**`PhysMem`** models the allocator of `CPhysMem`: free lists in order of size, the
merging of neighbours, the second attempt of a high priority request in the
normal region. Blocks are addresses and sizes; list nodes are not modelled.

**`UsbHub`** models the tree: a root hub and external hubs, known by address.
`dev` holds the devices with the progress of `HandleDetach`, `thr` the hub threads
with the steps of `AttachDevice`, `addr0` the lock of address 0 (its owner and
whether it is closing, which is what `CritSecEx` promises), `plug`, `answers` and
`change` the ports, and `countdown` the worker threads (`Countdown`). A step ends
where a thread waits for a transfer, an event or a lock. Devices come and go,
requests fail, and the driver is unloaded, at any time. On an external hub clearing a
change and disabling a port are requests too: each may fail before or after the hub
has carried it out, and `AttachDevice` and `WaitForPortStatusChange` go on as if it had
not (`Ignored`). `stray` keeps the ports whose device was left at address 0 that way.

**`UsbRequests`** models the calls of USBD, from `CHcd` through `CHub` to `CFunction`,
against the same detaching, for functions below one hub: the lock of the driver
(`hcd`), of each function (`owner`), the handing over of a device to a worker thread
(`slot`, `handled`, `starting`), `DisableDevice` with its second attach, and unloading.
The hub may be external (`external`): reading, disabling and suspending a port are then
transfers, and the call waits for each on the event of the hub (`event`), which the
hub's thread waits on as well and which does not say whose transfer has ended. `xf` has the
transfer each thread waits for, `orphan` says that one is left which outlives the wait
for it, `zero` is the owner of the lock of address 0.

**`PcnetRings`** models both descriptor rings (`nic`), the queue of deferred sends,
and the interrupt handler turn by turn; NDIS may call in again wherever the driver
calls up. A packet is its number in the order of sending. `overtaken` records that the
receive loop has lost its place in the ring, in one of two ways: the card was restarted
while a frame was being indicated (`Overtakes`), or the loop came round to a frame it
holds (`ComesRound`, finding 2).

**`PcnetAdapter`** models the life of the adapter: `held` is what is allocated or
registered, one step of `LanceInitialize` or `LanceHalt` adds or removes one thing,
and everything an interrupt, a timer or a request touches is looked up in it (`used`
collects what was missing). Filters, cable and timers go on while it runs; the
rings are reduced to "a packet is queued" and "a packet is in the ring".

**`WakePatterns`** models the pattern memory word by word. `LanceTranslatePattern` is a
fold over the groups of four bytes; the lists of blocks keep their order, since the
first fit depends on it. This code is compiled with `NDIS50_PLUS`, which the
`sources` file of the driver does not define. A block that is split takes a descriptor
from the pool, which the code does not look at first: `OverdrawPool` is what it does when
the pool is empty. The two lists run into each other then, and what later additions and
removals make of them, until the next reset, is not followed (`overdrawn`).

**`ImageTransfer`** is what the serial loader promises: memory fills with the image
from its beginning, and only a whole image is run. **`SerialDownload`** is the loader
and its host. The loader is sequential, so a step takes one packet off the line
(`RecvPacket`) and does all that follows. The host is external: it is what the
loader's code expects of it, including that it begins with block 0 when the first
acknowledgement, which the loader sends only once, does not come.

The modules `*_proofs` hold the theorems (section 5), each those of the module it is
named after; **`HcdBase_proofs`** those of `PhysMem`, `CritSecEx` and `HostController`,
and **`Pcnet_proofs`** those of `PcnetAdapter`, `PcnetRings` and `WakePatterns`, which they
extend together. Names two of them would share carry a prefix, as in `MemorySpec` and
`RingsSpec`; a few are a synonym of the code's name (`RestartCard` is `LanceInit`).
**`SequenceLemmas`** has what they need about lists. The `MC_` modules give constants
their values.

The models do not share variables: `PipeQueue` sees a TD list as one thing the
controller finishes or stops in, `TransferTDs` sees a pipe whose handlers are
atomic because `PipeQueue` shows that the locks make them so,
`HostController` sees pipes as existing or not, and what it promises
`PipeQueue` is that the done thread is only signalled while they exist.
`UsbHub` uses of `CritSecEx` that one thread owns the lock and that closing wakes the
others; `UsbRequests` gives `PipeQueue` the assumption that one call at a time reaches
a pipe. `PcnetAdapter` restarts a chip whose rings `PcnetRings` restarts.

## 3. Runs, bounds and fairness

| run | configuration | shows |
|---|---|---|
| `pipe_queue` | MC_PipeQueue.cfg | the queues, locks and busy list implement `TransferService` |
| `close_idle` | MC_PipeClose.cfg | violation: ClosePipe finds a transfer in progress |
| `transfer_tds` | MC_TransferTDs.cfg | toggles and reports agree with the bus |
| `host_controller` | MC_HostController.cfg | interrupts, power cycles, rebuilding, frame number |
| `crit_sec` | MC_CritSecEx.cfg | mutual exclusion, wake-ups, deletion |
| `phys_mem` | MC_PhysMem.cfg | tiling and merging of free memory |
| `usb_hub` | MC_UsbHub.cfg | enumeration, detach and unloading with two hubs |
| `usb_requests` | MC_UsbRequests.cfg | calls against detach, disable and unloading |
| `pcnet_rings` | MC_PcnetRings.cfg | sends, receives, resets and restarts |
| `pcnet_adapter` | MC_PcnetAdapter.cfg | initialisation, halt, filter, cable |
| `wake_patterns` | MC_WakePatterns.cfg | the pattern memory |
| `serial_download` | MC_SerialDownload.cfg | the download implements `ImageTransfer` |

**Bounds.** `pipe_queue`: two pipes and three transfers. One pipe queues three deep, so
that an abort meets the head, the middle and the tail of a chain, and counts for
reclamation; the other has one transfer at a time and is closed, so that closing meets
the done thread anywhere on a list of two elements. A pipe that is closed with several
transfers outstanding runs into the finding of `close_idle`, after which the driver's
state is meaningless: `Closable` keeps this case in a run of its own. The pipe that queues is a control pipe;
the run has 168,483 states. `transfer_tds`:
packets of two bytes and transfers of 0, 3 and 6 bytes give empty, partial and full last
packets, up to three data TDs, and two transfers at once for toggles that are handed on.
`host_controller`: FRNUM of three bits and a counter of four, so that both wrap, and two
power cycles, so that the second may hit any point of the rebuilding the first caused.
`MaxGap` = Half: the counter must be updated within half the range of FRNUM, 1024
frames. That it is called so often is assumed; the note at chw.cpp:480 asks for two
seconds only, in which the top bit of FRNUM can come back to where it was. `crit_sec`:
three threads, so that two can wait while one owns; nesting of two. `phys_mem`: two and
seven units of memory and requests of up to three, which leave gaps of every size in
every order.

`usb_hub`: two ports on the root hub, an external hub with one port on one of them, and
three addresses for at most three devices, so that two hub threads enumerate at once.
Any device may be plugged in from the beginning, and one thing happens from outside
after that (a plug is pulled or put in, a port disabled, a request fails), at every
point of everything else; an enumeration is repeated once (3.4 million states).
`usb_requests`: two functions, so that a call and a detach, or two detaches, concern the
same or different devices, below a root hub or an external one. One caller is enough: the
lock of the driver lets one call in at a time, another waits for it outside and has
changed nothing, and the proofs are for any number of callers (534,576 states; two
callers were run apart, 1.04 million). `pcnet_rings`: a transmit ring of two with four packets, so that it
wraps and packets wait behind it; a receive ring of three with three frames, up to two
of them bad, indicated two at a time, so that batches are full or partial and the loop
comes round the ring to a frame it holds (five frames, with one packet and one transmit
descriptor, were tried apart from the run); one reset and one stop of the card.
`pcnet_adapter`: two multicast addresses of which the driver can store one, five
filters, one send, one change of the cable; every step of the initialisation may fail.
`wake_patterns`: patterns of one, two and three words in a memory of six words with
three slots and four block descriptors, so that it fills up, fragments and is
defragmented, that a skip is full, and that the pool is overdrawn after three
additions and a removal (with the 20 of the driver, by the twentieth addition of a
one-word pattern that is removed each time). `serial_download`: an image of five bytes in
blocks of two, one and two, read in pieces of up to three; three faults, so that a
repeated packet and its acknowledgement may fail too. Constants marked *bound* in the
modules cap what is infinite in the program; nothing else is bounded.

**Deadlock** is checked except where the system really stops: a lock may wait for
ever in its destructor (`crit_sec`, section 4), a driver stays unloaded or an adapter
halted (`usb_hub`, `usb_requests`, `pcnet_adapter`), a card has sent and received
everything (`pcnet_rings`), the image runs (`serial_download`). In `PipeQueue` the
action `Quiet` stands for a driver that waits for calls with nothing outstanding.

**Fairness** is what the scheduler gives: a thread that can go on goes on.
`PipeQueue`: the done thread, the controller on each pipe (TDs end), and a client
call once begun; never that a client begins one. `UsbRequests`: every thread runs,
the controller completes or fails every transfer, a lock that is free is taken by
somebody who waits for it, and the drivers above return from a detach.
`PcnetRings`: the deferred timer fires, an interrupt that is raised is handled and
ends, the card transmits what it owns. `PcnetAdapter`: an interrupt ends (weak), and
the periodic cable timer gets its turn between interrupts (strong, since
interrupts keep disabling it). `SerialDownload`: loader and host go on and repeat;
the line fails a bounded number of times. The other modules have safety only;
`HostController` and `CritSecEx` also define `FairSpec` and `LockFairSpec` with liveness properties,
which hold in these instances and are not part of a run.

## 4. Properties

* `PipeQueue`: `ControllerSeesLiveTDs` (no queue head points into freed TDs, unless
  finding 15 left it there),
  `BusyWhileInProgress` (the busy list), `LastIsTail` (the chain's tail pointer over
  frees by copying), `ReclamationExact` (a counter kept over four exits),
  `ImplementsService` (refinement of `TransferService`: each transfer notified once, in
  order, pipes closed with nothing pending), `EventuallyNotified`.
* `TransferTDs`: `ToggleInStep`, `BulkReportsMoved`, `ReportedAfterStatusStage`.
* `HostController`: `FrameNumberExact`, `SingleRebuild`, `SignalsOnlyLivePipes`,
  `RestartedOrMissed`.
* `CritSecEx`: `MutualExclusion`, `NoLostWakeup`, `DeletedUnused`.
* `PhysMem`: `Tiling`, `Coalesced`.
* `UsbHub`: `OneAtAddressZero` (what answers to address 0 is below the port that the
  owner of its lock enumerates, or was left there by finding 16), `AddressesOwned` (each reserved address belongs to one
  enumeration, whichever step of it fails), `DetachReaches` (every function USBD knows
  will be found by a detach), `HubThreadHears` (no hub thread is joined that
  will not wake).
* `UsbRequests`: `CallsUseLiveDevice` (a call never uses a function that is being
  deleted), `QuietAfterDetach`, `LockLeft` (the lock of the driver is always left, apart
  from finding 9).
* `PcnetRings`: `SentInOrder` (across ring, queue and restarts), `IndicatedInOrder`
  (once, and in order, until the loop loses its place), `NotDeaf` (interrupts are not
  left off), `EverySendAnswered`.
* `PcnetAdapter`: `OnlyKnownUses` (nothing is used before it is there or after it is
  gone, apart from finding 11), `LeftAfterFailure` (what a failed initialisation
  leaves), `FilterHeard`, `StoppedWhenHalted`, `StatusFollowsCable`.
* `WakePatterns`, as long as no block is taken from the empty pool (finding 12):
  `WordsOwnedOnce` (lists, pool and total agree), `PatternsFound`,
  `WatchesRegistered` (the controller compares what NDIS registered).
* `SerialDownload`: `AckedBlocksArrived` (host and loader agree, although three
  different things are acknowledged with the number 0), `ImplementsTransfer`
  (refinement of `ImageTransfer`), `EventuallyLaunched`.

For each property, `PROJECT.json` names a defect (an operator with the comment "A
defect" or "Mutant of") which, put in the place of the definition it alters, makes
the property fail. Properties in the modules that no run lists (type invariants,
`NotifiedOnce`, `NoDanglingPipe`, `NotSilentlyShort`, `PendingInQueue`, `CleanUnload`,
`PortsNoticed`, `PendingEntersFail`, `PowerUpRestarts`, `SortedBySize`) hold in the
same instances: they follow from others or are less telling.

### Where the code does not do what it says

The run `close_idle` shows the first of these. Each of the others is a property of
its module that fails in the run named, with the change given: TLC prints the
behaviour if the property is added to the run's configuration. The properties of
the runs except what these reach, and say so where they are defined.

1. *ClosePipe on a busy pipe* (cpipe.cpp:1556): the loop that aborts transfers
   reads `m_fTransferInProgress` without the lock while the done thread has cleared
   it between two transfers; the assertion at 1565 fails.
2. *A frame taken twice* (interrup.c:500): the descriptor of a frame with errors goes
   back to the card at once, that of a good one stays in `PktArray` until 16 are held or
   the card owns the next descriptor. When bad frames fill the rest of the ring in one
   pass, the loop comes round to a descriptor it holds, tests nothing but OWN, and takes
   the frame again, in spite of "One loop traversal per received packet" (443)
   (`OneTraversalPerPacket`, `pcnet_rings`).
3. *Data toggle after an abort* (cpipe.cpp:1796) is the one of the first TD that did
   not run, not of the last that did, which cpipe.hpp:510 says it is
   (`ToggleOfLastCompleted`, `transfer_tds`).
4. *Bytes of a short control transfer* (cpipe.cpp:1877) are reported as the size of
   the buffer (`ControlReportsMoved`, `transfer_tds`).
5. *Power lost during a rebuild* (chw.cpp:363): the callback is called with TRUE,
   which means suspend, so the repetition promised at 338-340 does not happen
   (`ResignalledRestarts`, `host_controller` with `FairSpec`).
6. *Deleting CritSec_Ex* (sync.cpp:264): PulseEvent resets the event the destructor
   then waits for (`DeleteReturns`, `crit_sec` with `LockFairSpec`).
7. *A worker thread outlives its hub* (cdevice.cpp:2028): nothing waits for it when
   the hub itself is detached, which the comment at 2001 excludes (`WorkerHasHub`,
   `usb_hub`).
8. *The slot of detached devices* (cdevice.cpp:2079) is asserted to be empty, but the
   hub thread and `DisableDevice` may both fill it (`SlotTaken`, `usb_requests`).
9. *A call waits for ever* with the lock of the driver. On an external hub a call that
   reads, disables, suspends or resumes a port (cdevice.cpp:3389, 3595) waits for its
   transfer, without a time limit, on the event that the hub's status thread waits on
   too, and either may take the other's wake-up (`WakeupTaken`, `Stuck`). So does
   `DisableDevice` (2633) after 8, and a call that wants the lock of address 0 from a
   hub thread that is stuck: the exceptions of `LockLeft` (`usb_requests`).
10. *A frame without an interrupt* (interrup.c:476): "Check status after clearing int"
   looks at the status read before (`FrameNotForgotten`, `pcnet_rings`).
11. *Halting* (LANCE.C:3420-3536): with the HomeRun PHY an interrupt that was queued
    before starts the chip again (`HaltStopsController`, `pcnet_adapter`; "This routine
    stops the controller", 3428). The deferred timer is not cancelled, the lock of
    the queue is freed with interrupts enabled, and the shutdown handler stays
    registered: `KnownUses`.
12. *Defragmentation* (REQUEST.C:2964) moves a pattern's words and leaves the slot at
    the old address (`DefragmentKeepsPatterns`, `wake_patterns`); and there may be
    more free blocks than LANCESFT.H:212 says (`FreeBlocksBounded`). So the pool of 20
   descriptors may be empty when a block is split; REQUEST.C:2758 removes its head from
   it all the same, and writes start and size of the block over the slots, which lie
   behind the head (`PoolSuffices`, `SlotsSurvive`). 62 descriptors, one for each word,
   would do (section 5).
13. *The last acknowledgement* (SBOOT/main.c:261): when it is lost the loader waits for
    the jump and no longer acknowledges the repeated block, in spite of "ack, or
    re-ack the sender" (315) (`EventuallyLaunched`, `serial_download` with `LastAckLost` = TRUE).
14. *An error while waiting for the jump* (SBOOT/main.c:594): it leaves `cbBuffer` at 0,
    every later jump request is too long for it, and the loader that "waits
    indefinitely for jump command" (584) waits for good (`EventuallyLaunched`,
    `serial_download` with `LateErrors` = TRUE).
15. *The queue head left at freed TDs* (cpipe.cpp:2981): after a short data stage
    `ProcessShortTransfer` points the queue head at the status TD; if the copying of the
    data to the client's buffer faults, the transfer is complete at once (2015) and its
    TDs are freed with the queue head still there, which the assertion at 2023 denies
    (`TerminatedWhenFreed`, `pipe_queue`).
16. *A port that is not disabled* (cdevice.cpp:1861): when an enumeration fails,
    `AttachDevice` disables the port, ignores whether the hub has done so, and gives up
    the lock of address 0 ("If this function fails, the port will be disabled", 1306).
    On an external hub the request can fail, and the next device that is reset is then the
    second at address 0 (`ZeroAlone`, `usb_hub`).
17. *A wake-up for another's transfer* (cdevice.cpp:3389-3397): a thread woken on the
    event of the hub by the end of another's transfer asserts that its own is done
    (3397, 3603) and goes on while it is not: the transfer keeps pointers to variables of
    a function that has returned (`DoneWhenWoken`, `usb_requests`).

## 5. Proofs

The theorems hold for every value of the constants under the ASSUMEs of their
modules, which TLC evaluates on the runs. They are of the form `Spec => []Inv`: an
inductive invariant holds initially and is kept by every action, one step of the
proof for each. TLC checked each inductive invariant on the instance of the run before
it was proved. What is said of the models in section 6 is assumed here too.

| module | every invariant of its run proved | refinement proved | left to TLC |
|---|---|---|---|
| `PipeQueue` | yes | `ImplementsService`, when pipes that are closed have depth 1 | `EventuallyNotified` |
| `TransferTDs` | yes | | |
| `HostController` | yes | | |
| `CritSecEx` | yes | | |
| `PhysMem` | yes | | |
| `UsbHub` | yes | | |
| `UsbRequests` | yes | | `LockLeft` |
| `SerialDownload` | yes | `ImplementsTransfer` | `EventuallyLaunched` |
| `PcnetAdapter` | yes | | `StatusFollowsCable` |
| `PcnetRings` | yes | | `EverySendAnswered` |
| `WakePatterns` | yes | | |

**PipeQueue_proofs.** `ControlInv` ties the locks to the program counters
(`LockInv`), says who has which transfer in hand (`TargetInv`), and when a queue may
be empty (`QueueInv`): `last = Len(queue)` alone is not inductive, because the
abort of a queued transfer adjusts the pointer from a search that relies on it, and
because completion copies nodes under a lock that must exclude the client. From it
follow `LastTransferIsTail` and, with `BusyInv`, `BusyListComplete`. `BusyInv` says which
pipes may be on the list without a transfer: those whose client is about to remove
them, and the one the done thread is about to unlink. Without it the invariant of
the list is lost when the two meet.

On these rest three more. `UniqueInv`: a transfer is in one place, once in one queue, in
one client's hands, or with nobody, and one that has been notified is in no queue
(`NotifiedAtMostOnce`). The delicate state is that of `ClosePipe`, which looks for a
transfer it has read without the lock: that one may still be queued or may be gone.
`MemoryInv`: TDs are allocated for exactly the queued transfers and those about to be
queued, less the one whose completion routine is being called, and a queue head links
to the transfer at the head or to nothing, or, after `DoneFaulted`, to the one that has
just been freed, until the next transfer is handed over; so none else links to freed TDs
(`ControllerMemorySafe`, whose exception is finding 15). `LoadInv`: `numReclamationTransfers` is the number of pipes with
a queue that is not empty, less those whose only transfer is being aborted, which is
more than `ReclamationExact` says and what each of the four exits keeps
(`ReclamationLoadExact`).

`ServiceImplemented` is the refinement: each step is one of `TransferService` or a
stutter. It has the hypothesis that a pipe that is ever closed has one transfer at a time
(`Depth[p] = 1` for `Closable` pipes), as the constants of the run `pipe_queue` have, and
it is false without it: finding 1 is a pipe that is closed with a transfer pending.
`CloseInv` has the reason: with depth 1 no transfer is behind the one that the done
thread completes, so that the flag read without the lock stays down. `BusyPipesAlive`
(no deleted pipe is on the busy list) holds under the same hypothesis.

**TransferTDs_proofs.** `QueueInv` says where the controller may be in the list of the
transfer at the head, and which TDs are still active; `ListOK` that the toggles of a list
alternate from whichever one it starts with, since an earlier transfer that ends short
flips those of all that wait. `ToggleInv` says where the device's toggle is: at the one of
the TD under the controller, past it when a packet was short, past the last one of the
list when the list is at its end, and, between transfers, opposite to `m_dataToggleC`. From it
`TogglesInStep`. `MovedInv`: until a packet is short, what has moved is the packet size
times the TDs executed; it joins the division in `GetNumTDsNeeded` (`DataTDsProps`) to the
sum that `CheckForDoneTransfers` makes, which is a fold whose defining equation is
proved first (`SumIsSums`). From it `BulkBytesReported`, and `StatusStageReached` for
control transfers.

**HcdBase_proofs.** For the memory, `Tile` says of a list and a set of blocks that they tile a
range, list positions one by one. The argument has four moves: a block is unlinked and
held (`TakeOut`), two that meet are joined (`Joined`), one is cut (`Cut`), one is linked
(`PutIn`). `AddNodeToFreeList`, an allocation and a free are sequences of these moves,
which gives `MemoryTiled` and `MemoryTypesCorrect`. `Apart` (no two free blocks meet) and
`Ordered` are kept by the same operations and give `NoFragments` and `FreeListOrdered`; for the first, the end
of a free block inside a stretch without used blocks would be the beginning of another.

For the lock, `LockInv` joins the owner to the nesting of each thread, the count of
waiting threads to the set of threads at the wait (`CountInv`, with finite
cardinalities), and the event to the sleepers: it is set only when nobody sleeps,
without which `NoLostWakeup` is not inductive. It yields `AtMostOneInside`,
`WakeupsKept`, `DeletedWhenUnused` and `LockTypesCorrect`.

For the host controller, `FrameInv`: the high part has the parity of the top bit at
the last update, and the controller is in the same half range or in the next, by as
many frames as have passed; `FrameNumberCorrect` follows for all widths. `RebuildInv`
(one rebuilding thread; while it has not set `g_fPowerResuming` there is no
interrupt thread to start another) gives `OneRebuild`; `PipesInv` (while the pipes are
down nothing sets the event, since the controller is stopped and power events see
the flag) gives `PipesAliveWhenSignalled`; `RunInv` gives `RestartedAtRest`.

**UsbHub_proofs.** The invariant has a part for each thing that threads share. `OwnerInv`:
a reserved address has one hub thread that enumerates it, nobody else does, and it is
not known to USBD (`AddressesKept`). `TreeInv`: a thread has its hub, and what is in an
array is in that of a hub whose thread was started. `DetachInv`: how far a detach is,
with the slot between hub thread and worker; it gives `DetachAlwaysReaches` and
`ClosingHeard`. For `ZeroAnswersOnce`, `LockInv` (who has the lock of address 0),
`RootPortsInv` and `LowerPortsInv` (whom each port answers to) give `ZeroInv`: a device
at address 0 is the one that the owner of the lock enumerates, and a thread that leaves
the lock has taken it off the address, unless its port is in `stray`. `RootBusy` is
what a device below an external hub needs that has itself been removed: the root hub's
thread is then about to disable the port of that hub, before it resets anything else,
or has ended. The theorem says that nothing but a port that an external hub was not
made to disable (finding 16) breaks the rule.

**UsbRequests_proofs.** `LockInv`: the one call under way holds the lock of the driver,
and from `SetRootHub(NULL)` on there is none. `EntryInv`: who relies on an entry of the
hub's array (a call on its way to a function or inside it; an enumeration, of the hub
thread or of `DisableDevice`, and never both on the same one) and what the entry is
then. `WorkerInv`: a device handed to a worker has left the array, unless the hub itself
goes. With `FunctionInv` (the lock of a function and its control transfer belong to a
call inside it) they give `LiveDeviceUsed`, and with `QuietInv` `QuietDetach`.

**SerialDownload_proofs.** `LoaderInv`: memory and buffer together are the first
blocks of the image. `LineInv` says what cannot be on the line: which is the argument,
since requests, boot and block acknowledgements carry the same number 0. No
acknowledgement comes before the download begins, no second answer to a boot request
once the host sends blocks, none of block 0 after the host has sent everything; block
acknowledgements come in order. `HostInv` has `AckedBlocksArrived` (`BlocksArrived`).
Faults lose, cut and damage packets on the line as the model does, in any number.
`TransferImplemented` is the refinement of `ImageTransfer`; prefixes of the image are
compared by the lemmas about parts in `SequenceLemmas`.

**Pcnet_proofs.** For the adapter, `HeldOK` says of each place of `LanceInitialize` and `LanceHalt`,
the failure exits included, what is allocated or registered there; it is what every
step that takes or gives back keeps (`ResourcesKeep`). `QuietInv` says when an interrupt
that was queued, the timers, or a queued packet may be about, and when the chip is still:
with the first it gives `NothingElseUsed` and `FailureCleansUp`, and the last part, for a
PHY other than HomeRun, `HaltStops`. The delicate place is the end of the halt, where
the interrupt is deregistered after the chip was stopped and what was queued before may
still run. `FilterInv`: chip and initialisation block agree and hold what NDIS asked for,
also while the chip is stopped, since a restart loads the block; it gives `FilterKept`.

For the rings, `RingsInv` has three parts besides types. `MaskInv`: `IN_DPC` is set
exactly while an interrupt is handled, which gives `CardHears`. `SendInv`: seen from the
card's place (`txCard`) on, the transmit ring holds a list of packets and nothing after
it, and the number on the wire, that list and what waits (the queue, or with another PHY
than HomeRun what NDIS holds) are in order. Positions in a ring are taken modulo its
size (`Place`), so a step moves the place and shifts the list. A restart empties the
list and a reset completes the queue; both leave numbers out and put none out of order,
hence `PacketsSentInOrder`. `ReceiveInv`: seen from the driver's place, the receive ring
has `m` frames that the loop has not seen, empty descriptors, and in the last `s`
descriptors nothing but frames that are in `PktArray`, with `s + m <= NR`; last
indicated, held and unseen frames are in order. Counting `s` and `m` apart is what makes
it inductive: a held frame keeps its descriptor while bad ones give theirs back, so the
held frames are not a suffix of the ring without gaps. A frame the loop finds with `OWN`
clear is then an unseen one, or it is held: then the loop has come round the ring
(`ComesRound`) and nothing is promised any more. `FramesIndicatedInOrder` therefore says
exactly how far the loop can be relied on, and finding 2 is the case it excludes.

For the patterns, `PatternsInv` says that the blocks in use and the free ones tile the
memory (`Tiles`: pairwise apart, none outside, every word in one), that `totalPMRUsed`
is the sum of the used sizes, that pool and lists together are `MAX_BLOCKS`, that the
slots name the blocks one to one (`Named`), and, unless a block was moved, that the
blocks carry the words of the registered patterns in their order (`Stored`). All of it
holds until a block is taken from the empty pool, which the code does not prevent
(finding 12). `DescriptorsForAllWords` says what would: every block has a word of its
own (`BlocksAndWords`), so that with `MAX_BLOCKS` no less than the words of the memory no
sequence of calls overdraws the pool. That defragmentation leaves a free block needs an
argument: a pattern that fits into what is unused finds one, since sizes are added up
over a tiling. `BlocksOwnWords` follows by
counting, and `RegisteredAreFound` from `Stored`, as equal words lie in equal places.
For `ControllerWatches`, `Translated` describes the fold of `LanceTranslatePattern`
group by group: the k-th word stands for group `q[k]`, and the skips add up to the
groups left out, also where a full skip needs a word of its own; so what the controller
compares (`Compared`) is what the mask asks for (`Wanted`). Defragmentation keeps
everything but `Stored`, which finding 12 says it does not keep.

**SequenceLemmas** has what the list operations do to elements, lengths and sets
(`RemoveAt`, `InsertAt`, `RemoveFirst`), sums over a list, least elements, and a sequence cut into parts
(`IsParts`), proved from the definitions of the community modules. Where a fact
is about every number up to a length (`UpTo`), it is proved from a least
counterexample with the well-founded order of the naturals.

**Only model-checked.** Every safety invariant the runs check is proved. Liveness under
fairness is out of the prover's reach and stays with TLC: `EventuallyNotified`, `LockLeft`,
`EverySendAnswered`, `StatusFollowsCable`, `EventuallyLaunched`.
`WorkerHasHub`, `SlotTaken` and the other properties of section 4's findings are false.
`FreeListOrdered`, `NotifiedAtMostOnce`, `BusyPipesAlive` and the type invariants of
`CritSecEx`, `PhysMem`, `HostController` and `PipeQueue` are proved and not part of a run.

## 6. What the models assume

* `CFunction::m_csDeviceLock` lets one call at a time reach a pipe.
* Completion routines do not issue or abort transfers on their own pipe.
* The controller finishes the frame it is in before the `Sleep` of an abort ends,
  and no longer writes to a queue head the driver has terminated. What it does with freed
  TDs that a queue head was left at (finding 15) is not followed.
* In `UsbRequests` the external hub itself is not unplugged while a call waits for it,
  whether a function is suspended is not kept (it only makes calls fail, which they
  do anyway), and what the hub's thread asks of the hub between two enumerations
  is reduced to transfers that end and set the event.
* An interrupt thread told to close ends within the second the code waits for it.
* Allocation may fail; the failure paths before any state was changed leave no trace
  and are not separate actions. `LocalAlloc` of a `PhysMem` list node does not fail,
  and neither does the creation of a worker thread.
* Nobody enters a `CritSec_Ex` whose destructor has returned.
* A power callback runs to its end while all other threads stand still, as the
  kernel calls it.
* The callbacks of client drivers (attach, detach, completion) return.
* One hub stands for the path of hubs above a function in `UsbRequests`: each of them
  is locked and searched in the same way.
* NDIS holds its lock around every call, timer and interrupt handler of a running
  miniport, and gives it up while the miniport calls up into it. It does not hold
  them back while the miniport is initialised or halted, as the comment at
  LANCE.C:3428 says of interrupts.
* `NdisMCancelTimer` of the cable timer succeeds.
* The check sums of the serial protocol tell every damaged packet, and what is left
  of a packet behind a cut one has no header in it. The host waits for the line to be
  quiet before it repeats block 0, and an image has at least two blocks.

## 7. Not modelled

*USB*: the isochronous pipe and the interrupt tree (planned); the frame length thread
of `CHW`; over-current, hubs suspended on request, and the detach that a hub thread does
by itself when no worker thread can be created; the special page of `CPhysMem` and its
wait of a blocking request, which no caller in the driver makes.

*PCnet*: queries, the HomeRun rate monitor (LANCE.C 4964-5186), the NDIS 3 transfer of
packet data, the copying of packets into buffers, the scan of the bus, registry
details, WINCE.C.

*Serial loader*: the scan for a header byte by byte, the clock behind the three
seconds, the registers of the port.

*Elsewhere*: KITL (planned). hcddrv.cpp and system.c (checks and loading without state),
EBOOT, the OAL and the image configuration (I/O, register set-up and data) stay out.

## 8. Plan

1. *Done*: pipes and their service, TDs, the host controller, `CritSec_Ex`, memory,
   with the proofs above; hubs and requests; the PCnet rings, adapter and patterns;
   the serial download with its abstract transfer.
2. *Done*: the proofs of section 5, with every safety invariant and both refinements.
3. The isochronous schedule: frame list, wake-up TD, streams that reach past the frame
   list, and aborts of them; the interrupt tree's balance as an operator checked over
   all loads.
4. KITL's polled receive ring.

