# Verification of the virtualization framework

TLA+ modules, TLC runs and TLAPS proofs about the C++ library in `src/`: a
virtual machine monitor for arm64 guests on macOS, built on
Hypervisor.framework (HVF), with virtio-mmio devices and a userspace NAT.
Paths below are relative to the repository; `vm.cpp` is `src/core/vm.cpp`,
`network.cpp` is `src/network/network.cpp`, and so on.

How to run everything, from this directory:

    tlc -workers 2 -config vm_boot.cfg VirtualMachine     # likewise each run below
    tlapm VirtualMachine_proofs.tla                       # likewise the other modules *_proofs

## 1. The system

### Threads

A process holds at most one running `VirtualMachine`. These threads meet in it:

| thread | created by | runs |
|---|---|---|
| application | the user | constructor, `start`, `waitUntilStopped`, destructor; `stop` from any thread or a signal handler |
| run thread | `start()` | `run_all`: spawns the vCPU threads, polls `running_`, joins them, calls the completion handler |
| vCPU threads | `run_all` | `thread_func`: boot wait, then `hv_vcpu_run` and the exit handler; every MMIO access, hence every device's register file, queue service and the NAT's guest side run here |
| console RX | `Console` | `poll`s stdin, feeds the guest one byte at a time |
| net flush | `Net` | moves frames of the NAT to the guest's RX queue |
| NAT helpers | `Stack` | detached: one `connect`s per outbound connection, one forwards per inbound connection, one reads each established host socket, one accepts per forwarded port |

Shared state is guarded by one `mtx_` per device (held for a whole MMIO
access, queue service included), `rx_mtx_` of the network device, `mtx` of the
NAT, and atomics (`running_`, the CPU_ON handshake, each TCP connection's
counters). Guest memory is shared with no lock at all.

### Components

**Lifecycle and vCPU threads** (`vm.cpp`, `vcpu.cpp`). State: `running_`, the
phase of the application and run threads, where each vCPU thread is. Hard:
`stop` races `run_all`'s own `running_ = true`; a vCPU thread may fail at any
HVF call and must still be joined; the destructor may come in any phase.
Correct: nothing of the guest runs once anyone is told the machine ended; a
stop is not undone; a stop ends the run.

**PSCI** (`psci.cpp`). State: `boot_pc`, `boot_x0`, `boot_pending` of each
vCPU, written by one vCPU thread and read by another. Hard: three stores, no
lock, and a target that may be running, waiting, or gone. Correct: a secondary
boots with the two halves of one call, made for it, and every accepted call
boots its target.

**virtio-blk** (`block.cpp`). State: `last_avail`, ready flag, `irq_status_`,
the image, which the constructor could open for writing, only for reading, or
not at all; in guest memory the rings. Hard: another vCPU publishes while one
serves; indices wrap at 2^16 and slots at 128; writes fail half way; a reset.
Correct: each published request, of whatever type, is served once, in order,
with the data the earlier ones left, and is answered before it shows as used;
and, if the image is open, it is collected.

**virtio-net** (`net.cpp`). State: `rx_queue_`, the flush thread's batch,
`irq_status_`, queue indices. Hard: two locks taken by two threads, frames
that come from many threads, one interrupt bit for two queues, a destructor
that joins. Correct: frames in order and at most once, no deadlock, no lost
interrupt, and the destructor returns.

**NAT: TCP and port forwarding** (`network.cpp`). State: the table of
connections by 4-tuple, `done_queue`, the ephemeral port counter; per
connection its state, counters, socket and stop flag. Hard: threads that refer
to a connection by its key after the key has changed hands; numbers taken by
two threads; retries and timeouts; a handler that acts after unlocking.
Correct: the host gets the guest's bytes once and in order, the guest's
sequence space has neither gap nor overlap, no entry is left that nobody will
remove, forwarded connections settle, stopped readers end.

**virtio-input** (`input.cpp`). State: the bounded deque of pending events.
Hard: the cap drops events out of the middle of a report; two threads flush;
buffers come back asynchronously. Correct: the guest ends up with the newest
state, in order, and nothing waits while there is room.

**virtio-console and logger** (`console.cpp`, `logger.cpp`). State: the two
queues, the RX thread's loop and `stop_rx_`; in the logger one pending line,
`g_pending`, shared by hvc0, the UART and every VMM message. Hard: a byte read
from stdin is gone if there is no buffer to put it in; a chain is printed in
pieces with only `mtx_` held, and anyone may log between two of them; the
destructor joins a thread that polls. Correct: input bytes arrive once and in
order; each source's output is complete and in order; nothing is kept back
when the machine ends; the destructor returns.

**virtio-gpu** (`gpu.cpp`). State: resources with picture and scatter list,
the scanout, frames staged by flushes. Hard: commands are pipelined, so each
must see what the earlier ones left; rows cross scatter entries; frames are
shown by a vCPU thread after the lock is released, while other vCPUs change
the resources. Correct: commands take effect one by one; a legal one is never
refused; a flushed picture is shown once, as it was when it was flushed.

**Exit handler** (`exit_handler.cpp`): decodes an exit and dispatches it by
address; keeps no state. Correct: an access reaches the device the device tree
promised there.

**Construction and destruction, guest memory** (`vm.cpp:53-122`, `:163-178`,
`memory.cpp`). State: the process's hypervisor VM, the one shared-memory name
`/virtualization-ram`, the mapping, the devices with their threads, the
terminal's mode. Hard: a dozen steps that each may fail, in several processes
that unlink and create the same name; destructors that run while device
threads still do; a process that dies. Correct: no two machines share RAM, a
built machine is not disturbed, nothing is used after it is released, and a
machine that is gone leaves nothing behind.

**Loader and device tree** (`loader.cpp`, `dtb.cpp`). No state. Hard: limits
relative to RAM at fixed addresses. Correct: the images lie in RAM (the
code does not see to it for every size: section 3, Disagreements).

`PROJECT.json` lists every component with its sources and status, and under
"hazards" every place where this code can go wrong in a way a test hardly
reaches, with the property that watches it or the reason none does.

### Interactions

    application --start/stop/join--> run thread --spawn/join--> vCPU threads
    vCPU thread --atomics (CPU_ON)--> vCPU thread
    vCPU thread --MMIO, mtx_--> Block | Net | Input | Console | Gpu
    device --raise_spi (edge)--> GIC --> vCPU thread
    vCPU (Net mtx_ held) --handle_tcp, NAT mtx--> Stack --rx_mtx_--> rx_queue_
    NAT helper threads --rx_mtx_--> rx_queue_ --flush thread, mtx_--> guest RX ring

## 2. Modules

| module | models | composed with |
|---|---|---|
| `VirtualMachine` | lifecycle, vCPU threads, PSCI handshake | implements `VmService` |
| `VmService` | what a machine promises its owner | |
| `VirtualMachine_proofs` | theorems about `VirtualMachine` | extends it and `TLAPS` |
| `VirtioBlock` | the block device, its rings and its driver | implements `BlockService` |
| `BlockService` | the disk a guest may rely on | |
| `MCVirtioBlock` | the requests of the run of `VirtioBlock` | extends it |
| `VirtioBlock_proofs` | theorems about `VirtioBlock` | extends it and `TLAPS` |
| `VirtioNet` | RX queue, flush thread, TX service, interrupts, destructor | implements `LossyFifo` |
| `VirtioNet_proofs` | theorems about `VirtioNet` | extends it and `TLAPS` |
| `Input` | the pointer's event queue | implements `LossyFifo` |
| `Input_proofs` | theorems about `Input` | extends it and `TLAPS` |
| `LossyFifo` | delivery in order, at most once | |
| `TcpNat` | the NAT's TCP connections and their threads | |
| `TcpNat_proofs` | theorems about `TcpNat` | extends it and `TLAPS` |
| `Console` | console, UART data register, logger, ~Console | |
| `MCConsole` | the chains of its runs | extends it |
| `Console_proofs` | theorems about `Console` | extends it and `TLAPS` |
| `Gpu` | the display's control queue, resources, frames, its driver | implements `Display` |
| `Display` | the display a guest and the application may rely on | |
| `MCGpu` | scatter lists and rectangles of its run | extends it |
| `Gpu_proofs` | theorems about `Gpu` | extends it and `TLAPS` |
| `Platform` | address map, dispatch, device tree nodes, image limits | extended by `Machine` |
| `Machine` | construction and destruction of machines of several processes | |
| `MCMachine` | four machines and their configurations | extends it |
| `Machine_proofs` | theorems about `Machine` | extends it and `TLAPS` |

The map in `PROJECT.json` gives the lines each definition stands for.

### How a step corresponds to the code

One action is one piece of code between two accesses to state another thread
can see. `VirtualMachine` splits at each atomic access, thread creation and
join; the device modules split at lock, unlock and at each read or write of
guest memory the driver can race with, and merge what one lock covers and
nobody else touches. Where a thread is between two such points is a program
counter (`vpc`, `runner`, `pc`, `flush`, `helper`, `io`). What the code throws
or returns early on is an action of its own (`CreateFails`, `DialFails`, ...).
Definitions introduced as "Mutation" are deliberately wrong variants of the
action after them; no specification uses them. They show which mistakes each
property would notice.

**VirtualMachine.** `caller` is the owner's thread, `runner` the run thread
(`enter` is the line `running_ = true`, then the spawn, poll and join loops),
`vpc[i]` vCPU thread i in `thread_func`. CPU_ON is `CpuOn`, `StorePc`,
`SetPending` (two data stores and the release store), the boot wait is
`SpinEnds`, `ReadPc`, `ClearPending`, ... in the order of `vcpu.cpp:59-63`. Each
CPU_ON carries its own number as entry and as context, so a pair torn between
two calls is visible. The atomics are treated as sequentially consistent, which
gives the outcomes of the code's acquire/release pairs. `guestOn`, `issued`,
`starts` and `stopAsked` are history no line of code reads.

**VirtioBlock.** `avail`, `availIdx`, `used`, `usedIdx`, `desc` are guest
memory; `lastAvail`, `ready`, `irqStatus`, `disk`, `mtx` the device. A kick is
`Notify` (QueueNotify takes `mtx_`), then `Drain`, `Commit` per chain (the
answer is written and the used element stored, then both indices move),
`Drained`, `Raise`. `Queue` is what `BlockService` sees: the requests from
`last_avail` to `avail->idx`, less the one whose answer is being stored. A chain is abstracted to the request it holds and a sector
to the request that wrote it last. `image` says how the constructor could open
the image. Without one the device is there all the same, but `Serves` is false
and a kick returns at once (`block.cpp:107`); the driver then sees a capacity of
zero and asks for no data, but may still flush or ask for the id. `Outcomes` lists
the answers by type: `Successes`, `Failures` (a write keeps the segments before the
one that failed, `Part`), the refusals of a read-only image and of a type
the device does not know. The driver is external: the order a Linux guest uses.

**VirtioNet.** `rxq` is `rx_queue_`, `batch` what the flush thread moved out of
it; rings are counted (`posted`, `txAvail`, `txDone`) because `VirtioBlock`
already lays one out. TX service holds `mtx_` from `Notify` to `TxRaise` and
calls the NAT inside (`TxReply`), which takes `rx_mtx_`: the lock order that
`KickEnds` is about.

**Input.** An event is its number; report r is `Parts` events in a row, the
last one EV_SYN. `Push` drops the oldest beyond `Cap`; `FlushTurn` feeds one.
`view` is what the guest has read, axis by axis.

**TcpNat.** A connection object is a number; `conns` maps a 4-tuple to one.
`helper[c]` is the thread that dials (`dial`, `answer`) or forwards (`add`,
`syn`, `check`, `erase`) it, `io[c]` the reader of its host socket, `job` the
unlocked tail of `handle_tcp` (the write, then the reply). `ids` distinguishes
the guest's successive connections with the same 4-tuple, so that a stale
answer is visible; bytes and sequence numbers count from each side's initial
number. `emitted` and `written` are what each side was sent.

**Console.** `rx` is where the RX thread is: polling, waiting for `mtx_`, or
ended; `RxFeed` is `feed_rx` as a whole, which asks for a buffer before it
reads stdin. `TxSegment` is one turn of the loop over a chain's descriptors and
calls the logger (`LogWrite`), so a log line or a UART character may come
between two of them; `partial` is `g_pending` and `terminal` what was written to
stdout and stderr, in order. `owner` follows `~Impl` and `~Console`: the run is
joined, `logger::shutdown`, `stop_rx_`, the join. The queues are counted, as in
`VirtioNet`.

**Gpu.** Pixels are numbers and each picture the guest draws has its own, so a
pixel out of place is visible. One `Serve` is one turn of `process_controlq`:
`handle_command`, the answer, the used element. Commands are the actions named
after them. `pending` is `pending_frames_`; `Raise` ends the drain, moves them to
a local of `write` (`frames`) and releases `mtx_`; `Show` is one call of the
callback. The driver tracks what it has asked for (`drv`) and so pipelines
legal commands without waiting. `Display` sees the unserved commands as `todo`,
reads the guest's picture through the scatter lists in the plain way (`View`,
pages in a row), and holds a flushed picture as owed until it is shown. What the
driver asks for is `Ask`, what it then has on record `After`. `PagesCover` is what
it must do in return: each scatter list covers its picture.

**Platform and Machine.** `Platform` holds what the headers, `exit_handler.cpp`,
`dtb.cpp` and `loader.cpp` fix: device windows in bytes, RAM in MiB. In
`Machine`, `at[m]` is the next call of the constructor or destructor of machine
m, in the order of `vm.cpp`; every call that can fail has its failing step
(`Fails`, `ResizeOrMmapFails`), which enters the destruction of what `VMContext`
holds by then, without `hv_vm_destroy`. `name` is what the shared-memory name
stands for, and an object is named after the machine that created it. `Release`
is the end of `~VMContext`: `hv_vm_unmap` acts on whatever VM the process has,
`shm_unlink` on whatever has the name. `Crash` is a process that dies anywhere.

`LossyFifo` serves both `VirtioNet` and `Input` because the two make the same
promise; `transit` is the batch followed by the queue in one, the deque in the
other.

## 3. Runs

The passing runs:

| run | instance | shows |
|---|---|---|
| `vm_boot` | 3 CPUs, 3 CPU_ON, 1 start, HVF failures, CPU_OFF, a guest that calls CPU_ON only for CPUs it holds off | `BootPairMatches`, `BootNeedsCpuOn`: a secondary boots whole and only when asked; `EndedMeansQuiet`: nothing outlives the run; `ImplementsService`; `StopEnds`: a stop that the loop sees ends the run once all are booted; `CpuOnReachesThread` |
| `blk_ring` | 2 vCPUs, ring of 2, indices mod 4, an image opened read-write, read-only or not at all, 4 requests (writes and a read of 2 sectors, flush, id, an unknown type), I/O errors, 1 reset | `ChainsConserved`: types, and a chain is in one place across the wraps; `ImplementsDisk`; `PublishedIsCollected`: with an image, no kick, no interrupt is lost |
| `net_rx` | 2 vCPUs, 2 buffers, 3 frames of which one fits no buffer, 2 TX frames, 1 reset, destructor | `ImplementsFifo`, `KickEnds` (no deadlock of `mtx_` and `rx_mtx_`), `DeliveredIsCollected`, `FlushIsJoined` |
| `input` | 3 events per report, cap 4, 2 buffers, 4 reports, 1 reset | `LatestReportWins`, `ImplementsFifo`, `PendingIsDelivered` |
| `nat` | 2 connection objects on one 4-tuple, which is also the only ephemeral port; 2 guest connections, 1 byte, 2 attempts | `EntriesAreServed`: types, and every table entry has somebody to remove it; `AcceptedIsWritten`: the host gets the bytes acknowledged, once and in order |
| `nat_live` | the same table, 1 guest connection, host data, 1 attempt | `SequenceTiled`: reader and handler number the stream with neither gap nor overlap; `InboundSettles`, `StoppedReaderEnds` |
| `console` | 2 vCPUs, 1 RX buffer, 2 bytes typed, 2 chains of 2 segments over lines of 2 characters, 1 UART character, 1 log line, 1 reset, destructor | `InputWhole`: stdin's bytes arrive once, in order, and none is lost for want of a buffer; `OutputWhole`: each source is printed in order and completely, and exit keeps nothing back; `NothingWaits`; `RxIsJoined` |
| `gpu` | 2 vCPUs, 2 resources on the same 4 cells of memory with different scatter lists, display of 2 by 2, a column and a rectangle that hangs over, 6 commands on a queue of 2, 1 redraw, 1 reset | `LegalNeverRefused`; `ImplementsDisplay`: commands one by one and in order, the picture the guest drew, each flush shown once as it was; `EverythingIsServed` |
| `machine` | 4 machines of 3 processes (one has two), images at the loader's limits and beyond, failures, crashes | `RamIsPrivate`, `BuiltStaysWhole`, `NothingDangles`, `GoneLeavesNothing`: section 1; `NodesAgree`: device tree, dispatch and interrupts agree for every set of devices built |

Each also checks its module's `TypeOK` (in the device modules this includes
the limits of the queues), by itself or as the first part of the invariant
named, except `nat_live`, whose module has another run.

Bounds, and why they suffice. Three CPUs give a boot CPU, a caller that is
itself a secondary, and a target. A ring of two with indices modulo four has
both wraps out of step, which is all that 128 and 2^16 have. Four requests
fill the ring twice. Three frames, one too large, make a batch form while
another is fed. A cap of four with reports of three makes the cap cut a report
in its middle, and four reports let it happen to one that is half delivered.
Two connection objects on one key are what it takes for a stale key to name
the wrong one. `EportMod = 1` makes the ephemeral port wrap onto the guest's
own 4-tuple at once. One RX buffer makes a byte wait for it; two characters to a
line and chains of one and two leave a line incomplete between two segments. Six
commands take a resource from its creation to a flush of it, another
command behind it, in a queue that holds two; resources that share memory and
scatter lists out of order make every wrong offset visible. Two machines in one
process meet over the VM, three processes over the name: one that holds it,
one that creates it and one that has died. Every bound is a CONSTANT tested in a
guard; none is a limit of the code, except `Size`, `Ring`, `IdxMod`, `Cap`,
`EportMod`, `MaxAttempts` and `Parts`, which are the code's constants made small. No passing run's
property depends on a bound being reached.

Deadlock is not checked: every system here may come to rest (the guest idle,
the machine destroyed, nobody connecting).

### Disagreements between code and documentation

Three runs end in a counterexample; each checks a sentence of the repository
that the code does not keep ("findings" in `PROJECT.json` quotes it).

- `vm_lost_stop`: `stop()` after `start()` has returned but before the run
  thread reaches `vm.cpp:235` is overwritten by `running_ = true`
  (`StopHonoured`).
- `vm_parked_cpu`: a secondary that was never started waits for `boot_pending`
  without looking at `running_`, so `run_all` never joins it (`ShutdownEnds`).
- `console_split_line`: a log line closes the guest line that is incomplete and
  prints it, so the rest becomes a line of its own (`GuestLinesWhole`), where
  `logger.cpp:67` says the flush is there "so stderr never splits a guest line".

Others were met while reading and have no run of their own: the repository says
nothing of them, or the line speaks for itself, or the part is abstracted.

- Lifecycle: a vCPU thread whose `hv_vcpu_run` fails, or whose exit is not
  handled, leaves its loop (`vcpu.cpp:77`) without clearing `running_`; when the
  last has left so, `run_all` goes on polling (`vm.cpp:238`), and only the
  application can end the run. `StopEnds` is about a run somebody stopped. The
  completion handler always gets an empty error (`vm.cpp:134`), though
  `samples/main.cpp:87-88` prints one;
  `boot_pending` may be left over from an earlier run; CPU_ON for a CPU that
  called CPU_OFF returns SUCCESS with no thread left to serve it (`psci.cpp:53`).
- Construction: a constructor that throws leaves the process's VM behind
  (`vm.cpp:62`); it starts the threads of console and network, where
  `virtualization.hpp:224` says it starts none; it does not call `validate()`;
  `serialPorts` is not read; an attachment's `readOnly` is not passed on
  (`vm.cpp:70`), though `README.md:181` lists read-only images. Below 171 MiB of
  RAM the loader accepts an initrd that runs past the end of RAM (with 160 MiB,
  one of 40 MiB at 128; `loader.cpp:95`), though `vm.cpp:44` accepts machines from
  128 MiB on; an accepted kernel above 124 MiB runs into the initrd
  (`loader.cpp:70`). Neither has a run: they are arithmetic on one configuration.
  With two application threads, one machine's `hv_vm_unmap` may hit the next
  one's VM.
- Block: a device whose image could not be opened (`block.cpp:80`) stays in the
  device tree, and the requests its driver publishes are never answered (`:107`);
  the plain loads of `avail->idx` and `avail->ring` may be satisfied out
  of order (`block.cpp:116`); a reset does not restore `features_` (`:271`).
- Network: a FIN that comes with data shuts the host socket before the data is
  written (`network.cpp:506`, `:522`); a refused `connect` is answered SYN|ACK
  (`:435`); a frame without a buffer is dropped (`net.cpp:114`), where
  `net.hpp:17-18` has the flush thread deliver the frames queued.
- Display: two vCPUs may show their frames in either order (`gpu.cpp:551`); an
  error answer carries no fence (`:214`).
- Console: a prompt without a line end is not shown until the line is complete
  or somebody logs (`logger.cpp:77`); while a byte waits for a buffer the RX
  thread polls without pause (`console.cpp:74`).
- Exits: the direction and register of a trapped system-register access are
  taken from the wrong bits (`exit_handler.cpp:60`); an MMIO load into the zero
  register writes the PC (`:110`).

## 4. Fairness

Safety runs use `Spec`; what they show holds of any scheduling. Liveness uses
`FairSpec`, which grants the following and nothing else.

- Threads keep running: weak fairness on each thread's own steps
  (`VirtualMachine`, the served steps of the devices, the NAT's threads). The
  scheduler runs every ready thread; `hv_vcpu_run` returns by the guest's
  timer, which matters because the code never calls `hv_vcpus_exit`; a join
  wakes when its thread has ended.
- A thread that waits for a mutex that is released again and again gets it:
  strong fairness on acquiring `mtx_` and `rx_mtx_` (in `Console` also by the RX
  thread). C++ does not promise this; the mutexes are held for bounded work, and
  the sections repeat only as fast as a guest makes MMIO accesses. What the fairness cannot hide is a deadlock:
  a lock held by a thread that waits for another is never free at all.
- A pending interrupt is taken by some vCPU (`TakeIrq`).
- The application's frame callback returns (`Show` in `Gpu`), and a destructor
  that has begun goes on (`Console`, `VirtioNet`).
- A write to a host socket ends (`Finish` in `TcpNat`). The code does not bound
  it: a host that stops reading blocks the vCPU with the device's mutex held.
  The hazard is listed with no property.

The application promises nothing (it need not start, stop, wait or destroy),
nor does the guest (it need not submit, kick, return buffers, reset or
answer), nor the network's other side.

## 5. Proofs

The theorems hold for every value of the constants; the runs show the same
formulas on an instance.

**`VirtualMachine_proofs`**, from `NCpuAssumption` (at least one CPU),
`BoundsAssumption` and `FlagsAssumption`.

- `TypeCorrect`: `TypeOK`, in three independent parts.
- `EndedIsQuiet` (`EndedMeansQuiet`): that nothing outlives the run is not
  inductive, since it says nothing of how far `run_all`'s loops have come.
  `QInv` adds `Paired` (which phases of the owner go with which phases of the
  run thread) and `SpawnedBy` (which vCPU threads may exist at each place of
  the spawn and join loops: none at or beyond `next` while spawning, none below
  `next` left while joining). Holds for any guest and any number of starts.
- `StopIsFinal` (`StopSticks`, which no run checks): only `RunEnter` sets
  `running_`.
- `Implementation` (`ImplementsService`): by `QInv`, each step is a step of
  `VmService` or changes neither `Phase` nor `Live`; the End step needs
  `SpawnedBy` at the end of the join loop, the Destroy step `Paired`.
- `BootIsWhole` and `BootIsAsked` (`BootPairMatches`, `BootNeedsCpuOn`): under
  `Disciplined` and `MaxStarts = 1`. The code needs both: nothing in
  `psci_dispatch` refuses a CPU_ON for a CPU that is on, so a guest that breaks
  PSCI's rule can tear the pair, and a flag left over from one start is read by
  the next. `BInv` follows the pair through the handshake: a CPU that runs has
  no call under way (`RunsUnasked`), a target has one caller, which has stored
  only its own request so far (`ServesAlone`), a set flag stands for one
  request (`Published`), and what a secondary has read is still what is
  published (`Reads`). `Fresh` says that before the spawn loop no thread
  exists and no flag is set.

**`VirtioNet_proofs`**, from `NetAssumption` (at least one buffer; the mutex
holders' names differ from the vCPUs).

- `FramesInOrder` (`ImplementsFifo`): needs that the flush thread has an empty
  batch whenever it waits (`EmptyHanded`), or a swap with the queue would lose
  or repeat what it had in hand.
- `NetTypeCorrect` (`TypeOK`): that `txDone` never passes `txAvail` and
  `posted` never falls below zero follows from who holds `mtx_`:
  `TxExclusive`, `FeedExclusive`, together `RingInv` with the types.

**`Machine_proofs`**, from `MachineAssumption` (each machine has a process) and
`ConfigAssumption` (the shape of a configuration): for any number of processes
and machines and any configurations, `MachineTypeCorrect`, `PrivateRam`,
`WholeUntilDestroyed`, `Dangling` and `GivenBack` (`TypeOK`, `RamIsPrivate`,
`BuiltStaysWhole`, `NothingDangles`, `GoneLeavesNothing`). None is inductive:
what a destructor may do depends on what its process has by then. `Inv` adds
`Own` (memory is mapped only by its creator, and where), `OneAtATime` (the
application's thread is in one constructor or destructor), `DieTogether`,
`VmKnown` (who may have created the VM a process has: a machine being built or
built, or one whose constructor threw), `GuestKnown` (what is mapped is that
machine's), `Parts` (where there are devices and threads), `NameKnown` (a
machine that is gone does not have the name) and `TerminalKnown` (the chain of
saved terminal modes, one deep because of `OneAtATime`). The application's
single thread is what the theorems rest on; see section 3 for two. `NodesReached`
(`NodesAgree`) is about the tables of `Platform`, for every set of devices.

**`VirtioBlock_proofs`**, from `RingAssumption` (the ring is shorter than the
modulus of the indices, which is a multiple of it, as 128 is of 2^16),
`BlockBounds` and `AsksAssumption` (a request stays within the disk), for an image
opened in any way or not at all and requests of every type.

- `BlockTypeCorrect` (`ChainsConserved`) says nothing of indices that have
  wrapped, so it is not inductive. `Ring` adds counts that never wrap: C
  requests collected, U shown as used, L served, A published, N filled since
  the queue was set up, and `h[k]`, the chain of the k-th. `Counts` relates them to
  the indices, which are the counts modulo `IdxMod`; `Chains` says that the
  chains of C..N-1 are distinct and, with the free ones, all there are, so
  N - C never exceeds the ring (`Room`); `Slots` that the rings hold them at the
  counts modulo `Size`; `Requests` that those not served are distinct and
  unanswered. The arithmetic it rests on: counts closer than the ring is long
  have slots of their own (`SlotsApart`) and counts no further apart than that
  have indices of their own (`IndicesApart`), and a slot may be taken of the index
  instead of the count, because `Size` divides `IdxMod` (`SlotOf`).
- `DiskImplemented` (`ImplementsDisk`): `Fill` prepares, `PublishRequest` submits,
  `Drain` serves the head of the queue with one of `BlockService`'s outcomes,
  `Reset` abandons, all else stutters. `Commit` stutters because `last_avail` moves
  past the request whose answer was stored.
- `AnsweredOnce` (which no run checks): since the chains not served hold
  unanswered requests, no step writes an answer a second time.

**`Input_proofs`**, from `InputAssumption` (the cap holds a report; the code's
is two queues long).

- `InputTypeCorrect` (`TypeOK`), in three parts.
- `LatestWins` (`LatestReportWins`): what is pending are the newest events
  (`Newest`); the cap never reaches into the last report, so each of its events is
  pending or delivered (`Kept`); what the guest has read of an axis is no older
  than what it collected of it (`Seen`).
- `EventsInOrder` (`ImplementsFifo`).

**`TcpNat_proofs`**, from `NatBounds`, for any number of connections, 4-tuples,
ephemeral ports, bytes and attempts. `Stage` says how far a connection, its
helper and its reader can have come together; `Unadded` that an inbound
connection is not established before it is in the table.

- `NoOrphans` (`EntriesAreServed`): `ServedAt` names, for the entry of each key, the
  thread or the guest's state that will remove it, also where a stale helper
  has the key of a newer connection.
- `HostGetsTheBytes` (`AcceptedIsWritten`): what was written is a prefix of the
  guest's bytes, all that were acknowledged but the one in the handler's hands
  (`WrittenAt`).
- `NumbersOnce` (`SequenceTiled`): each number below `h_nxt` is on exactly one segment
  that was sent or that a thread is about to send (`OneCarrier`); the handler's
  FIN and the reader's data take their numbers in one step each, so neither
  can be on two.

**`Console_proofs`**, for any queues, chains, lines, bytes and characters.

- `ConsoleTypeCorrect` and `InputArrives` (`TypeOK`, `InputWhole`) from `Typed`.
- `OutputArrives` (`OutputWhole`) from `Ordered`: what is shown followed by
  `g_pending` is, source by source, in order and complete (`Printed`); what waits
  in the queue is newer than what is shown of it and in order (`Waiting`);
  nothing pends once the logger is shut down (`Closed`). The logger's loop over the
  characters of a segment is a recursive function, so that it keeps `Printed` is
  an induction over data.

**`Gpu_proofs`**, from `GpuAssumption` (finite memory, pages for each resource)
and `PagesCover`.

- `GpuTypeCorrect` and `NeverRefused` (`TypeOK`, `LegalNeverRefused`): that a command is
  legal where it is issued says nothing of the state it meets when it is
  served. `Protocol` says there is a path of the driver's records through the
  commands under way: the device fits the first, each command is allowed by
  the record it meets and leads to the next, the last is the driver's present
  one. Serving a command drops the first record, issuing one adds a last.
- `DisplayImplemented` (`ImplementsDisplay`): a transfer that walks the scatter list
  for each row copies what the plain reading of the pages has there
  (`TransferShows`): both are recursive functions over the list, compared entry by
  entry (`Laid`). A flush owes the picture as it is when served; `Show` pays it.

The library's induction theorems take an operator, which the provers cannot
instantiate. Where an induction over data is needed (`Console_proofs`,
`Gpu_proofs`), it is derived from the well-foundedness of strict inclusion on
finite sets, which takes a relation: a set of naturals has a least element
(`LeastNatural`), so a set with 0 and with the successor of each of its members
below n has all up to n (`UpTo`).

Every safety property the passing runs check is thereby a theorem. Only
model-checked: all liveness, which needs fairness and ENABLED, beyond this
prover. The lifecycle with two starts and a guest that makes CPU_ON calls as it
likes has no run of its own; its safety is covered by the theorems.

## 6. What is abstracted

- Descriptor chains are the request they hold; segments are sectors of it.
  How a chain is walked is not modelled. Rings are laid out in `VirtioBlock`
  and counted in `VirtioNet` and `Input`.
- Feature negotiation and queue set-up are one step (`Probe`): the driver
  leaves the queue ready or not.
- TCP: no windows, no checksums, no options; at most one byte per guest
  segment. A write to a closed socket fails; the SIGPIPE it raises is not
  modelled.
- Atomics are sequentially consistent, and the device's plain loads of a ring
  are taken in program order.
- Output is characters that end a line or not; formatting, carriage returns and
  what `raw_emit` does to line ends are left out. Stdin is a terminal.
- The display: all resources have its size, formats are not looked at, commands
  are well-formed and legal. The cursor queue is never served by the device.
- Construction: one application thread per process; devices are created in one
  order of kinds (the configuration may list keyboard and tablet either way);
  sizes are in MiB; the NAT's detached threads are not in `Machine`; a thread of
  a device counts, what it does is the device module's subject.
- Guest addresses are valid: `gpa_to_hva`'s failures are not taken.
- The block device: chains are well-formed, so the driver's malformed ones are
  not answered with an error; `fstat` succeeds on an open image; the text of
  the device's id is left out. That nothing is
  served without an image is in the model, and is why `PublishedIsCollected`
  speaks of a device that has one.
- HVF and the host's calls fail nondeterministically where the code looks at
  the result, the opening of the image (`VirtioBlock`) included; the exceptions
  are the ones named in this list.

## 7. What is not modelled, and the plan

In the order planned:

1. `VirtioMmio`: feature negotiation over resets, queue selection, sizes and
   addresses, common to the devices.
2. `BlockRequest`: the walk of a descriptor chain, the bounds of a request
   against the capacity, partial reads and writes, against a reference.
3. A composition of `TcpNat` with the RX path of `VirtioNet`: what a dropped
   SYN|ACK or data segment does to a connection.
4. The keyboard of `Input`, whose reports do not repeat the state of other keys.
5. `ExitHandler`: decode and register write-back, against the architecture.

Proofs planned: more of the action properties a guest relies on, in the way of
`AnsweredOnce`; that `LossyFifo` and `Display` have the consequences they are meant
to have, from the abstract specifications alone; whatever the modules above add.

Left out for good: UDP, DNS, DHCP, ARP and ICMP of the NAT (request and reply
in one call, no state between frames), the lifetime of the NAT's detached
threads after `~Stack` (`network.cpp:381`: undefined behaviour with no state a
property could look at), the bytes of images and device tree, the samples and
the build files. The GIC and the vCPU itself are HVF's.
