----------------------------- MODULE VirtioBlock -----------------------------
(***************************************************************************)
(* The virtio-blk device (virtio/block.cpp) with the guest driver that     *)
(* shares its queue: the rings in guest memory, the device's Queue and     *)
(* irq_status_ behind mtx_, the interrupt line, and the disk image.        *)
(*                                                                         *)
(* Every MMIO access runs on the vCPU thread that made it, so the device   *)
(* is served by whichever vCPU kicks it, while the other vCPUs go on       *)
(* publishing requests in the available ring.  The driver is external: it  *)
(* is what the code expects of a virtio 1.0 driver, in the order a Linux   *)
(* guest does it (fill, publish, kick; read status, acknowledge, scan).    *)
(*                                                                         *)
(* A descriptor chain is abstracted to its head and the request it holds;  *)
(* how the device walks the chain is left out.                             *)
(***************************************************************************)
EXTENDS Integers, Sequences, FiniteSets

CONSTANTS
  Vcpu,          \* the guest's vCPUs
  Size,          \* kQueueSize: entries of each ring, and descriptor heads
  IdxMod,        \* 2^16: avail->idx, used->idx and last_avail wrap here
  NReq,          \* bound on the requests the guest makes
  NSector,       \* sectors of the image
  Asks,          \* what the guest's k-th request may ask
  MaxResets,     \* bound on the driver's device resets
  IoFails        \* may pread, pwrite, fsync fail on a good request?

ASSUME RingAssumption ==
  /\ Size \in Nat \ {0}
  /\ IdxMod \in Nat /\ IdxMod > Size /\ IdxMod % Size = 0
ASSUME BlockBounds ==
  /\ NReq \in Nat /\ NSector \in Nat \ {0} /\ MaxResets \in Nat
  /\ "nobody" \notin Vcpu
\* The types of requests; "other" is one the device does not know.
Ops == {"in", "out", "flush", "id", "other"}

ASSUME AsksAssumption ==
  /\ DOMAIN Asks = 1 .. NReq
  /\ \A k \in 1 .. NReq : \A a \in Asks[k] :
       /\ a \in [op : Ops, first : Nat, segs : Nat \ {0}]
       /\ a.first + a.segs <= NSector
ASSUME BlockFlags == IoFails \in BOOLEAN

Idx    == 0 .. IdxMod - 1
Entry  == 0 .. Size - 1      \* the slots of a ring, and the chains by their head
Req    == 1 .. NReq          \* the k-th request; 0 is none
Sector == 0 .. NSector - 1

\* What a request asks: its type, and the sectors of its segments if it
\* transfers data.
Ask == [op : Ops, first : Sector, segs : 1 .. NSector]
NoAsk == [op |-> "in", first |-> 0, segs |-> 1]

\* What the device answers: the status byte, and the data for "in": for each
\* sector the request whose write it holds (0 is the image as it was).
Answer == [status : {"none", "ok", "ioerr", "unsupp"},
           data : [Sector -> {0} \cup Req]]
Blank == [s \in Sector |-> 0]
NoAnswer == [status |-> "none", data |-> Blank]

VARIABLES
  (* guest memory *)
  avail, availIdx, used, usedIdx, desc,
  (* device *)
  mtx, ready, lastAvail, irqStatus, disk,
  image,         \* how the constructor could open the image
  (* interrupt controller: the SPI is pending *)
  spi,
  (* driver *)
  pc, free, lastUsed, asked, made, resets, collected,
  (* what the request's buffers and status byte hold *)
  answer

rings  == <<avail, availIdx, used, usedIdx, desc>>
device == <<mtx, ready, lastAvail, irqStatus, disk, image>>
driver == <<free, lastUsed, asked, made, resets, collected>>
vars == <<rings, device, spi, pc, driver, answer>>

Nobody == "nobody"

Submitting == {"fill", "publish", "kick"}
Serving    == {"drain", "commit", "raise"}
Handling   == {"irq_read", "irq_ack", "irq_scan"}
PcStates   == {"idle"} \cup Submitting \cup Serving \cup Handling

\* The constructor opens the image O_RDWR if it can, O_RDONLY otherwise; if
\* neither succeeds it returns, and the device is there with no image and a
\* capacity of zero.  The attachment's readOnly is not passed to it.
Images == {"rw", "ro", "none"}
ReadOnly == image = "ro"
HasImage == image # "none"

Inc(i) == (i + 1) % IdxMod
Slot(i) == i % Size

Init ==
  /\ avail = [s \in Entry |-> 0] /\ availIdx = 0
  /\ used = [s \in Entry |-> 0] /\ usedIdx = 0
  /\ desc = [h \in Entry |-> 0]
  /\ mtx = Nobody /\ ready = FALSE /\ lastAvail = 0 /\ irqStatus = 0
  /\ disk = Blank /\ image \in Images
  /\ spi = FALSE
  /\ pc = [v \in Vcpu |-> "idle"]
  /\ free = Entry /\ lastUsed = 0
  /\ asked = [r \in Req |-> NoAsk]
  /\ made = 0 /\ resets = 0 /\ collected = {}
  /\ answer = [r \in Req |-> NoAnswer]

Goto(v, from, to) == pc[v] = from /\ pc' = [pc EXCEPT ![v] = to]

-----------------------------------------------------------------------------
(* The driver's submissions.  The driver's queue lock covers fill and      *)
(* publish; the kick is made after it is released.                         *)

QueueLocked == \E v \in Vcpu : pc[v] \in {"fill", "publish", "irq_scan"}

\* Probe: rings zeroed, queue registers written, QueueReady = 1.
Probe(v) ==
  /\ ~ready
  /\ mtx = Nobody
  /\ pc[v] = "idle"
  /\ ready' = TRUE
  /\ avail' = [s \in Entry |-> 0] /\ availIdx' = 0
  /\ used' = [s \in Entry |-> 0] /\ usedIdx' = 0
  /\ desc' = [h \in Entry |-> 0]
  /\ free' = Entry /\ lastUsed' = 0
  /\ UNCHANGED <<mtx, lastAvail, irqStatus, disk, image, spi, pc, asked, made,
                 resets, collected, answer>>

\* A request is written into a free chain.  The driver transfers nothing
\* beyond the capacity it has read.
Fill(v) ==
  /\ ready
  /\ ~QueueLocked
  /\ made < NReq
  /\ Goto(v, "idle", "fill")
  /\ \E h \in free, a \in Asks[made + 1] :
       /\ a.op \in {"in", "out"} => HasImage
       /\ desc' = [desc EXCEPT ![h] = made + 1]
       /\ free' = free \ {h}
       /\ asked' = [asked EXCEPT ![made + 1] = a]
       /\ avail' = [avail EXCEPT ![Slot(availIdx)] = h]
  /\ made' = made + 1
  /\ UNCHANGED <<availIdx, used, usedIdx, device, spi, lastUsed, resets,
                 collected, answer>>

\* avail->idx makes it visible to the device.
PublishRequest(v) ==
  /\ Goto(v, "fill", "kick")
  /\ availIdx' = Inc(availIdx)
  /\ UNCHANGED <<avail, used, usedIdx, desc, device, spi, driver, answer>>

-----------------------------------------------------------------------------
(* The device, on the vCPU that wrote QueueNotify. *)

Serves == ready /\ HasImage

\* Mutation: a kick that finds the device busy is dropped.
NotifyTryLock(v) ==
  /\ Goto(v, "kick", IF Serves /\ mtx = Nobody THEN "drain" ELSE "idle")
  /\ mtx' = IF Serves /\ mtx = Nobody THEN v ELSE mtx
  /\ UNCHANGED <<rings, ready, lastAvail, irqStatus, disk, image, spi, driver,
                 answer>>

\* Block::write takes mtx_ and process_rq starts.  The exit and the lock
\* order everything published before.  Without an image, or before the queue
\* is ready, it returns at once: nothing is served and no interrupt raised.
Notify(v) ==
  /\ mtx = Nobody
  /\ Goto(v, "kick", IF Serves THEN "drain" ELSE "idle")
  /\ mtx' = IF Serves THEN v ELSE Nobody
  /\ UNCHANGED <<rings, ready, lastAvail, irqStatus, disk, image, spi, driver,
                 answer>>

Covered(a) == a.first .. a.first + a.segs - 1

\* The disk once the first k segments of r are written.
Part(a, r, k) ==
  [s \in Sector |-> IF s \in a.first .. a.first + k - 1 THEN r ELSE disk[s]]

\* A request that succeeds, and one the device does not know.
Successes(a, r) ==
  CASE a.op = "in" ->
         {[status |-> "ok", disk |-> disk,
           data |-> [s \in Sector |-> IF s \in Covered(a) THEN disk[s] ELSE 0]]}
    [] a.op = "out" ->
         IF ReadOnly THEN {}
         ELSE {[status |-> "ok", data |-> Blank, disk |-> Part(a, r, a.segs)]}
    [] a.op \in {"flush", "id"} ->
         {[status |-> "ok", data |-> Blank, disk |-> disk]}
    [] a.op = "other" ->
         {[status |-> "unsupp", data |-> Blank, disk |-> disk]}

\* What a failed request leaves on the disk: pread and fsync change nothing,
\* a pwrite fails after some of the segments, on a read-only image at once.
Failures(a, r) ==
  IF a.op = "out" /\ ReadOnly THEN {disk}
  ELSE IF ~IoFails \/ a.op \in {"id", "other"} THEN {}
  ELSE IF a.op = "out" THEN {Part(a, r, k) : k \in 0 .. a.segs - 1}
  ELSE {disk}

\* Mutation: a failed call is reported as a success.
OutcomesIgnoringErrors(a, r) ==
  Successes(a, r)
    \cup {[status |-> "ok", data |-> Blank, disk |-> d] : d \in Failures(a, r)}

Outcomes(a, r) ==
  Successes(a, r)
    \cup {[status |-> "ioerr", data |-> Blank, disk |-> d] : d \in Failures(a, r)}

\* One turn of process_rq's loop up to the used entry: the chain at head is
\* read, the request served, its status byte and used element written.
Drain(v) ==
  /\ lastAvail # availIdx
  /\ Goto(v, "drain", "commit")
  /\ LET h == avail[Slot(lastAvail)]
         r == desc[h]
     IN /\ used' = [used EXCEPT ![Slot(usedIdx)] = h]
        /\ \E o \in Outcomes(asked[r], r) :
             /\ disk' = o.disk
             /\ answer' = [answer EXCEPT
                  ![r] = [status |-> o.status, data |-> o.data]]
  /\ UNCHANGED <<avail, availIdx, usedIdx, desc, mtx, ready, lastAvail,
                 irqStatus, image, spi, driver>>

CommitTwice(v) ==
  /\ Goto(v, "commit", "drain")
  /\ usedIdx' = Inc(usedIdx)
  /\ lastAvail' \in {lastAvail, Inc(lastAvail)}
  /\ UNCHANGED <<avail, availIdx, used, desc, mtx, ready, irqStatus, disk,
                 image, spi, driver, answer>>

\* used->idx is stored with release, and last_avail moves on.
Commit(v) ==
  /\ Goto(v, "commit", "drain")
  /\ usedIdx' = Inc(usedIdx)
  /\ lastAvail' = Inc(lastAvail)
  /\ UNCHANGED <<avail, availIdx, used, desc, mtx, ready, irqStatus, disk,
                 image, spi, driver, answer>>

\* The loop sees nothing more to do.
Drained(v) ==
  /\ lastAvail = availIdx
  /\ Goto(v, "drain", "raise")
  /\ UNCHANGED <<rings, device, spi, driver, answer>>

\* irq_status_ |= 1, a pulse on the SPI, and write() releases mtx_.
Raise(v) ==
  /\ Goto(v, "raise", "idle")
  /\ irqStatus' = 1
  /\ spi' = TRUE
  /\ mtx' = Nobody
  /\ UNCHANGED <<rings, ready, lastAvail, disk, image, driver, answer>>

-----------------------------------------------------------------------------
(* The driver's interrupt handler; one vCPU at a time has the SPI active.  *)

TakeIrq(v) ==
  /\ spi
  /\ \A w \in Vcpu : pc[w] \notin Handling
  /\ Goto(v, "idle", "irq_read")
  /\ spi' = FALSE
  /\ UNCHANGED <<rings, device, driver, answer>>

\* IrqStatus: zero means the interrupt is not ours.
ReadIrqStatus(v) ==
  /\ mtx = Nobody
  /\ Goto(v, "irq_read", IF irqStatus = 0 THEN "idle" ELSE "irq_ack")
  /\ UNCHANGED <<rings, device, spi, driver, answer>>

\* IrqAck: irq_status_ &= ~val.
AckIrq(v) ==
  /\ mtx = Nobody
  /\ ~QueueLocked
  /\ Goto(v, "irq_ack", "irq_scan")
  /\ irqStatus' = 0
  /\ UNCHANGED <<rings, mtx, ready, lastAvail, disk, image, spi, driver,
                 answer>>

\* One used element is collected: its chain is free again.
Collect(v) ==
  /\ pc[v] = "irq_scan"
  /\ lastUsed # usedIdx
  /\ LET h == used[Slot(lastUsed)] IN
       /\ free' = free \cup {h}
       /\ collected' = collected \cup {desc[h]}
  /\ lastUsed' = Inc(lastUsed)
  /\ UNCHANGED <<rings, device, spi, pc, asked, made, resets, answer>>

ScanDone(v) ==
  /\ lastUsed = usedIdx
  /\ Goto(v, "irq_scan", "idle")
  /\ UNCHANGED <<rings, device, spi, driver, answer>>

\* Status = 0: the queue and irq_status_ go back to their initial values.
\* The driver resets a device it has stopped using.
Reset(v) ==
  /\ ready
  /\ resets < MaxResets
  /\ mtx = Nobody
  /\ \A w \in Vcpu : pc[w] = "idle"
  /\ ready' = FALSE
  /\ lastAvail' = 0
  /\ irqStatus' = 0
  /\ resets' = resets + 1
  /\ UNCHANGED <<rings, mtx, disk, image, spi, pc, free, lastUsed, asked, made,
                 collected, answer>>

-----------------------------------------------------------------------------
Step(v) ==
  \/ Probe(v) \/ PublishRequest(v) \/ Notify(v)
  \/ Drain(v) \/ Commit(v) \/ Drained(v) \/ Raise(v)
  \/ TakeIrq(v) \/ ReadIrqStatus(v) \/ AckIrq(v) \/ Collect(v) \/ ScanDone(v)

Next == \E v \in Vcpu : Step(v) \/ Fill(v) \/ Reset(v)

Spec == Init /\ [][Next]_vars

(* Each vCPU keeps running, its MMIO accesses end up taking mtx_ (strong   *)
(* fairness: others may hold it in between), and a pending interrupt is    *)
(* taken.  The driver need not submit or reset.                            *)
FairSpec ==
  /\ Spec
  /\ WF_vars(\E v \in Vcpu : TakeIrq(v))
  /\ \A v \in Vcpu :
       /\ SF_vars(Notify(v) \/ ReadIrqStatus(v) \/ AckIrq(v))
       /\ WF_vars(PublishRequest(v) \/ Drain(v) \/ Commit(v) \/ Drained(v)
                  \/ Raise(v) \/ Collect(v) \/ ScanDone(v))

-----------------------------------------------------------------------------
(* Every variable has its type.                                            *)
TypeOK ==
  /\ avail \in [Entry -> Entry] /\ availIdx \in Idx
  /\ used \in [Entry -> Entry] /\ usedIdx \in Idx
  /\ desc \in [Entry -> {0} \cup Req]
  /\ mtx \in Vcpu \cup {Nobody} /\ ready \in BOOLEAN
  /\ lastAvail \in Idx /\ irqStatus \in {0, 1}
  /\ disk \in [Sector -> {0} \cup Req] /\ image \in Images
  /\ spi \in BOOLEAN
  /\ pc \in [Vcpu -> PcStates]
  /\ free \subseteq Entry /\ lastUsed \in Idx
  /\ asked \in [Req -> Ask]
  /\ made \in {0} \cup Req /\ resets \in 0 .. MaxResets
  /\ collected \subseteq Req
  /\ answer \in [Req -> Answer]

Dist(from, to) == (to - from) % IdxMod
\* The entries of a ring from index `from` up to index `to`.
Window(ring, from, to) ==
  [k \in 1 .. Dist(from, to) |-> ring[Slot(from + k - 1)]]

\* The chains the device has still to serve: one less while it is between
\* the used element and last_avail.
Busy == \E v \in Vcpu : pc[v] = "commit"
Unserved ==
  LET w == Window(avail, lastAvail, availIdx)
  IN IF ~ready THEN <<>> ELSE IF Busy THEN Tail(w) ELSE w
Uncollected == Window(used, lastUsed, IF Busy THEN Inc(usedIdx) ELSE usedIdx)
Filling == {avail[Slot(availIdx)] : v \in {w \in Vcpu : pc[w] = "fill"}}

RangeOf(f) == {f[x] : x \in DOMAIN f}

(* Types; and a descriptor chain is in one place at a time: free, filled,  *)
(* waiting in the available ring, or waiting in the used ring; so neither  *)
(* side reuses a chain the other still owns, and no ring slot is           *)
(* overwritten before it is read, across the wrap of the 16-bit indices.   *)
ChainsConserved ==
  /\ TypeOK
  /\ ready =>
       /\ Len(Unserved) + Len(Uncollected) + Cardinality(Filling)
            + Cardinality(free) = Size
       /\ RangeOf(Unserved) \cup RangeOf(Uncollected) \cup Filling \cup free
            = Entry

(* A device that could open its image: every request the driver published *)
(* is collected, unless the driver resets the device; no kick and no       *)
(* interrupt is lost however they interleave.                              *)
PublishedIsCollected ==
  \A r \in Req : (HasImage /\ r \in {desc[h] : h \in RangeOf(Unserved)})
                   ~> (r \in collected \/ ~ready)

\* The requests the device has still to serve.
Queue == [k \in 1 .. Len(Unserved) |-> desc[Unserved[k]]]

\* The device serves the published requests one by one, in order.
Disk == INSTANCE BlockService WITH queue <- Queue
ImplementsDisk == Disk!Spec
=============================================================================
