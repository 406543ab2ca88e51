------------------------------ MODULE VirtioNet ------------------------------
(***************************************************************************)
(* The virtio-net device (virtio/net.cpp): frames of the NAT are queued    *)
(* behind rx_mtx_ by whatever thread sends them, a flush thread takes them *)
(* in batches and feeds the guest's RX queue behind mtx_, and a vCPU that  *)
(* kicks the TX queue runs the NAT itself with mtx_ held, so that its      *)
(* replies take rx_mtx_ inside mtx_.                                       *)
(*                                                                         *)
(* Rings are counted, not laid out: VirtioBlock models their slots and     *)
(* their wrap.  A frame is its number in the order of enqueue_rx.  The     *)
(* driver and the interrupt controller are external.                       *)
(***************************************************************************)
EXTENDS Integers, Sequences

CONSTANTS
  Vcpu,       \* the guest's vCPUs
  Size,       \* RX buffers the driver has
  MaxFrames,  \* bound on the frames the NAT sends
  Large,      \* those that no RX buffer holds
  MaxTx,      \* bound on the frames the guest sends between two resets
  MaxResets   \* bound on the driver's device resets

ASSUME NetAssumption ==
  /\ Size \in Nat \ {0} /\ {MaxFrames, MaxTx, MaxResets} \subseteq Nat
  /\ "nobody" \notin Vcpu /\ "flush" \notin Vcpu

VARIABLES
  (* device *)
  rxMtx, rxq, stop,            \* rx_mtx_, rx_queue_, rx_stop_
  mtx, ready, irqStatus,       \* mtx_, the queues' ready, irq_status_
  flush, batch,                \* the flush thread: where it is, what it took
  closing,                     \* ~Net has reset stack_
  (* interrupt controller *)
  spi,
  (* driver *)
  pc,
  posted, collected,           \* RX buffers offered; deliveries looked at
  txAvail, txDone,             \* TX frames published; used
  resets,
  (* frames numbered so far, and those put into the used ring *)
  sent, delivered

rx     == <<rxMtx, rxq, stop>>
dev    == <<mtx, ready, irqStatus>>
driver == <<posted, collected, txAvail, txDone, resets>>
frames == <<sent, delivered>>
vars == <<rx, dev, flush, batch, closing, spi, pc, driver, frames>>

Frame  == 1 .. MaxFrames
Nobody == "nobody"
Sending  == {"kick", "tx", "reply", "used"}
Handling == {"irq_read", "irq_ack", "irq_scan"}
FlushPcs == {"wait", "taken", "lock", "feed", "raise", "ended"}

Init ==
  /\ rxMtx = Nobody /\ rxq = <<>> /\ stop = FALSE
  /\ mtx = Nobody /\ ready = FALSE /\ irqStatus = 0
  /\ flush = "wait" /\ batch = <<>> /\ closing = FALSE
  /\ spi = FALSE
  /\ pc = [v \in Vcpu |-> "idle"]
  /\ posted = 0 /\ collected = 0 /\ txAvail = 0 /\ txDone = 0 /\ resets = 0
  /\ sent = 0 /\ delivered = <<>>

Goto(v, from, to) ==
  /\ ~closing
  /\ pc[v] = from
  /\ pc' = [pc EXCEPT ![v] = to]

-----------------------------------------------------------------------------
(* The NAT sends a frame: enqueue_rx, on the caller's thread. *)

EnqueueRx ==
  /\ rxMtx = Nobody
  /\ sent < MaxFrames
  /\ sent' = sent + 1
  /\ rxq' = Append(rxq, sent + 1)
  /\ UNCHANGED <<rxMtx, stop, delivered>>

\* A helper thread of the NAT.
HelperSends ==
  /\ ~closing
  /\ EnqueueRx
  /\ UNCHANGED <<dev, flush, batch, closing, spi, pc, driver>>

-----------------------------------------------------------------------------
(* The flush thread. *)

FlushGoes(from, to) == flush = from /\ flush' = to

\* Mutation: the batch is copied, and the queue keeps its frames.
FlushTakeCopy ==
  /\ FlushGoes("wait", "taken")
  /\ rxMtx = Nobody /\ rxq # <<>>
  /\ rxMtx' = "flush"
  /\ batch' = rxq
  /\ UNCHANGED <<rxq, stop, dev, closing, spi, pc, driver, frames>>

\* The wait ends with frames: all of them are taken.
FlushTake ==
  /\ FlushGoes("wait", "taken")
  /\ rxMtx = Nobody /\ rxq # <<>>
  /\ rxMtx' = "flush"
  /\ batch' = rxq /\ rxq' = <<>>
  /\ UNCHANGED <<stop, dev, closing, spi, pc, driver, frames>>

\* Mutation: the wait's predicate has no rx_stop_.
FlushEndUnnoticed ==
  /\ FlushGoes("wait", "ended")
  /\ rxMtx = Nobody /\ rxq # <<>> /\ stop
  /\ UNCHANGED <<rx, dev, batch, closing, spi, pc, driver, frames>>

FlushEnd ==
  /\ FlushGoes("wait", "ended")
  /\ rxMtx = Nobody /\ rxq = <<>> /\ stop
  /\ UNCHANGED <<rx, dev, batch, closing, spi, pc, driver, frames>>

\* Mutation: rx_mtx_ is held while the batch is fed.
FlushUnlockLate ==
  /\ FlushGoes("taken", "lock")
  /\ UNCHANGED <<rx, dev, batch, closing, spi, pc, driver, frames>>

FlushUnlock ==
  /\ FlushGoes("taken", "lock")
  /\ rxMtx' = Nobody
  /\ UNCHANGED <<rxq, stop, dev, batch, closing, spi, pc, driver, frames>>

FlushLock ==
  /\ FlushGoes("lock", "feed")
  /\ mtx = Nobody
  /\ mtx' = "flush"
  /\ UNCHANGED <<rx, ready, irqStatus, batch, closing, spi, pc, driver, frames>>

\* Mutation: the RX queue is not checked for a buffer.
FeedsUnchecked(f) == ready /\ f \notin Large

\* do_feed_rx returns early without a queue, a buffer, or room in it.
Feeds(f) == ready /\ posted > 0 /\ f \notin Large

FlushFeed ==
  /\ batch # <<>>
  /\ batch' = Tail(batch)
  /\ LET f == Head(batch) IN
       IF Feeds(f)
         THEN /\ FlushGoes("feed", "raise")
              /\ delivered' = Append(delivered, f)
              /\ posted' = posted - 1
         ELSE /\ FlushGoes("feed", "feed")
              /\ UNCHANGED <<delivered, posted>>
  /\ UNCHANGED <<rx, dev, closing, spi, pc, collected, txAvail, txDone,
                 resets, sent>>

\* Mutation: a delivery raises no interrupt.
FlushRaiseNever ==
  /\ FlushGoes("raise", "feed")
  /\ UNCHANGED <<rx, dev, batch, closing, spi, pc, driver, frames>>

FlushRaise ==
  /\ FlushGoes("raise", "feed")
  /\ irqStatus' = 1 /\ spi' = TRUE
  /\ UNCHANGED <<rx, mtx, ready, batch, closing, pc, driver, frames>>

FlushDone ==
  /\ FlushGoes("feed", "wait")
  /\ batch = <<>>
  /\ mtx' = Nobody
  /\ UNCHANGED <<rx, ready, irqStatus, batch, closing, spi, pc, driver, frames>>

-----------------------------------------------------------------------------
(* The driver sends: QueueNotify of queue 1 runs process_tx with mtx_ held. *)

TxPublish(v) ==
  /\ Goto(v, "idle", "kick")
  /\ ready /\ txAvail < MaxTx
  /\ txAvail' = txAvail + 1
  /\ UNCHANGED <<rx, dev, flush, batch, closing, spi, posted, collected,
                 txDone, resets, frames>>

Notify(v) ==
  /\ mtx = Nobody
  /\ Goto(v, "kick", IF ready THEN "tx" ELSE "idle")
  /\ mtx' = IF ready THEN v ELSE Nobody
  /\ UNCHANGED <<rx, ready, irqStatus, flush, batch, closing, spi, driver,
                 frames>>

\* The frame is handed to the NAT, which may reply.
TxFrame(v) ==
  /\ txDone # txAvail
  /\ \E next \in {"reply", "used"} : Goto(v, "tx", next)
  /\ UNCHANGED <<rx, dev, flush, batch, closing, spi, driver, frames>>

TxReply(v) ==
  /\ Goto(v, "reply", "used")
  /\ IF sent < MaxFrames
       THEN EnqueueRx
       ELSE rxMtx = Nobody /\ UNCHANGED <<rx, frames>>
  /\ UNCHANGED <<dev, flush, batch, closing, spi, driver>>

TxUsed(v) ==
  /\ Goto(v, "used", "tx")
  /\ txDone' = txDone + 1
  /\ UNCHANGED <<rx, dev, flush, batch, closing, spi, posted, collected,
                 txAvail, resets, frames>>

TxRaise(v) ==
  /\ Goto(v, "tx", "idle")
  /\ txDone = txAvail
  /\ irqStatus' = 1 /\ spi' = TRUE
  /\ mtx' = Nobody
  /\ UNCHANGED <<rx, ready, flush, batch, closing, driver, frames>>

-----------------------------------------------------------------------------
(* The driver receives: it offers buffers, and its interrupt handler looks *)
(* at the used ring after it has acknowledged.                             *)

Uncollected == Len(delivered) - collected

Post(v) ==
  /\ Goto(v, "idle", "idle")
  /\ ready /\ posted + Uncollected < Size
  /\ posted' = posted + 1
  /\ UNCHANGED <<rx, dev, flush, batch, closing, spi, collected, txAvail,
                 txDone, resets, frames>>

TakeIrq(v) ==
  /\ spi
  /\ \A w \in Vcpu : pc[w] \notin Handling
  /\ Goto(v, "idle", "irq_read")
  /\ spi' = FALSE
  /\ UNCHANGED <<rx, dev, flush, batch, closing, driver, frames>>

ReadIrqStatus(v) ==
  /\ mtx = Nobody
  /\ Goto(v, "irq_read", IF irqStatus = 0 THEN "idle" ELSE "irq_ack")
  /\ UNCHANGED <<rx, dev, flush, batch, closing, spi, driver, frames>>

AckIrq(v) ==
  /\ mtx = Nobody
  /\ Goto(v, "irq_ack", "irq_scan")
  /\ irqStatus' = 0
  /\ UNCHANGED <<rx, mtx, ready, flush, batch, closing, spi, driver, frames>>

Collect(v) ==
  /\ Goto(v, "irq_scan", "idle")
  /\ collected' = Len(delivered)
  /\ UNCHANGED <<rx, dev, flush, batch, closing, spi, posted, txAvail, txDone,
                 resets, frames>>

\* Probe: the queue registers are written, QueueReady = 1.
Probe(v) ==
  /\ Goto(v, "idle", "idle")
  /\ mtx = Nobody /\ ~ready
  /\ ready' = TRUE
  /\ UNCHANGED <<rx, mtx, irqStatus, flush, batch, closing, spi, driver, frames>>

\* Status = 0: both queues and irq_status_; the frames in rx_queue_ stay.
Reset(v) ==
  /\ Goto(v, "idle", "idle")
  /\ \A w \in Vcpu : pc[w] = "idle"
  /\ mtx = Nobody /\ ready
  /\ resets < MaxResets
  /\ resets' = resets + 1
  /\ ready' = FALSE /\ irqStatus' = 0
  /\ posted' = 0 /\ collected' = Len(delivered)
  /\ txAvail' = 0 /\ txDone' = 0
  /\ UNCHANGED <<rx, mtx, flush, batch, closing, spi, frames>>

-----------------------------------------------------------------------------
\* ~Net, with the vCPU threads gone: stack_.reset() ...
ResetStack ==
  /\ ~closing
  /\ \A v \in Vcpu : pc[v] = "idle"
  /\ closing' = TRUE
  /\ UNCHANGED <<rx, dev, flush, batch, spi, pc, driver, frames>>

\* ... then rx_stop_, and a join of the flush thread.
StopFlush ==
  /\ closing /\ ~stop
  /\ rxMtx = Nobody
  /\ stop' = TRUE
  /\ UNCHANGED <<rxMtx, rxq, dev, flush, batch, closing, spi, pc, driver, frames>>

-----------------------------------------------------------------------------
Flush ==
  FlushTake \/ FlushEnd \/ FlushUnlock \/ FlushFeed \/ FlushRaise \/ FlushDone

Waits(v) == Notify(v) \/ TxReply(v) \/ ReadIrqStatus(v) \/ AckIrq(v)
Runs(v)  == TxFrame(v) \/ TxUsed(v) \/ TxRaise(v) \/ Collect(v)

Next ==
  \/ HelperSends \/ Flush \/ FlushLock \/ ResetStack \/ StopFlush
  \/ \E v \in Vcpu :
       Waits(v) \/ Runs(v) \/ TakeIrq(v) \/ TxPublish(v) \/ Post(v)
       \/ Probe(v) \/ Reset(v)

Spec == Init /\ [][Next]_vars

(* Threads keep running and a thread that waits for a mutex others release *)
(* again and again gets it in the end; a pending interrupt is taken.  The  *)
(* guest need not send, offer buffers or reset, nor the VM be destroyed.   *)
FairSpec ==
  /\ Spec
  /\ WF_vars(Flush) /\ SF_vars(FlushLock) /\ WF_vars(StopFlush)
  /\ SF_vars(\E v \in Vcpu : TakeIrq(v))
  /\ \A v \in Vcpu : SF_vars(Waits(v)) /\ WF_vars(Runs(v))

-----------------------------------------------------------------------------
FrameTypes ==
  /\ rxq \in Seq(Frame) /\ batch \in Seq(Frame) /\ delivered \in Seq(Frame)
  /\ sent \in 0 .. MaxFrames
  /\ flush \in FlushPcs

ThreadTypes ==
  /\ rxMtx \in {Nobody, "flush"} /\ stop \in BOOLEAN
  /\ mtx \in {Nobody, "flush"} \cup Vcpu /\ ready \in BOOLEAN
  /\ irqStatus \in {0, 1} /\ closing \in BOOLEAN /\ spi \in BOOLEAN
  /\ pc \in [Vcpu -> {"idle"} \cup Sending \cup Handling]

RingTypes ==
  /\ posted \in 0 .. Size /\ collected \in 0 .. Len(delivered)
  /\ posted + Uncollected <= Size
  /\ txAvail \in 0 .. MaxTx /\ txDone \in 0 .. txAvail
  /\ resets \in 0 .. MaxResets

(* Every variable has its type, and the device never uses more buffers     *)
(* than the driver offered, nor handles a TX frame it did not publish      *)
(* (do_feed_rx's and process_tx's comparisons with avail->idx).            *)
TypeOK == FrameTypes /\ ThreadTypes /\ RingTypes

(* Frames reach the guest in the order of enqueue_rx, each at most once,   *)
(* across batches, resets and the threads that send them.                  *)
Fifo == INSTANCE LossyFifo WITH transit <- batch \o rxq
ImplementsFifo == Fifo!Spec

(* A kick ends: the vCPU that runs the NAT with mtx_ held gets rx_mtx_,    *)
(* and the flush thread, which takes both, never waits for it in return.   *)
KickEnds == \A v \in Vcpu : (pc[v] = "kick") ~> (pc[v] = "idle")

(* A frame put into the used ring is looked at by the driver, until the    *)
(* device is reset or destroyed.                                           *)
DeliveredIsCollected ==
  \A n \in 1 .. MaxFrames :
    (Len(delivered) >= n) ~> (collected >= n \/ closing)

(* ~Net ends: the flush thread that it joins drains what is queued, and    *)
(* ends.                                                                   *)
FlushIsJoined == closing ~> (flush = "ended")
=============================================================================
