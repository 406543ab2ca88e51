-------------------------------- MODULE Input --------------------------------
(***************************************************************************)
(* The virtio-input device (virtio/input.cpp) as a tablet: reports of the  *)
(* pointer, pushed event by event on the application's thread into a       *)
(* bounded deque, and flushed into the guest's event queue by that thread  *)
(* or by the vCPU whose driver returns buffers and kicks.  All of it holds *)
(* mtx_; the driver meanwhile publishes buffers and reads the used ring.   *)
(*                                                                         *)
(* Rings are counted, not laid out: VirtioBlock models their slots and     *)
(* their wrap.  An event is its number in the order it was pushed; report  *)
(* r consists of the events (r - 1) * Parts + 1 .. r * Parts, each with    *)
(* the state of one axis or button, the last EV_SYN.  The driver and the   *)
(* interrupt controller are external; the driver's buffers are writable    *)
(* and hold an event.                                                      *)
(***************************************************************************)
EXTENDS Integers, Sequences

CONSTANTS
  Parts,       \* events of a report (5)
  Cap,         \* pending events kept (2 * kQueueSize)
  Size,        \* buffers the driver has
  MaxReports,  \* bound on the reports sent
  MaxResets    \* bound on the driver's device resets

ASSUME InputAssumption ==
  /\ {Parts, Size} \subseteq Nat \ {0} /\ {MaxReports, MaxResets} \subseteq Nat
  /\ Cap \in Nat /\ Cap >= Parts

VARIABLES
  (* device *)
  pending,             \* pending_events_
  mtx, at, injected,   \* mtx_; where its holder is; injected
  ready, irqStatus,
  (* interrupt controller *)
  spi,
  (* driver *)
  drv, posted, collected, view, resets,
  (* events pushed and put into the used ring; reports at the last reset *)
  sent, delivered, cleared

device == <<pending, mtx, at, injected, ready, irqStatus>>
driver == <<drv, posted, collected, view, resets>>
events == <<sent, delivered, cleared>>
vars == <<device, spi, driver, events>>

Nobody == "nobody"
Part == 1 .. Parts
PartOf(e) == ((e - 1) % Parts) + 1
MaxEvent == Parts * MaxReports
Handling == {"irq_read", "irq_ack", "irq_scan"}

Init ==
  /\ pending = <<>> /\ mtx = Nobody /\ at = "none" /\ injected = FALSE
  /\ ready = FALSE /\ irqStatus = 0 /\ spi = FALSE
  /\ drv = "idle" /\ posted = 0 /\ collected = 0
  /\ view = [p \in Part |-> 0] /\ resets = 0
  /\ sent = 0 /\ delivered = <<>> /\ cleared = 0

-----------------------------------------------------------------------------
(* send_pointer, on the application's thread. *)

SendPointer ==
  /\ mtx = Nobody
  /\ sent < MaxEvent
  /\ mtx' = "sender" /\ at' = "push"
  /\ UNCHANGED <<pending, injected, ready, irqStatus, spi, driver, events>>

Pushed(queue) ==
  /\ at = "push"
  /\ sent' = sent + 1
  /\ pending' = queue
  /\ at' = IF sent' % Parts = 0 THEN "flush" ELSE "push"
  /\ UNCHANGED <<mtx, injected, ready, irqStatus, spi, driver, delivered,
                 cleared>>

\* Mutations: the deque grows; the event that does not fit is dropped.
PushUnbounded == Pushed(Append(pending, sent + 1))
PushDropsNewest ==
  Pushed(IF Len(pending) = Cap THEN pending ELSE Append(pending, sent + 1))

\* push_event_locked: beyond Cap the oldest event is dropped.
Push ==
  LET q == Append(pending, sent + 1)
  IN Pushed(IF Len(q) > Cap THEN Tail(q) ELSE q)

-----------------------------------------------------------------------------
(* flush_events_locked, for whoever holds mtx_. *)

CanFlush == ready /\ pending # <<>> /\ posted > 0

\* Mutation: events are taken from the back.
FlushTurnBack ==
  /\ at = "flush" /\ CanFlush
  /\ delivered' = Append(delivered, pending[Len(pending)])
  /\ pending' = SubSeq(pending, 1, Len(pending) - 1)
  /\ posted' = posted - 1
  /\ injected' = TRUE
  /\ UNCHANGED <<mtx, at, ready, irqStatus, spi, drv, collected, view, resets,
                 sent, cleared>>

\* One event into one buffer, and used->idx moves on.
FlushTurn ==
  /\ at = "flush" /\ CanFlush
  /\ delivered' = Append(delivered, Head(pending))
  /\ pending' = Tail(pending)
  /\ posted' = posted - 1
  /\ injected' = TRUE
  /\ UNCHANGED <<mtx, at, ready, irqStatus, spi, drv, collected, view, resets,
                 sent, cleared>>

\* The interrupt, if there was an event; mtx_ is released.
FlushEnds ==
  /\ at = "flush" /\ ~CanFlush
  /\ irqStatus' = IF injected THEN 1 ELSE irqStatus
  /\ spi' = (spi \/ injected)
  /\ injected' = FALSE
  /\ mtx' = Nobody /\ at' = "none"
  /\ drv' = IF mtx = "driver" THEN "idle" ELSE drv
  /\ UNCHANGED <<pending, ready, posted, collected, view, resets, events>>

-----------------------------------------------------------------------------
(* The driver. *)

DriverGoes(from, to) == drv = from /\ drv' = to

\* Probe: the event queue is set up, filled and kicked.
Probe ==
  /\ DriverGoes("idle", "kick")
  /\ mtx = Nobody /\ ~ready
  /\ ready' = TRUE
  /\ posted' = Size
  /\ UNCHANGED <<pending, mtx, at, injected, irqStatus, spi, collected, view,
                 resets, events>>

\* Mutation: a kick of the event queue is taken for nothing.
KickIgnored ==
  /\ DriverGoes("kick", "idle")
  /\ mtx = Nobody
  /\ UNCHANGED <<device, spi, posted, collected, view, resets, events>>

\* QueueNotify of queue 0 flushes.
Kick ==
  /\ DriverGoes("kick", "kicking")
  /\ mtx = Nobody
  /\ mtx' = "driver" /\ at' = "flush"
  /\ UNCHANGED <<pending, injected, ready, irqStatus, spi, posted, collected,
                 view, resets, events>>

TakeIrq ==
  /\ DriverGoes("idle", "irq_read")
  /\ spi
  /\ spi' = FALSE
  /\ UNCHANGED <<device, posted, collected, view, resets, events>>

ReadIrqStatus ==
  /\ DriverGoes("irq_read", IF irqStatus = 0 THEN "idle" ELSE "irq_ack")
  /\ mtx = Nobody
  /\ UNCHANGED <<device, spi, posted, collected, view, resets, events>>

AckIrq ==
  /\ DriverGoes("irq_ack", "irq_scan")
  /\ mtx = Nobody
  /\ irqStatus' = 0
  /\ UNCHANGED <<pending, mtx, at, injected, ready, spi, posted, collected,
                 view, resets, events>>

\* One event is taken, and its buffer offered again.
Collect ==
  /\ DriverGoes("irq_scan", "irq_scan")
  /\ collected < Len(delivered)
  /\ LET e == delivered[collected + 1]
     IN view' = [view EXCEPT ![PartOf(e)] = ((e - 1) \div Parts) + 1]
  /\ collected' = collected + 1
  /\ posted' = posted + 1
  /\ UNCHANGED <<device, spi, resets, events>>

ScanDone ==
  /\ DriverGoes("irq_scan", "kick")
  /\ collected = Len(delivered)
  /\ UNCHANGED <<device, spi, posted, collected, view, resets, events>>

\* Status = 0: the queues, irq_status_ and the pending events.
Reset ==
  /\ DriverGoes("idle", "idle")
  /\ mtx = Nobody /\ ready
  /\ resets < MaxResets
  /\ resets' = resets + 1
  /\ ready' = FALSE /\ irqStatus' = 0
  /\ pending' = <<>>
  /\ posted' = 0 /\ collected' = Len(delivered)
  /\ cleared' = sent
  /\ UNCHANGED <<mtx, at, injected, spi, view, sent, delivered>>

-----------------------------------------------------------------------------
Holder == Push \/ FlushTurn \/ FlushEnds
Waits  == Kick \/ ReadIrqStatus \/ AckIrq
Runs   == Collect \/ ScanDone

Next ==
  \/ SendPointer \/ Holder
  \/ Probe \/ Reset \/ Waits \/ Runs \/ TakeIrq

Spec == Init /\ [][Next]_vars

(* Whoever holds mtx_ goes on and releases it; the vCPU gets it in the end *)
(* though the application takes it again and again; a pending interrupt is *)
(* taken.  The application need not send, nor the guest probe or reset.    *)
FairSpec ==
  /\ Spec
  /\ WF_vars(Holder) /\ SF_vars(Waits) /\ WF_vars(Runs) /\ SF_vars(TakeIrq)

-----------------------------------------------------------------------------
Uncollected == Len(delivered) - collected

(* Every variable has its type; pending_events_ never exceeds its cap, and *)
(* the device uses no more buffers than it was offered.                    *)
TypeOK ==
  /\ pending \in Seq(1 .. MaxEvent) /\ Len(pending) <= Cap
  /\ mtx \in {Nobody, "sender", "driver"} /\ at \in {"none", "push", "flush"}
  /\ injected \in BOOLEAN /\ ready \in BOOLEAN /\ irqStatus \in {0, 1}
  /\ spi \in BOOLEAN
  /\ drv \in {"idle", "kick", "kicking"} \cup Handling
  /\ posted \in 0 .. Size /\ collected \in 0 .. Len(delivered)
  /\ view \in [Part -> 0 .. MaxReports] /\ resets \in 0 .. MaxResets
  /\ sent \in 0 .. MaxEvent /\ delivered \in Seq(1 .. MaxEvent)
  /\ cleared \in 0 .. sent
  /\ posted + Uncollected <= Size

(* Events reach the guest in the order they were pushed, each at most once *)
(* (a report's EV_SYN never overtakes its coordinates).                    *)
Fifo == INSTANCE LossyFifo WITH transit <- pending
ImplementsFifo == Fifo!Spec

(* However many events the cap drops: once nothing is pending or to be     *)
(* collected, the guest has the newest report, every axis and button of    *)
(* it, unless a reset threw it away.                                       *)
LatestReportWins ==
  pending = <<>> /\ at = "none" /\ Uncollected = 0 /\ sent > cleared =>
    view = [p \in Part |-> sent \div Parts]

(* Events wait for buffers only as long as the driver has some to return:  *)
(* no kick and no interrupt between sender and driver is lost.             *)
PendingIsDelivered ==
  (ready /\ pending # <<>>) ~> (pending = <<>> \/ ~ready)
=============================================================================
