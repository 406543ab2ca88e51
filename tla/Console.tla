------------------------------- MODULE Console -------------------------------
(***************************************************************************)
(* The virtio-console device (virtio/console.cpp) with the logger its      *)
(* output goes through (core/logger.cpp): a thread that polls stdin and    *)
(* feeds the guest a byte per buffer, the vCPUs that print chains of the   *)
(* TX queue segment by segment with mtx_ held, the PL011 UART that prints  *)
(* without it, and the VMM's own log lines.                                *)
(*                                                                         *)
(* Bytes of stdin are numbered.  A character of output is <<s, n>>: the    *)
(* n-th of source s ("hvc" or "uart"); every LineLen-th ends a line.       *)
(* Rings are counted or sequences.  The driver is external.                *)
(***************************************************************************)
EXTENDS Integers, Sequences, FiniteSets

CONSTANTS
  Vcpu,       \* the guest's vCPUs
  Size,       \* RX buffers the driver has
  Chains,     \* output chains the driver prints: segment lengths, at least one
  MaxChains,  \* bound on the chains printed
  LineLen,    \* characters of a line, with its newline
  MaxTyped,   \* bound on the bytes typed
  MaxUart,    \* bound on the characters the guest sends to the UART
  MaxLogs,    \* bound on the VMM's log lines while the guest runs
  MaxResets   \* bound on the driver's device resets

ASSUME ConsoleAssumption ==
  /\ {Size, LineLen} \subseteq Nat \ {0}
  /\ {MaxChains, MaxTyped, MaxUart, MaxLogs, MaxResets} \subseteq Nat
  /\ Chains \subseteq Seq(Nat \ {0}) \ {<<>>}
  /\ "nobody" \notin Vcpu

VARIABLES
  (* device *)
  mtx, irqStatus, rx, stop,   \* rx: where rx_thread_ is; stop_rx_
  (* queues: set up?; RX buffers offered; TX chains not yet used *)
  ready, posted, txq,
  (* logger: g_pending, and what the terminal has been given *)
  partial, terminal,
  (* interrupt controller *)
  spi,
  (* driver; the owner of the machine *)
  pc, collected, resets, owner,
  (* stdin: bytes typed, read; bytes put into RX buffers *)
  typed, taken, delivered,
  (* characters each source has produced, and chains and log lines made *)
  produced, printed, chains, logs

device == <<mtx, irqStatus, rx, stop>>
queues == <<ready, posted, txq>>
logger == <<partial, terminal>>
driver == <<pc, collected, resets>>
input  == <<typed, taken, delivered>>
output == <<produced, printed, chains, logs>>
vars == <<device, queues, logger, spi, driver, owner, input, output>>

Nobody == "nobody"
Source == {"hvc", "uart"}
EndsLine(c) == c[2] % LineLen = 0

Init ==
  /\ mtx = Nobody /\ irqStatus = 0 /\ rx = "poll" /\ stop = FALSE
  /\ ready = FALSE /\ posted = 0 /\ txq = <<>>
  /\ partial = <<>> /\ terminal = <<>> /\ spi = FALSE
  /\ pc = [v \in Vcpu |-> "idle"] /\ collected = 0 /\ resets = 0
  /\ owner = "runs"
  /\ typed = 0 /\ taken = 0 /\ delivered = <<>>
  /\ produced = 0 /\ printed = [s \in Source |-> 0] /\ chains = 0 /\ logs = 0

\* vCPU threads run until the owner has joined them.
Goto(v, from, to) ==
  /\ owner = "runs"
  /\ pc[v] = from /\ pc' = [pc EXCEPT ![v] = to]

-----------------------------------------------------------------------------
(* core/logger.cpp; each call holds g_mtx.  The terminal shows lines of     *)
(* the guest [log |-> FALSE] and log lines in the order they are written.  *)

GuestLine(chars) == [log |-> FALSE, chars |-> chars]
LogLine == [log |-> TRUE, chars |-> <<>>]

\* logger::write after its i-th character: the characters kept back until
\* their line is complete, and the lines that are.
Written(chars) ==
  LET step[i \in 0 .. Len(chars)] ==
        IF i = 0 THEN [rest |-> partial, lines |-> terminal]
        ELSE LET w == step[i - 1]
                 line == Append(w.rest, chars[i])
             IN IF EndsLine(chars[i])
                  THEN [rest |-> <<>>, lines |-> Append(w.lines, GuestLine(line))]
                  ELSE [rest |-> line, lines |-> w.lines]
  IN step

LogWrite(chars) ==
  LET done == Written(chars)[Len(chars)]
  IN /\ partial' = done.rest
     /\ terminal' = done.lines
     /\ printed' = [printed EXCEPT ![chars[1][1]] = @ + Len(chars)]

\* flush_pending: a partial line is closed and printed.
Flushed ==
  IF partial = <<>> THEN terminal ELSE Append(terminal, GuestLine(partial))

\* logger::log, on any thread of the VMM while the guest runs.
Log ==
  /\ owner = "runs"
  /\ logs < MaxLogs
  /\ terminal' = Append(Flushed, LogLine)
  /\ partial' = <<>>
  /\ logs' = logs + 1
  /\ UNCHANGED <<device, queues, spi, driver, owner, input, produced, printed,
                 chains>>

-----------------------------------------------------------------------------
(* The RX thread. *)

Type ==
  /\ typed < MaxTyped
  /\ typed' = typed + 1
  /\ UNCHANGED <<device, queues, logger, spi, driver, owner, taken, delivered,
                 output>>

\* Mutation: stop_rx_ is looked at only when there is nothing to read.
RxEndsIdle ==
  /\ rx = "poll" /\ stop
  /\ taken = typed
  /\ rx' = "ended"
  /\ UNCHANGED <<mtx, irqStatus, stop, queues, logger, spi, driver, owner,
                 input, output>>

RxEnds ==
  /\ rx = "poll" /\ stop
  /\ rx' = "ended"
  /\ UNCHANGED <<mtx, irqStatus, stop, queues, logger, spi, driver, owner,
                 input, output>>

\* poll says that stdin can be read.
RxPoll ==
  /\ rx = "poll" /\ ~stop
  /\ taken < typed
  /\ rx' = "lock"
  /\ UNCHANGED <<mtx, irqStatus, stop, queues, logger, spi, driver, owner,
                 input, output>>

\* Mutation: the byte is read before a buffer is looked for.
RxFeedReadsFirst ==
  /\ rx = "lock" /\ mtx = Nobody
  /\ rx' = "poll"
  /\ taken' = taken + 1
  /\ IF ready /\ posted > 0
       THEN /\ delivered' = Append(delivered, taken + 1)
            /\ posted' = posted - 1
            /\ irqStatus' = 1 /\ spi' = TRUE
       ELSE UNCHANGED <<delivered, posted, irqStatus, spi>>
  /\ UNCHANGED <<mtx, stop, ready, txq, logger, driver, owner, typed, output>>

\* Mutation: no buffer is asked for.
RxFeedUnchecked ==
  /\ rx = "lock" /\ mtx = Nobody
  /\ rx' = "poll"
  /\ IF ready
       THEN /\ taken' = taken + 1
            /\ delivered' = Append(delivered, taken + 1)
            /\ posted' = posted - 1
            /\ irqStatus' = 1 /\ spi' = TRUE
       ELSE UNCHANGED <<taken, delivered, posted, irqStatus, spi>>
  /\ UNCHANGED <<mtx, stop, ready, txq, logger, driver, owner, typed, output>>

\* feed_rx, with mtx_: without a buffer it returns and stdin keeps the byte,
\* else the byte goes from stdin to the buffer and the interrupt is raised.
RxFeed ==
  /\ rx = "lock" /\ mtx = Nobody
  /\ rx' = "poll"
  /\ IF ready /\ posted > 0
       THEN /\ taken' = taken + 1
            /\ delivered' = Append(delivered, taken + 1)
            /\ posted' = posted - 1
            /\ irqStatus' = 1 /\ spi' = TRUE
       ELSE UNCHANGED <<taken, delivered, posted, irqStatus, spi>>
  /\ UNCHANGED <<mtx, stop, ready, txq, logger, driver, owner, typed, output>>

-----------------------------------------------------------------------------
(* Output: the TX queue, and the UART. *)

\* Segment i of a chain follows on the segments before it.
Starts(c) ==
  LET from[i \in 1 .. Len(c) + 1] ==
        IF i = 1 THEN produced ELSE from[i - 1] + c[i - 1]
  IN from

Run(first, n) == [k \in 1 .. n |-> <<"hvc", first + k>>]

\* The driver publishes a chain; its segments are runs of characters.
TxPublish(v) ==
  /\ ready /\ chains < MaxChains
  /\ Goto(v, "idle", "kick")
  /\ \E c \in Chains :
       /\ txq' = Append(txq, [i \in 1 .. Len(c) |-> Run(Starts(c)[i], c[i])])
       /\ produced' = Starts(c)[Len(c) + 1]
  /\ chains' = chains + 1
  /\ UNCHANGED <<device, ready, posted, logger, spi, collected, resets, owner,
                 input, printed, logs>>

\* Mutation: a kick that finds the device busy is dropped.
NotifyTryLock(v) ==
  /\ Goto(v, "kick", IF ready /\ mtx = Nobody THEN "tx" ELSE "idle")
  /\ mtx' = IF ready /\ mtx = Nobody THEN v ELSE mtx
  /\ UNCHANGED <<irqStatus, rx, stop, queues, logger, spi, collected, resets,
                 owner, input, output>>

\* QueueNotify = 1: mtx_, and process_tx begins.
Notify(v) ==
  /\ mtx = Nobody
  /\ Goto(v, "kick", IF ready THEN "tx" ELSE "idle")
  /\ mtx' = IF ready THEN v ELSE Nobody
  /\ UNCHANGED <<irqStatus, rx, stop, queues, logger, spi, collected, resets,
                 owner, input, output>>

\* Mutation: a chain is taken from the ring segment by segment, and again.
TxSegmentTwice(v) ==
  /\ owner = "runs" /\ pc[v] = "tx" /\ txq # <<>>
  /\ LogWrite(Head(Head(txq)))
  /\ \/ UNCHANGED txq
     \/ txq' = IF Len(Head(txq)) = 1 THEN Tail(txq)
               ELSE [txq EXCEPT ![1] = Tail(@)]
  /\ UNCHANGED <<device, ready, posted, spi, driver, owner, input, produced,
                 chains, logs>>

\* One segment of the chain is written; after the last the chain is used.
TxSegment(v) ==
  /\ owner = "runs" /\ pc[v] = "tx" /\ txq # <<>>
  /\ LogWrite(Head(Head(txq)))
  /\ txq' = IF Len(Head(txq)) = 1 THEN Tail(txq)
            ELSE [txq EXCEPT ![1] = Tail(@)]
  /\ UNCHANGED <<device, ready, posted, spi, driver, owner, input, produced,
                 chains, logs>>

\* The loop sees nothing more to print.
TxDrained(v) ==
  /\ txq = <<>>
  /\ Goto(v, "tx", "raise")
  /\ UNCHANGED <<device, queues, logger, spi, collected, resets, owner, input,
                 output>>

\* The interrupt, and mtx_ is released.
TxRaise(v) ==
  /\ Goto(v, "raise", "idle")
  /\ irqStatus' = 1 /\ spi' = TRUE
  /\ mtx' = Nobody
  /\ UNCHANGED <<rx, stop, queues, logger, collected, resets, owner, input,
                 output>>

\* The guest stores a character to the UART's data register.
UartPut(v) ==
  /\ owner = "runs" /\ pc[v] = "idle"
  /\ printed["uart"] < MaxUart
  /\ LogWrite(<< <<"uart", printed["uart"] + 1>> >>)
  /\ UNCHANGED <<device, queues, spi, driver, owner, input, produced, chains,
                 logs>>

-----------------------------------------------------------------------------
(* The driver. *)

Probe(v) ==
  /\ ~ready /\ mtx = Nobody
  /\ Goto(v, "idle", "idle")
  /\ ready' = TRUE /\ posted' = Size /\ txq' = <<>>
  /\ UNCHANGED <<device, logger, spi, collected, resets, owner, input, output>>

\* IrqStatus is read and acknowledged.
TakeIrq(v) ==
  /\ spi /\ \A w \in Vcpu : pc[w] \notin {"irq", "scan"}
  /\ Goto(v, "idle", "irq")
  /\ spi' = FALSE
  /\ UNCHANGED <<device, queues, logger, collected, resets, owner, input,
                 output>>

AckIrq(v) ==
  /\ mtx = Nobody
  /\ Goto(v, "irq", IF irqStatus = 0 THEN "idle" ELSE "scan")
  /\ irqStatus' = 0
  /\ UNCHANGED <<mtx, rx, stop, queues, logger, spi, collected, resets, owner,
                 input, output>>

\* The driver takes the bytes it finds and offers their buffers again.
Collect(v) ==
  /\ Goto(v, "scan", "idle")
  /\ collected' = Len(delivered)
  /\ posted' = IF ready THEN Size ELSE 0
  /\ UNCHANGED <<device, ready, txq, logger, spi, resets, owner, input, output>>

\* Status = 0.
Reset(v) ==
  /\ ready /\ resets < MaxResets
  /\ mtx = Nobody
  /\ \A w \in Vcpu : pc[w] = "idle"
  /\ Goto(v, "idle", "idle")
  /\ ready' = FALSE /\ posted' = 0 /\ txq' = <<>>
  /\ irqStatus' = 0
  /\ resets' = resets + 1
  /\ collected' = Len(delivered)
  /\ UNCHANGED <<mtx, rx, stop, logger, spi, owner, input, output>>

-----------------------------------------------------------------------------
(* ~Impl, and ~VMContext as far as it destroys the console. *)

OwnerGoes(from, to) == owner = from /\ owner' = to

\* The run is over and its vCPU threads are joined: no access is under way.
Joined ==
  /\ OwnerGoes("runs", "joined")
  /\ \A v \in Vcpu : pc[v] \in {"idle", "kick", "irq", "scan"}
  /\ mtx = Nobody
  /\ UNCHANGED <<device, queues, logger, spi, driver, input, output>>

\* logger::shutdown.
Shutdown ==
  /\ OwnerGoes("joined", "shut")
  /\ terminal' = Flushed /\ partial' = <<>>
  /\ UNCHANGED <<device, queues, spi, driver, input, output>>

\* ~Console.
StopRx ==
  /\ OwnerGoes("shut", "joins")
  /\ stop' = TRUE
  /\ UNCHANGED <<mtx, irqStatus, rx, queues, logger, spi, driver, input, output>>

RxJoined ==
  /\ OwnerGoes("joins", "gone")
  /\ rx = "ended"
  /\ UNCHANGED <<device, queues, logger, spi, driver, input, output>>

-----------------------------------------------------------------------------
RxThread == RxEnds \/ RxPoll \/ RxFeed
Device(v) == Notify(v) \/ TxSegment(v) \/ TxDrained(v) \/ TxRaise(v)
Guest(v) == TxPublish(v) \/ UartPut(v) \/ Probe(v) \/ TakeIrq(v) \/ AckIrq(v)
              \/ Collect(v) \/ Reset(v)
Owner == Joined \/ Shutdown \/ StopRx \/ RxJoined

Next == Log \/ Type \/ RxThread \/ Owner \/ \E v \in Vcpu : Device(v) \/ Guest(v)

Spec == Init /\ [][Next]_vars

(* The RX thread and the vCPUs keep running and get mtx_ in the end; a     *)
(* pending interrupt is taken; a destructor that has begun goes on.        *)
FairSpec ==
  /\ Spec
  /\ WF_vars(RxEnds \/ RxPoll) /\ SF_vars(RxFeed)
  /\ WF_vars(Shutdown \/ StopRx \/ RxJoined)
  /\ WF_vars(\E v \in Vcpu : TakeIrq(v))
  /\ \A v \in Vcpu :
       /\ SF_vars(Notify(v) \/ AckIrq(v))
       /\ WF_vars(TxSegment(v) \/ TxDrained(v) \/ TxRaise(v) \/ Collect(v))

-----------------------------------------------------------------------------
(* Types; an RX buffer is used once, and mtx_ is held only by a vCPU that  *)
(* drains the TX queue.                                                    *)
TypeOK ==
  /\ mtx \in Vcpu \cup {Nobody} /\ irqStatus \in {0, 1}
  /\ rx \in {"poll", "lock", "ended"} /\ stop \in BOOLEAN
  /\ ready \in BOOLEAN /\ posted \in 0 .. Size /\ spi \in BOOLEAN
  /\ Len(txq) <= MaxChains /\ (txq # <<>> => ready)
  /\ pc \in [Vcpu -> {"idle", "kick", "tx", "raise", "irq", "scan"}]
  /\ \A v \in Vcpu : pc[v] \in {"tx", "raise"} <=> mtx = v
  /\ owner \in {"runs", "joined", "shut", "joins", "gone"}
  /\ (owner = "gone" => rx = "ended")
  /\ typed \in 0 .. MaxTyped /\ taken \in 0 .. typed
  /\ collected \in 0 .. Len(delivered) /\ resets \in 0 .. MaxResets
  /\ produced \in Nat /\ printed \in [Source -> Nat]
  /\ chains \in 0 .. MaxChains /\ logs \in 0 .. MaxLogs

(* What is typed reaches the RX queue once each and in order; what stdin   *)
(* no longer has, the queue has.                                           *)
InputWhole == delivered = [k \in 1 .. taken |-> k]

\* The characters of the first lines shown, up to each of them.
Upto(lines) ==
  LET upto[i \in 0 .. Len(lines)] ==
        IF i = 0 THEN <<>> ELSE upto[i - 1] \o lines[i].chars
  IN upto

\* The characters the terminal shows and those kept back, in order.
Text == Upto(terminal)[Len(terminal)] \o partial

(* The terminal gets what each source wrote, in its order, nothing twice   *)
(* and nothing left out but what a reset discarded, whoever writes between *)
(* two segments; and the machine does not end with output kept back.       *)
OutputWhole ==
  /\ LET text == Text
         At(s) == {i \in 1 .. Len(text) : text[i][1] = s}
     IN \A s \in Source :
          /\ Cardinality(At(s)) = printed[s]
          /\ \A i, j \in At(s) : i < j => text[i][2] < text[j][2]
  /\ owner \in {"shut", "joins", "gone"} => partial = <<>>

(* While the machine runs, a byte on stdin is fed and looked at as long as *)
(* there are buffers, and every chain published is printed.                *)
NothingWaits ==
  /\ []<>(\/ owner # "runs"
          \/ /\ ~ (taken < typed /\ ready /\ posted > 0)
             /\ collected = Len(delivered))
  /\ []<>(owner # "runs" \/ txq = <<>>)

(* ~Console returns.                                                       *)
RxIsJoined == owner = "joins" ~> owner = "gone"

(* A line of the guest is printed in one piece.                            *)
GuestLinesWhole ==
  \A i \in DOMAIN terminal :
    ~ terminal[i].log =>
      LET chars == terminal[i].chars
      IN EndsLine(chars[Len(chars)])
=============================================================================
