--------------------------- MODULE VirtioNet_proofs ---------------------------
(***************************************************************************)
(* What VirtioNet's run checks on two vCPUs and a few frames, proved for   *)
(* any number of vCPUs, frames, buffers and resets.                        *)
(***************************************************************************)
EXTENDS VirtioNet, SequenceTheorems, TLAPS

USE NetAssumption

(* The flush thread has nothing in hand while it waits.                    *)
EmptyHanded == flush \in {"wait", "ended"} => batch = <<>>

(* process_tx runs with mtx_ held, and between the frame it takes and its  *)
(* used element that frame is published.                                   *)
TxExclusive ==
  \A v \in Vcpu :
    /\ pc[v] \in {"tx", "reply", "used"} => mtx = v
    /\ pc[v] \in {"reply", "used"} => txDone # txAvail

(* The flush thread feeds with mtx_ held.                                  *)
FeedExclusive == flush \in {"feed", "raise"} => mtx = "flush"

Parts == FrameTypes /\ EmptyHanded

-----------------------------------------------------------------------------
LEMMA PartsHold == Spec => []Parts
<1> USE DEF Parts, FrameTypes, EmptyHanded, FlushPcs
<1>1. Init => Parts
  BY EmptySeq DEF Init
<1>2. Parts /\ [Next]_vars => Parts'
  <2> SUFFICES ASSUME Parts, [Next]_vars PROVE Parts'
    OBVIOUS
  <2>1. ASSUME EnqueueRx, UNCHANGED <<flush, batch>> PROVE Parts'
    <3>1. sent + 1 \in Frame
      BY <2>1 DEF EnqueueRx, Frame
    <3>2. rxq' \in Seq(Frame)
      BY <2>1, <3>1, AppendProperties DEF EnqueueRx
    <3> QED
      BY <2>1, <3>1, <3>2 DEF EnqueueRx, Frame
  <2>2. CASE HelperSends
    BY <2>1, <2>2 DEF HelperSends
  <2>3. CASE FlushTake
    BY <2>3, EmptySeq DEF FlushTake, FlushGoes, frames
  <2>4. CASE FlushEnd
    BY <2>4 DEF FlushEnd, FlushGoes, rx, frames
  <2>5. CASE FlushUnlock
    BY <2>5 DEF FlushUnlock, FlushGoes, frames
  <2>6. CASE FlushLock
    BY <2>6 DEF FlushLock, FlushGoes, rx, frames
  <2>7. CASE FlushFeed
    <3>1. Head(batch) \in Frame /\ Tail(batch) \in Seq(Frame)
      BY <2>7, HeadTailProperties DEF FlushFeed
    <3>2. Append(delivered, Head(batch)) \in Seq(Frame)
      BY <3>1, AppendProperties
    <3> QED
      BY <2>7, <3>1, <3>2 DEF FlushFeed, FlushGoes, rx
  <2>8. CASE FlushRaise
    BY <2>8 DEF FlushRaise, FlushGoes, rx, frames
  <2>9. CASE FlushDone
    BY <2>9 DEF FlushDone, FlushGoes, rx, frames
  <2>10. CASE ResetStack \/ StopFlush
    BY <2>10 DEF ResetStack, StopFlush, rx, frames
  <2>11. ASSUME NEW v \in Vcpu, Waits(v) \/ Runs(v) PROVE Parts'
    <3>1. CASE TxReply(v)
      BY <2>1, <3>1 DEF TxReply, rx, frames
    <3> QED
      BY <2>11, <3>1 DEF Waits, Runs, Notify, ReadIrqStatus, AckIrq, TxFrame,
         TxUsed, TxRaise, Collect, rx, frames
  <2>12. ASSUME NEW v \in Vcpu,
                TakeIrq(v) \/ TxPublish(v) \/ Post(v) \/ Probe(v) \/ Reset(v)
         PROVE Parts'
    BY <2>12 DEF TakeIrq, TxPublish, Post, Probe, Reset, rx, frames
  <2>13. CASE UNCHANGED vars
    BY <2>13 DEF vars, rx, frames
  <2> QED
    BY <2>2, <2>3, <2>4, <2>5, <2>6, <2>7, <2>8, <2>9, <2>10, <2>11, <2>12,
       <2>13 DEF Next, Flush
<1> QED
  BY <1>1, <1>2, PTL DEF Spec

-----------------------------------------------------------------------------
(* What is on its way to the guest: the batch in hand, then the queue.     *)
Transit == batch \o rxq

LEMMA TransitIsSeq == ASSUME Parts PROVE Transit \in Seq(Frame)
  BY ConcatProperties DEF Parts, FrameTypes, Transit

(* A frame of enqueue_rx joins the end of what is on its way.              *)
LEMMA EnqueueSends ==
  ASSUME Parts, EnqueueRx, batch' = batch PROVE Fifo!Send
<1>1. sent + 1 \in Frame
  BY DEF EnqueueRx, Parts, FrameTypes, Frame
<1>2. Transit' = Append(Transit, sent + 1)
  <2>1. rxq' = rxq \o <<sent + 1>>
    BY <1>1, AppendIsConcat DEF EnqueueRx, Parts, FrameTypes
  <2>2. <<sent + 1>> \in Seq(Frame)
    BY <1>1
  <2>3. Transit' = Transit \o <<sent + 1>>
    BY <2>1, <2>2, ConcatAssociative DEF Transit, Parts, FrameTypes
  <2> QED
    BY <1>1, <2>3, TransitIsSeq, AppendIsConcat
<1>3. SubSeq(Transit, 0 + 1, Len(Transit)) = Transit
  BY TransitIsSeq, SubSeqFull
<1>4. 0 \in 0 .. Len(Transit)
  BY TransitIsSeq, LenProperties
<1> QED
  BY <1>2, <1>3, <1>4 DEF Fifo!Send, Fifo!Left, Transit, EnqueueRx

(* The frame at hand is delivered or lost.                                 *)
LEMMA FeedDeliversOrLoses ==
  ASSUME Parts, FlushFeed PROVE Fifo!Deliver \/ Fifo!Lose
<1>1. batch \in Seq(Frame) /\ batch # <<>> /\ rxq \in Seq(Frame)
  BY DEF FlushFeed, Parts, FrameTypes
<1>2. Transit # <<>> /\ Head(Transit) = Head(batch)
  BY <1>1, ConcatProperties, EmptySeq, LenProperties DEF Transit
<1>3. Tail(Transit) = Tail(batch) \o rxq
  <2>1. Tail(batch) \in Seq(Frame) /\ Tail(batch) \o rxq \in Seq(Frame)
    BY <1>1, HeadTailProperties, ConcatProperties
  <2>2. Tail(Transit) \in Seq(Frame) /\ Len(Tail(Transit)) = Len(Transit) - 1
        /\ \A i \in 1 .. Len(Tail(Transit)) : Tail(Transit)[i] = Transit[i + 1]
    BY <1>2, TransitIsSeq, HeadTailProperties
  <2>3. Len(Tail(batch)) = Len(batch) - 1
        /\ \A i \in 1 .. Len(Tail(batch)) : Tail(batch)[i] = batch[i + 1]
    BY <1>1, HeadTailProperties
  <2>4. Len(Tail(Transit)) = Len(Tail(batch) \o rxq)
    BY <1>1, <2>1, <2>2, <2>3, ConcatProperties DEF Transit
  <2>5. ASSUME NEW i \in 1 .. Len(Tail(Transit))
        PROVE Tail(Transit)[i] = (Tail(batch) \o rxq)[i]
    <3>1. Len(batch) \in Nat /\ Len(rxq) \in Nat /\ Len(batch) > 0
          /\ Len(Transit) = Len(batch) + Len(rxq)
      BY <1>1, ConcatProperties, LenProperties, EmptySeq DEF Transit
    <3>2. i \in 1 .. Len(batch) - 1 + Len(rxq) /\ i \in Nat
      BY <2>2, <3>1
    <3>3. Tail(Transit)[i] = IF i + 1 <= Len(batch) THEN batch[i + 1]
                             ELSE rxq[i + 1 - Len(batch)]
      BY <1>1, <2>2, <3>1, <3>2, ConcatProperties DEF Transit
    <3>4. (Tail(batch) \o rxq)[i] = IF i <= Len(batch) - 1 THEN Tail(batch)[i]
                                    ELSE rxq[i - (Len(batch) - 1)]
      BY <1>1, <2>1, <2>3, <3>1, <3>2, ConcatProperties
    <3> QED
      BY <2>3, <3>1, <3>2, <3>3, <3>4
  <2> QED
    BY <2>1, <2>2, <2>4, <2>5, SeqEqual
<1>4. Transit' = Tail(Transit) /\ sent' = sent
  BY <1>3 DEF FlushFeed, Transit, rx
<1>5. CASE Feeds(Head(batch))
  <2>1. delivered' = Append(delivered, Head(Transit))
    BY <1>2, <1>5 DEF FlushFeed
  <2> QED
    BY <1>2, <1>4, <2>1 DEF Fifo!Deliver, Transit
<1>6. CASE ~Feeds(Head(batch))
  <2>1. delivered' = delivered
    BY <1>6 DEF FlushFeed
  <2>2. Tail(Transit) = SubSeq(Transit, 1 + 1, Len(Transit))
    BY <1>2, TransitIsSeq, TailIsSubSeq
  <2>3. 1 \in 0 .. Len(Transit)
    BY <1>2, TransitIsSeq, EmptySeq, LenProperties
  <2> QED
    BY <1>4, <2>1, <2>2, <2>3 DEF Fifo!Lose, Fifo!Left, Transit
<1> QED
  BY <1>5, <1>6

(* Frames reach the guest in the order they were enqueued and once each,   *)
(* whoever sends them and whatever is dropped, reset or destroyed.         *)
THEOREM FramesInOrder == Spec => ImplementsFifo
<1>1. Init => Fifo!Init
  BY EmptySeq, ConcatEmptySeq DEF Init, Fifo!Init
<1>2. Parts /\ [Next]_vars => [Fifo!Next]_<<sent, batch \o rxq, delivered>>
  <2> SUFFICES ASSUME Parts, [Next]_vars
               PROVE Fifo!Next \/ UNCHANGED <<sent, Transit, delivered>>
    BY DEF Transit
  <2>1. CASE HelperSends
    BY <2>1, EnqueueSends DEF HelperSends, Fifo!Next
  <2>2. CASE FlushTake
    <3>1. Transit = rxq /\ Transit' = rxq
      BY <2>2, ConcatEmptySeq
      DEF FlushTake, FlushGoes, Parts, EmptyHanded, FrameTypes, Transit
    <3> QED
      BY <2>2, <3>1 DEF FlushTake, frames
  <2>3. CASE FlushFeed
    BY <2>3, FeedDeliversOrLoses DEF Fifo!Next
  <2>4. CASE FlushEnd \/ FlushUnlock \/ FlushLock \/ FlushRaise \/ FlushDone
             \/ ResetStack \/ StopFlush
    BY <2>4 DEF FlushEnd, FlushUnlock, FlushLock, FlushRaise, FlushDone,
       ResetStack, StopFlush, rx, frames, Transit
  <2>5. ASSUME NEW v \in Vcpu, Waits(v) \/ Runs(v)
        PROVE Fifo!Next \/ UNCHANGED <<sent, Transit, delivered>>
    <3>1. CASE TxReply(v)
      <4>1. batch' = batch /\ (EnqueueRx \/ UNCHANGED <<rxq, sent, delivered>>)
        BY <3>1 DEF TxReply, rx, frames
      <4> QED
        BY <4>1, EnqueueSends DEF Fifo!Next, Transit
    <3> QED
      BY <2>5, <3>1 DEF Waits, Runs, Notify, ReadIrqStatus, AckIrq, TxFrame,
         TxUsed, TxRaise, Collect, rx, frames, Transit
  <2>6. ASSUME NEW v \in Vcpu,
               TakeIrq(v) \/ TxPublish(v) \/ Post(v) \/ Probe(v) \/ Reset(v)
        PROVE UNCHANGED <<sent, Transit, delivered>>
    BY <2>6 DEF TakeIrq, TxPublish, Post, Probe, Reset, rx, frames, Transit
  <2>7. CASE UNCHANGED vars
    BY <2>7 DEF vars, rx, frames, Transit
  <2> QED
    BY <2>1, <2>2, <2>3, <2>4, <2>5, <2>6, <2>7 DEF Next, Flush
<1> QED
  BY <1>1, <1>2, PartsHold, PTL DEF Spec, ImplementsFifo, Fifo!Spec

-----------------------------------------------------------------------------
LEMMA ThreadTypesHold == Spec => []ThreadTypes
<1> USE DEF ThreadTypes, Sending, Handling
<1>1. Init => ThreadTypes
  BY DEF Init
<1>2. ThreadTypes /\ [Next]_vars => ThreadTypes'
  <2> SUFFICES ASSUME ThreadTypes, [Next]_vars PROVE ThreadTypes'
    OBVIOUS
  <2>1. CASE HelperSends
    BY <2>1 DEF HelperSends, EnqueueRx, dev
  <2>2. CASE Flush \/ FlushLock
    BY <2>2 DEF Flush, FlushTake, FlushEnd, FlushUnlock, FlushLock, FlushFeed,
       FlushRaise, FlushDone, rx, dev
  <2>3. CASE ResetStack \/ StopFlush
    BY <2>3 DEF ResetStack, StopFlush, rx, dev
  <2>4. ASSUME NEW v \in Vcpu, Waits(v) PROVE ThreadTypes'
    BY <2>4 DEF Waits, Goto, Notify, TxReply, EnqueueRx, ReadIrqStatus, AckIrq,
       rx, dev
  <2>5. ASSUME NEW v \in Vcpu, Runs(v) PROVE ThreadTypes'
    BY <2>5 DEF Runs, Goto, TxFrame, TxUsed, TxRaise, Collect, rx, dev
  <2>6. ASSUME NEW v \in Vcpu,
               TakeIrq(v) \/ TxPublish(v) \/ Post(v) \/ Probe(v) \/ Reset(v)
        PROVE ThreadTypes'
    BY <2>6 DEF Goto, TakeIrq, TxPublish, Post, Probe, Reset, rx, dev
  <2>7. CASE UNCHANGED vars
    BY <2>7 DEF vars, rx, dev
  <2> QED
    BY <2>1, <2>2, <2>3, <2>4, <2>5, <2>6, <2>7 DEF Next
<1> QED
  BY <1>1, <1>2, PTL DEF Spec

-----------------------------------------------------------------------------
(* Buffers and TX frames are counted right because process_tx is alone in  *)
(* its loop: RingTypes is inductive only with who holds mtx_ when.         *)
RingInv == RingTypes /\ TxExclusive /\ FeedExclusive

LEMMA RingInvHolds == Spec => []RingInv
<1> USE DEF RingInv, RingTypes, TxExclusive, FeedExclusive, Uncollected
<1>1. Init => RingInv
  BY EmptySeq DEF Init
<1>2. Parts /\ ThreadTypes /\ RingInv /\ [Next]_vars => RingInv'
  <2> SUFFICES ASSUME Parts, ThreadTypes, RingInv, [Next]_vars PROVE RingInv'
    OBVIOUS
  <2> DEFINE Counted == <<posted, collected, txAvail, txDone, resets, delivered>>
  <2>0. Len(delivered) \in Nat
    BY LenProperties DEF Parts, FrameTypes
  <2>1. ASSUME UNCHANGED Counted, UNCHANGED <<pc, mtx, flush>> PROVE RingInv'
    BY <2>1
  <2>2. CASE HelperSends
    BY <2>1, <2>2 DEF HelperSends, EnqueueRx, dev, driver
  <2>3. CASE FlushTake \/ FlushEnd \/ FlushUnlock \/ FlushRaise
    BY <2>3 DEF FlushTake, FlushEnd, FlushUnlock, FlushRaise, FlushGoes, dev,
       driver, frames
  <2>4. CASE FlushLock
    BY <2>4 DEF FlushLock, FlushGoes, driver, frames, Nobody
  <2>5. CASE FlushDone
    BY <2>5 DEF FlushDone, FlushGoes, driver, frames
  <2>6. CASE FlushFeed
    <3>1. CASE Feeds(Head(batch))
      <4>1. Len(delivered') = Len(delivered) + 1
        BY <2>6, <3>1, HeadTailProperties, AppendProperties
        DEF FlushFeed, Parts, FrameTypes
      <4> QED
        BY <2>0, <2>6, <3>1, <4>1 DEF FlushFeed, FlushGoes, Feeds, dev
    <3>2. CASE ~Feeds(Head(batch))
      BY <2>1, <2>6, <3>2 DEF FlushFeed, FlushGoes, dev
    <3> QED
      BY <3>1, <3>2
  <2>7. ASSUME NEW v \in Vcpu, Waits(v) \/ TakeIrq(v) \/ Probe(v)
                              \/ TxFrame(v) \/ TxRaise(v)
        PROVE RingInv'
    <3>1. UNCHANGED Counted
      BY <2>7 DEF Waits, Notify, TxReply, EnqueueRx, ReadIrqStatus, AckIrq,
         TakeIrq, Probe, TxFrame, TxRaise, dev, driver, frames
    <3>2. TxExclusive' /\ FeedExclusive'
      BY <2>7, <3>1 DEF Waits, Goto, Notify, TxReply, ReadIrqStatus, AckIrq,
         TakeIrq, Probe, TxFrame, TxRaise, dev, ThreadTypes, Nobody
    <3> QED
      BY <3>1, <3>2
  <2>8. ASSUME NEW v \in Vcpu, TxUsed(v) PROVE RingInv'
    <3>1. /\ pc[v] = "used" /\ pc' = [pc EXCEPT ![v] = "tx"]
          /\ txDone' = txDone + 1 /\ mtx' = mtx /\ flush' = flush
          /\ UNCHANGED <<posted, collected, txAvail, resets, delivered>>
      BY <2>8 DEF TxUsed, Goto, dev, frames
    <3>2. mtx = v /\ \A w \in Vcpu \ {v} : pc[w] \notin {"tx", "reply", "used"}
      BY <3>1
    <3>3. TxExclusive'
      BY <3>1, <3>2 DEF ThreadTypes
    <3>4. RingTypes'
      BY <2>0, <3>1
    <3> QED
      BY <3>1, <3>3, <3>4
  <2>9. ASSUME NEW v \in Vcpu, TxPublish(v) \/ Post(v) \/ Collect(v)
        PROVE RingInv'
    <3>1. mtx' = mtx /\ delivered' = delivered /\ flush' = flush
          /\ (txAvail' = txAvail \/ (txAvail < MaxTx /\ txAvail' = txAvail + 1))
          /\ txDone' = txDone /\ resets' = resets
      BY <2>9 DEF TxPublish, Post, Collect, dev, frames
    <3>2. txDone # txAvail => txDone' # txAvail'
      BY <3>1
    <3>3. \A w \in Vcpu : pc'[w] \in {"tx", "reply", "used"} => pc'[w] = pc[w]
      BY <2>9 DEF TxPublish, Post, Collect, Goto, ThreadTypes
    <3>4. TxExclusive'
      BY <3>1, <3>2, <3>3, Zenon
    <3>5. \/ posted' = posted /\ collected' \in {collected, Len(delivered)}
          \/ posted + Uncollected < Size /\ posted' = posted + 1
             /\ collected' = collected
      BY <2>9 DEF TxPublish, Post, Collect
    <3>6. RingTypes'
      <4>1. txAvail' \in 0 .. MaxTx /\ txDone' \in 0 .. txAvail'
            /\ resets' \in 0 .. MaxResets
        BY <3>1
      <4>2. /\ posted' \in 0 .. Size /\ collected' \in 0 .. Len(delivered)
            /\ posted' + (Len(delivered) - collected') <= Size
        BY <2>0, <3>5, SMTT(30)
      <4> QED
        BY <3>1, <4>1, <4>2
    <3> QED
      BY <3>1, <3>4, <3>6
  <2>10. ASSUME NEW v \in Vcpu, Reset(v) PROVE RingInv'
    BY <2>0, <2>10 DEF Reset, Goto, frames, ThreadTypes
  <2>11. CASE ResetStack \/ StopFlush
    BY <2>1, <2>11 DEF ResetStack, StopFlush, dev, driver, frames
  <2>12. CASE UNCHANGED vars
    BY <2>1, <2>12 DEF vars, dev, driver, frames
  <2> QED
    BY <2>2, <2>3, <2>4, <2>5, <2>6, <2>7, <2>8, <2>9, <2>10, <2>11,
       <2>12 DEF Next, Flush, Runs
<1> QED
  BY <1>1, <1>2, PartsHold, ThreadTypesHold, PTL DEF Spec

(* Every variable keeps its type: above all, the device never feeds a      *)
(* frame without a buffer and never runs past the TX frames published.     *)
THEOREM NetTypeCorrect == Spec => []TypeOK
<1>1. Parts /\ ThreadTypes /\ RingInv => TypeOK
  BY DEF Parts, RingInv, TypeOK
<1> QED
  BY <1>1, PartsHold, ThreadTypesHold, RingInvHolds, PTL
=============================================================================
