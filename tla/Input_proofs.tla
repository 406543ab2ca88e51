----------------------------- MODULE Input_proofs -----------------------------
(***************************************************************************)
(* What Input's run checks on a few reports, proved for any number of      *)
(* reports, parts of a report, buffers and resets, and any cap that holds  *)
(* a report.                                                               *)
(***************************************************************************)
EXTENDS Input, SequenceTheorems, TLAPS

LEMMA Constants ==
  /\ Parts \in Nat \ {0} /\ Size \in Nat \ {0}
  /\ MaxReports \in Nat /\ MaxResets \in Nat
  /\ Cap \in Nat /\ Cap >= Parts
  BY InputAssumption

USE Constants

\* The report an event belongs to.
Report(e) == ((e - 1) \div Parts) + 1

\* mtx_ is held over whole reports, and a device that is not set up owes the
\* driver nothing.
WholeReports ==
  /\ at = "none" <=> mtx = Nobody
  /\ at = "push" => sent < MaxEvent
  /\ at # "push" => sent % Parts = 0
  /\ cleared % Parts = 0
  /\ ~ready => collected = Len(delivered)

\* What is pending are the newest events, and what was delivered is older.
Newest ==
  /\ Len(pending) <= sent - cleared
  /\ \A i \in 1 .. Len(pending) : pending[i] = (sent - Len(pending)) + i
  /\ \A i \in 1 .. Len(delivered) : delivered[i] <= sent - Len(pending)
  /\ \A i, j \in 1 .. Len(delivered) : i < j => delivered[i] < delivered[j]

\* The cap never reaches into the last report.
Kept ==
  \A e \in 1 .. sent :
    e > cleared /\ e > sent - Parts =>
      e > sent - Len(pending) \/ \E i \in 1 .. Len(delivered) : delivered[i] = e

\* What the guest has read of each axis and button is no older than what it
\* collected, and no newer than what was sent.
Seen ==
  /\ \A i \in 1 .. collected :
       delivered[i] > cleared =>
         view[PartOf(delivered[i])] >= Report(delivered[i])
  /\ \A p \in Part : view[p] * Parts < sent + Parts

-----------------------------------------------------------------------------
(* Which report an event belongs to, and which part of it the event is.    *)
LEMMA ReportAndPart ==
  ASSUME NEW e \in Nat \ {0}
  PROVE  /\ Report(e) \in Nat \ {0} /\ PartOf(e) \in Part
         /\ e = (Report(e) - 1) * Parts + PartOf(e)
<1> DEFINE q == (e - 1) \div Parts
           r == (e - 1) % Parts
<1>1. q \in Nat /\ r \in 0 .. Parts - 1 /\ e - 1 = (Parts * q) + r
  <2>1. e - 1 \in Nat /\ Parts \in Nat \ {0}
    OBVIOUS
  <2> QED
    BY <2>1
<1>2. Report(e) = q + 1 /\ PartOf(e) = r + 1
  BY DEF Report, PartOf
<1> HIDE DEF q, r
<1> QED
  BY <1>1, <1>2 DEF Part

LEMMA LaterReport ==
  ASSUME NEW e \in Nat \ {0}, NEW f \in Nat \ {0}, e <= f
  PROVE  Report(e) <= Report(f)
  BY DEF Report

\* The events 1 .. MaxEvent make MaxReports whole reports.
LEMMA ReportBound ==
  ASSUME NEW e \in 1 .. MaxEvent
  PROVE  Report(e) \in 0 .. MaxReports
<1>1. MaxEvent \in Nat /\ e - 1 < Parts * MaxReports
  BY DEF MaxEvent
<1>2. (e - 1) \div Parts \in Nat /\ (e - 1) \div Parts < MaxReports
  BY <1>1
<1> QED
  BY <1>2 DEF Report

LEMMA MaxEventWhole == MaxEvent \in Nat /\ MaxEvent % Parts = 0
  BY DEF MaxEvent

LEMMA Lengths ==
  ASSUME TypeOK
  PROVE  /\ Len(delivered) \in Nat /\ Len(pending) \in 0 .. Cap
         /\ \A i \in 1 .. Len(delivered) : delivered[i] \in 1 .. MaxEvent
         /\ \A i \in 1 .. Len(pending) : pending[i] \in 1 .. MaxEvent
<1>1. delivered \in Seq(1 .. MaxEvent) /\ pending \in Seq(1 .. MaxEvent)
      /\ Len(pending) <= Cap
  BY DEF TypeOK
<1>2. Len(delivered) \in Nat /\ Len(pending) \in Nat
  BY <1>1, LenProperties
<1>3. \A i \in 1 .. Len(delivered) : delivered[i] \in 1 .. MaxEvent
  BY <1>1, ElementOfSeq
<1>4. \A i \in 1 .. Len(pending) : pending[i] \in 1 .. MaxEvent
  BY <1>1, ElementOfSeq
<1> QED
  BY <1>1, <1>2, <1>3, <1>4

-----------------------------------------------------------------------------
(* What each step does to the queues. *)

LEMMA PushEffect ==
  ASSUME TypeOK, WholeReports, Push
  PROVE  /\ sent' = sent + 1 /\ sent' \in 1 .. MaxEvent
         /\ pending' \in Seq(1 .. MaxEvent)
         /\ Len(pending') = IF Len(pending) = Cap THEN Cap ELSE Len(pending) + 1
         /\ pending'[Len(pending')] = sent + 1
         /\ \A i \in 1 .. Len(pending') - 1 :
              pending'[i] = IF Len(pending) = Cap THEN pending[i + 1]
                            ELSE pending[i]
<1> DEFINE q == Append(pending, sent + 1)
           Event == 1 .. MaxEvent
<1>1. sent' = sent + 1 /\ sent + 1 \in Event
      /\ pending' = IF Len(q) > Cap THEN Tail(q) ELSE q
  BY DEF TypeOK, WholeReports, Push, Pushed, MaxEvent
<1>2. pending \in Seq(Event) /\ Len(pending) \in 0 .. Cap
  BY LenProperties DEF TypeOK
<1> HIDE DEF Event
<1>3. /\ q \in Seq(Event) /\ q # <<>> /\ Len(q) = Len(pending) + 1
      /\ \A i \in 1 .. Len(pending) : q[i] = pending[i]
      /\ q[Len(pending) + 1] = sent + 1
  BY <1>1, <1>2, AppendProperties
<1>4. /\ Tail(q) \in Seq(Event) /\ Len(Tail(q)) = Len(q) - 1
      /\ \A i \in 1 .. Len(Tail(q)) : Tail(q)[i] = q[i + 1]
  BY <1>3, HeadTailProperties
<1> HIDE DEF q
<1>5. CASE Len(pending) = Cap
  <2>1. pending' = Tail(q) /\ Len(pending') = Cap /\ Cap \in Nat \ {0}
    BY <1>1, <1>3, <1>4, <1>5
  <2>2. pending'[Cap] = sent + 1
    BY <1>3, <1>4, <1>5, <2>1
  <2>3. \A i \in 1 .. Cap - 1 : pending'[i] = pending[i + 1]
    BY <1>3, <1>4, <1>5, <2>1
  <2>4. pending' \in Seq(Event)
    BY <1>4, <2>1
  <2> QED
    BY <1>1, <1>5, <2>1, <2>2, <2>3, <2>4 DEF Event
<1>6. CASE Len(pending) # Cap
  <2>1. pending' = q /\ Len(pending') = Len(pending) + 1
    BY <1>1, <1>2, <1>3, <1>6
  <2> QED
    BY <1>1, <1>2, <1>3, <1>6, <2>1 DEF Event
<1> QED
  BY <1>5, <1>6

LEMMA FlushEffect ==
  ASSUME TypeOK, FlushTurn
  PROVE  /\ Len(pending) > 0 /\ pending' \in Seq(1 .. MaxEvent)
         /\ Len(pending') = Len(pending) - 1
         /\ \A i \in 1 .. Len(pending') : pending'[i] = pending[i + 1]
         /\ delivered' \in Seq(1 .. MaxEvent)
         /\ Len(delivered') = Len(delivered) + 1
         /\ \A i \in 1 .. Len(delivered) : delivered'[i] = delivered[i]
         /\ delivered'[Len(delivered')] = pending[1]
<1> DEFINE Event == 1 .. MaxEvent
<1>1. pending \in Seq(Event) /\ pending # <<>> /\ delivered \in Seq(Event)
      /\ pending' = Tail(pending) /\ delivered' = Append(delivered, Head(pending))
  BY DEF TypeOK, FlushTurn, CanFlush
<1> HIDE DEF Event
<1>2. /\ Len(pending) \in Nat \ {0} /\ Head(pending) \in Event
      /\ Head(pending) = pending[1]
      /\ Tail(pending) \in Seq(Event) /\ Len(Tail(pending)) = Len(pending) - 1
      /\ \A i \in 1 .. Len(Tail(pending)) : Tail(pending)[i] = pending[i + 1]
  BY <1>1, EmptySeq, HeadTailProperties
<1>3. /\ Append(delivered, Head(pending)) \in Seq(Event)
      /\ Len(Append(delivered, Head(pending))) = Len(delivered) + 1
      /\ \A i \in 1 .. Len(delivered) :
           Append(delivered, Head(pending))[i] = delivered[i]
      /\ Append(delivered, Head(pending))[Len(delivered) + 1] = Head(pending)
  BY <1>1, <1>2, AppendProperties
<1> QED
  BY <1>1, <1>2, <1>3 DEF Event

LEMMA CollectEffect ==
  ASSUME TypeOK, Collect
  PROVE  LET e == delivered[collected'] IN
         /\ collected' = collected + 1 /\ collected' \in 1 .. Len(delivered)
         /\ e \in 1 .. MaxEvent
         /\ view' = [view EXCEPT ![PartOf(e)] = Report(e)]
<1>1. Len(delivered) \in Nat
  BY LenProperties DEF TypeOK
<1>2. collected' = collected + 1 /\ collected' \in 1 .. Len(delivered)
  BY <1>1 DEF TypeOK, Collect
<1>3. delivered[collected'] \in 1 .. MaxEvent
  BY <1>2, ElementOfSeq DEF TypeOK
<1> QED
  BY <1>2, <1>3 DEF Collect, Report

-----------------------------------------------------------------------------
\* The type invariant in three parts: the queues, the numbers, the rest.
QueueTypes ==
  /\ pending \in Seq(1 .. MaxEvent) /\ Len(pending) <= Cap
  /\ delivered \in Seq(1 .. MaxEvent)

CountTypes ==
  /\ posted \in 0 .. Size /\ collected \in 0 .. Len(delivered)
  /\ posted + Len(delivered) - collected <= Size
  /\ sent \in 0 .. MaxEvent /\ cleared \in 0 .. sent
  /\ resets \in 0 .. MaxResets

ControlTypes ==
  /\ mtx \in {Nobody, "sender", "driver"} /\ at \in {"none", "push", "flush"}
  /\ injected \in BOOLEAN /\ ready \in BOOLEAN /\ irqStatus \in {0, 1}
  /\ spi \in BOOLEAN
  /\ drv \in {"idle", "kick", "kicking"} \cup Handling
  /\ view \in [Part -> 0 .. MaxReports]

LEMMA TypeParts == TypeOK <=> QueueTypes /\ CountTypes /\ ControlTypes
<1>1. ASSUME QueueTypes \/ TypeOK PROVE Len(delivered) \in Nat
  BY <1>1, LenProperties DEF QueueTypes, TypeOK
<1>2. ASSUME Len(delivered) \in Nat, posted \in Nat, collected \in Nat
      PROVE  posted + Uncollected = posted + Len(delivered) - collected
  BY <1>2 DEF Uncollected
<1>3. ASSUME TypeOK PROVE QueueTypes /\ ControlTypes /\ CountTypes
  <2>1. posted \in Nat /\ collected \in Nat
    BY <1>1, <1>3 DEF TypeOK
  <2> QED
    BY <1>1, <1>2, <1>3, <2>1 DEF TypeOK, QueueTypes, ControlTypes, CountTypes
<1>4. ASSUME QueueTypes, CountTypes, ControlTypes PROVE TypeOK
  <2>1. posted \in Nat /\ collected \in Nat
    BY <1>1, <1>4 DEF CountTypes
  <2> QED
    BY <1>1, <1>2, <1>4, <2>1 DEF TypeOK, QueueTypes, ControlTypes, CountTypes
<1> QED
  BY <1>3, <1>4

LEMMA TypesHold == Spec => [](TypeOK /\ WholeReports)
<1> USE DEF device, driver, events
<1>1. Init => TypeOK /\ WholeReports
  <2>1. ASSUME Init PROVE QueueTypes /\ CountTypes /\ ControlTypes
    <3>1. <<>> \in Seq(1 .. MaxEvent) /\ Len(<<>>) = 0
      BY EmptySeq
    <3>2. QueueTypes
      BY <2>1, <3>1 DEF Init, QueueTypes
    <3>3. CountTypes
      BY <2>1, <3>1, MaxEventWhole DEF Init, CountTypes
    <3>4. view \in [Part -> 0 .. MaxReports]
      BY <2>1 DEF Init
    <3>5. ControlTypes
      BY <2>1, <3>4 DEF Init, ControlTypes, Handling, Nobody
    <3> QED
      BY <3>2, <3>3, <3>5
  <2>2. ASSUME Init PROVE WholeReports
    BY <2>2, EmptySeq DEF Init, WholeReports, Nobody
  <2> QED
    BY <2>1, <2>2, TypeParts
<1>2. TypeOK /\ WholeReports /\ [Next]_vars
        => (QueueTypes /\ CountTypes /\ ControlTypes)' /\ WholeReports'
  <2> SUFFICES ASSUME TypeOK, WholeReports, [Next]_vars
               PROVE  (QueueTypes /\ CountTypes /\ ControlTypes)' /\ WholeReports'
    OBVIOUS
  <2>0. /\ Len(delivered) \in Nat /\ Len(pending) \in Nat /\ MaxEvent \in Nat
        /\ MaxEvent % Parts = 0
        /\ QueueTypes /\ CountTypes /\ ControlTypes
    BY Lengths, MaxEventWhole, TypeParts
  <2>1. CASE SendPointer
    BY <2>0, <2>1 DEF SendPointer, QueueTypes, CountTypes, ControlTypes,
       WholeReports, Nobody
  <2>2. CASE Push
    <3>1. UNCHANGED <<injected, ready, irqStatus, spi, drv, posted, collected,
                      view, resets, delivered, cleared, mtx>>
      BY <2>2 DEF Push, Pushed
    <3>2. at = "push" /\ at' = IF sent' % Parts = 0 THEN "flush" ELSE "push"
      BY <2>2 DEF Push, Pushed
    <3>3. Len(pending') \in 0 .. Cap /\ pending' \in Seq(1 .. MaxEvent)
          /\ sent' = sent + 1 /\ sent' \in 1 .. MaxEvent
      BY <2>0, <2>2, PushEffect DEF QueueTypes
    <3>4. QueueTypes'
      BY <2>0, <3>1, <3>3 DEF QueueTypes
    <3>5. CountTypes'
      BY <2>0, <3>1, <3>3 DEF CountTypes
    <3>6. ControlTypes'
      BY <2>0, <3>1, <3>2 DEF ControlTypes
    <3>7. WholeReports'
      BY <2>0, <3>1, <3>2, <3>3 DEF WholeReports, Nobody, CountTypes
    <3> QED
      BY <3>4, <3>5, <3>6, <3>7
  <2>3. CASE FlushTurn
    <3>1. /\ UNCHANGED <<mtx, at, ready, irqStatus, spi, drv, collected, view,
                         resets, sent, cleared>>
          /\ posted > 0 /\ posted' = posted - 1 /\ injected' = TRUE /\ ready
      BY <2>3 DEF FlushTurn, CanFlush
    <3>2. /\ pending' \in Seq(1 .. MaxEvent) /\ Len(pending') = Len(pending) - 1
          /\ delivered' \in Seq(1 .. MaxEvent)
          /\ Len(delivered') = Len(delivered) + 1
      BY <2>3, FlushEffect
    <3>3. QueueTypes'
      BY <2>0, <3>2 DEF QueueTypes
    <3>4. CountTypes'
      BY <2>0, <3>1, <3>2 DEF CountTypes
    <3>5. ControlTypes' /\ WholeReports'
      BY <2>0, <3>1 DEF ControlTypes, WholeReports
    <3> QED
      BY <3>3, <3>4, <3>5
  <2>4. CASE FlushEnds
    <3>1. at = "flush" /\ mtx' = Nobody /\ at' = "none"
          /\ UNCHANGED <<pending, ready, posted, collected, view, resets, events>>
      BY <2>4 DEF FlushEnds
    <3>2. ControlTypes'
      BY <2>0, <2>4, <3>1 DEF FlushEnds, ControlTypes
    <3>3. WholeReports' /\ QueueTypes' /\ CountTypes'
      BY <2>0, <3>1 DEF QueueTypes, CountTypes, WholeReports, Nobody
    <3> QED
      BY <3>2, <3>3
  <2>5. CASE Probe \/ TakeIrq \/ Waits \/ ScanDone
    <3>1. UNCHANGED <<pending, injected, collected, view, resets, sent,
                      delivered, cleared>>
      BY <2>5 DEF Probe, TakeIrq, Waits, Kick, ReadIrqStatus, AckIrq, ScanDone
    <3>2. QueueTypes'
      BY <2>0, <3>1 DEF QueueTypes
    <3>3. CASE Probe
      <4>1. ~ready /\ ready' = TRUE /\ posted' = Size /\ drv' = "kick"
            /\ UNCHANGED <<mtx, at, irqStatus, spi>>
        BY <3>3 DEF Probe, DriverGoes
      <4>2. CountTypes'
        BY <2>0, <3>1, <4>1 DEF CountTypes, WholeReports
      <4> QED
        BY <2>0, <3>1, <3>2, <4>1, <4>2 DEF ControlTypes, WholeReports
    <3>4. CASE TakeIrq \/ Waits \/ ScanDone
      <4>1. UNCHANGED <<posted, ready>>
        BY <3>4 DEF TakeIrq, Waits, Kick, ReadIrqStatus, AckIrq, ScanDone
      <4>2. CountTypes'
        BY <2>0, <3>1, <4>1 DEF CountTypes
      <4>3. ControlTypes' /\ WholeReports'
        BY <2>0, <3>1, <3>4, <4>1
           DEF TakeIrq, Waits, Kick, ReadIrqStatus, AckIrq, ScanDone, DriverGoes,
               ControlTypes, WholeReports, Handling, Nobody
      <4> QED
        BY <3>2, <4>2, <4>3
    <3> QED
      BY <2>5, <3>3, <3>4
  <2>6. CASE Collect
    <3> DEFINE e == delivered[collected']
    <3>1. /\ UNCHANGED <<pending, mtx, at, injected, ready, irqStatus, spi,
                         resets, sent, delivered, cleared>>
          /\ posted' = posted + 1 /\ drv' = "irq_scan"
          /\ collected < Len(delivered)
      BY <2>6 DEF Collect, DriverGoes
    <3>2. /\ collected' = collected + 1 /\ collected' \in 1 .. Len(delivered)
          /\ view' = [view EXCEPT ![PartOf(e)] = Report(e)]
          /\ e \in 1 .. MaxEvent
      BY <2>6, CollectEffect
    <3> HIDE DEF e
    <3>3. Report(e) \in 0 .. MaxReports /\ PartOf(e) \in Part
      BY <2>0, <3>2, ReportBound, ReportAndPart
    <3>4. QueueTypes'
      BY <2>0, <3>1 DEF QueueTypes
    <3>5. CountTypes'
      BY <2>0, <3>1, <3>2 DEF CountTypes
    <3>6. ControlTypes'
      BY <2>0, <3>1, <3>2, <3>3 DEF ControlTypes, Handling
    <3>7. WholeReports'
      BY <2>0, <3>1 DEF WholeReports, CountTypes
    <3> QED
      BY <3>4, <3>5, <3>6, <3>7
  <2>7. CASE Reset
    <3>1. /\ mtx = Nobody /\ pending' = <<>> /\ ready' = FALSE /\ irqStatus' = 0
          /\ posted' = 0 /\ collected' = Len(delivered) /\ cleared' = sent
          /\ drv' = "idle" /\ resets < MaxResets /\ resets' = resets + 1
          /\ UNCHANGED <<mtx, at, injected, spi, view, sent, delivered>>
      BY <2>7 DEF Reset, DriverGoes
    <3>2. <<>> \in Seq(1 .. MaxEvent) /\ Len(<<>>) = 0
      BY EmptySeq
    <3>3. QueueTypes'
      BY <2>0, <3>1, <3>2 DEF QueueTypes
    <3>4. CountTypes'
      BY <2>0, <3>1 DEF CountTypes
    <3>5. ControlTypes' /\ WholeReports'
      BY <2>0, <3>1 DEF ControlTypes, WholeReports, Nobody
    <3> QED
      BY <3>3, <3>4, <3>5
  <2>8. CASE UNCHANGED vars
    BY <2>0, <2>8 DEF vars, QueueTypes, CountTypes, ControlTypes, WholeReports
  <2> QED
    BY <2>1, <2>2, <2>3, <2>4, <2>5, <2>6, <2>7, <2>8 DEF Next, Holder, Runs
<1> QED
  BY <1>1, <1>2, TypeParts, PTL DEF Spec

(* Every variable keeps its type: the deque never exceeds its cap, and the *)
(* device never uses a buffer it was not offered.                          *)
THEOREM InputTypeCorrect == Spec => []TypeOK
  BY TypesHold, PTL

-----------------------------------------------------------------------------
LEMMA NewestHolds == Spec => []Newest
<1> USE DEF device, driver, events
<1>1. Init => Newest
  BY DEF Init, Newest
<1>2. TypeOK /\ WholeReports /\ Newest /\ [Next]_vars => Newest'
  <2> SUFFICES ASSUME TypeOK, WholeReports, Newest, [Next]_vars PROVE Newest'
    OBVIOUS
  <2>0. /\ Len(delivered) \in Nat /\ Len(pending) \in 0 .. Cap
        /\ sent \in Nat /\ cleared \in 0 .. sent
        /\ \A i \in 1 .. Len(delivered) : delivered[i] \in Nat
    BY Lengths, MaxEventWhole DEF TypeOK
  <2>1. ASSUME UNCHANGED <<pending, sent, delivered, cleared>> PROVE Newest'
    BY <2>1 DEF Newest
  <2>2. CASE Push
    <3>1. cleared' = cleared /\ delivered' = delivered
      BY <2>2 DEF Push, Pushed
    <3> DEFINE n == Len(pending)
               m == Len(pending')
    <3>2. /\ m = IF n = Cap THEN Cap ELSE n + 1
          /\ pending'[m] = sent + 1 /\ sent' = sent + 1
          /\ \A i \in 1 .. m - 1 :
               pending'[i] = IF n = Cap THEN pending[i + 1] ELSE pending[i]
      BY <2>2, PushEffect
    <3>3. n \in 0 .. Cap /\ n <= sent - cleared
          /\ \A i \in 1 .. n : pending[i] = (sent - n) + i
      BY <2>0 DEF Newest
    <3> HIDE DEF n, m
    <3>4. m \in Nat /\ sent + 1 - m >= sent - n /\ m <= sent + 1 - cleared
      BY <2>0, <3>2, <3>3
    <3>5. ASSUME NEW i \in 1 .. m PROVE pending'[i] = (sent + 1 - m) + i
      <4>1. CASE i = m
        BY <2>0, <3>2, <3>4, <4>1
      <4>2. CASE i # m /\ n = Cap
        <5>1. i \in 1 .. m - 1 /\ i + 1 \in 1 .. n
          BY <2>0, <3>2, <3>3, <4>2
        <5> QED
          BY <2>0, <3>2, <3>3, <4>2, <5>1
      <4>3. CASE i # m /\ n # Cap
        <5>1. i \in 1 .. m - 1 /\ i \in 1 .. n
          BY <2>0, <3>2, <3>3, <4>3
        <5> QED
          BY <2>0, <3>2, <3>3, <4>3, <5>1
      <4> QED
        BY <4>1, <4>2, <4>3
    <3>6. \A i \in 1 .. Len(delivered) : delivered[i] <= sent + 1 - m
      BY <2>0, <3>3, <3>4 DEF Newest, n
    <3>7. m = Len(pending')
      BY DEF m
    <3>8. Len(pending') <= sent' - cleared'
      BY <2>0, <3>1, <3>2, <3>4, <3>7
    <3>9. ASSUME NEW i \in 1 .. Len(pending')
          PROVE  pending'[i] = (sent' - Len(pending')) + i
      BY <2>0, <3>2, <3>5, <3>7, SMTT(30)
    <3>10. ASSUME NEW i \in 1 .. Len(delivered')
           PROVE  delivered'[i] <= sent' - Len(pending')
      BY <2>0, <3>1, <3>2, <3>6, <3>7
    <3>11. \A i, j \in 1 .. Len(delivered') :
             i < j => delivered'[i] < delivered'[j]
      BY <3>1 DEF Newest
    <3> QED
      BY <3>8, <3>9, <3>10, <3>11 DEF Newest
  <2>3. CASE FlushTurn
    <3> DEFINE n == Len(pending)
               k == Len(delivered)
    <3>1. sent' = sent /\ cleared' = cleared
      BY <2>3 DEF FlushTurn
    <3>2. /\ n > 0 /\ Len(pending') = n - 1 /\ Len(delivered') = k + 1
          /\ \A i \in 1 .. n - 1 : pending'[i] = pending[i + 1]
          /\ \A i \in 1 .. k : delivered'[i] = delivered[i]
          /\ delivered'[k + 1] = pending[1]
      BY <2>3, FlushEffect
    <3>3. /\ n \in Nat /\ k \in Nat /\ n <= sent - cleared
          /\ \A i \in 1 .. n : pending[i] = (sent - n) + i
          /\ \A i \in 1 .. k : delivered[i] \in Nat /\ delivered[i] <= sent - n
          /\ \A i, j \in 1 .. k : i < j => delivered[i] < delivered[j]
      BY <2>0 DEF Newest
    <3> HIDE DEF n, k
    <3>4. pending[1] = (sent - n) + 1
      BY <3>2, <3>3
    <3>5. \A i \in 1 .. n - 1 : pending'[i] = (sent - (n - 1)) + i
      BY <2>0, <3>2, <3>3
    <3>6. ASSUME NEW i \in 1 .. k + 1
          PROVE  delivered'[i] <= sent - (n - 1)
      <4>1. CASE i = k + 1
        BY <2>0, <3>2, <3>3, <3>4, <4>1
      <4>2. CASE i # k + 1
        <5>1. i \in 1 .. k /\ delivered'[i] = delivered[i]
          BY <3>2, <3>3, <4>2
        <5> QED
          BY <2>0, <3>3, <5>1
      <4> QED
        BY <4>1, <4>2
    <3>7. ASSUME NEW i \in 1 .. k + 1, NEW j \in 1 .. k + 1, i < j
          PROVE  delivered'[i] < delivered'[j]
      <4>1. i \in 1 .. k /\ delivered'[i] = delivered[i]
            /\ delivered[i] \in Nat /\ delivered[i] <= sent - n
        BY <3>2, <3>3, <3>7
      <4>2. CASE j = k + 1
        BY <2>0, <3>2, <3>3, <3>4, <4>1, <4>2
      <4>3. CASE j # k + 1
        <5>1. j \in 1 .. k /\ delivered'[j] = delivered[j]
          BY <3>2, <3>3, <4>3
        <5> QED
          BY <3>3, <3>7, <4>1, <5>1
      <4> QED
        BY <4>2, <4>3
    <3>8. n - 1 <= sent - cleared
      BY <2>0, <3>3
    <3> QED
      BY <3>1, <3>2, <3>5, <3>6, <3>7, <3>8 DEF Newest
  <2>4. CASE Reset
    <3>1. pending' = <<>> /\ sent' = sent /\ cleared' = sent
          /\ delivered' = delivered
      BY <2>4 DEF Reset
    <3> QED
      BY <2>0, <3>1 DEF Newest
  <2>5. CASE SendPointer \/ FlushEnds \/ Probe \/ TakeIrq \/ Waits \/ Runs
    BY <2>1, <2>5 DEF SendPointer, FlushEnds, Probe, TakeIrq, Waits, Kick,
       ReadIrqStatus, AckIrq, Runs, Collect, ScanDone
  <2>6. CASE UNCHANGED vars
    BY <2>1, <2>6 DEF vars
  <2> QED
    BY <2>2, <2>3, <2>4, <2>5, <2>6 DEF Next, Holder
<1> QED
  BY <1>1, <1>2, TypesHold, PTL DEF Spec

-----------------------------------------------------------------------------
LEMMA KeptHolds == Spec => []Kept
<1> USE DEF device, driver, events
<1>1. Init => Kept
  BY DEF Init, Kept
<1>2. TypeOK /\ WholeReports /\ Newest /\ Kept /\ [Next]_vars => Kept'
  <2> SUFFICES ASSUME TypeOK, WholeReports, Newest, Kept, [Next]_vars PROVE Kept'
    OBVIOUS
  <2>0. /\ Len(delivered) \in Nat /\ Len(pending) \in 0 .. Cap
        /\ sent \in Nat /\ cleared \in 0 .. sent
    BY Lengths, MaxEventWhole DEF TypeOK
  <2>1. ASSUME UNCHANGED <<pending, sent, delivered, cleared>> PROVE Kept'
    BY <2>1 DEF Kept
  <2>2. CASE Push
    <3>1. cleared' = cleared /\ delivered' = delivered
      BY <2>2 DEF Push, Pushed
    <3>2. /\ Len(pending') = IF Len(pending) = Cap THEN Cap ELSE Len(pending) + 1
          /\ sent' = sent + 1
      BY <2>2, PushEffect
    <3>3. ASSUME NEW e \in 1 .. sent + 1, e > cleared, e > sent + 1 - Parts,
                 e <= sent + 1 - Len(pending')
          PROVE  \E i \in 1 .. Len(delivered) : delivered[i] = e
      <4>1. e \in 1 .. sent /\ e > sent - Parts /\ e <= sent - Len(pending)
        BY <2>0, <3>2, <3>3
      <4> QED
        BY <2>0, <3>3, <4>1 DEF Kept
    <3>4. ASSUME NEW e \in 1 .. sent'
          PROVE  e > cleared' /\ e > sent' - Parts =>
                   \/ e > sent' - Len(pending')
                   \/ \E i \in 1 .. Len(delivered') : delivered'[i] = e
      <4>1. cleared' = cleared /\ sent' = sent + 1
            /\ Len(delivered') = Len(delivered) /\ Len(pending') \in Nat
        BY <2>0, <3>1, <3>2
      <4>2. e \in Nat /\ e \in 1 .. sent + 1
        BY <4>1
      <4>3. (e > cleared /\ e > sent + 1 - Parts => e > sent + 1 - Len(pending'))
            \/ \E i \in 1 .. Len(delivered) : delivered[i] = e
        BY <2>0, <3>3, <4>1, <4>2
      <4>4. (\E i \in 1 .. Len(delivered) : delivered[i] = e)
              => \E i \in 1 .. Len(delivered') : delivered'[i] = e
        BY <3>1
      <4>5. e > cleared' /\ e > sent' - Parts =>
              (e > sent' - Len(pending')
               \/ \E i \in 1 .. Len(delivered) : delivered[i] = e)
        BY <2>0, <4>1, <4>2, <4>3
      <4> QED
        BY <4>4, <4>5
    <3> QED
      BY <3>4 DEF Kept
  <2>3. CASE FlushTurn
    <3> DEFINE n == Len(pending)
               k == Len(delivered)
    <3>1. sent' = sent /\ cleared' = cleared
      BY <2>3 DEF FlushTurn
    <3>2. /\ n > 0 /\ Len(pending') = n - 1 /\ Len(delivered') = k + 1
          /\ \A i \in 1 .. k : delivered'[i] = delivered[i]
          /\ delivered'[k + 1] = pending[1]
      BY <2>3, FlushEffect
    <3>3. pending[1] = (sent - n) + 1
      BY <2>0, <3>2 DEF Newest
    <3>4. ASSUME NEW e \in 1 .. sent, e > cleared, e > sent - Parts,
                 e <= sent - (n - 1)
          PROVE  \E i \in 1 .. k + 1 : delivered'[i] = e
      <4>1. CASE e = (sent - n) + 1
        <5>1. k + 1 \in 1 .. k + 1 /\ delivered'[k + 1] = e
          BY <2>0, <3>2, <3>3, <4>1
        <5> QED
          BY <5>1
      <4>2. CASE e # (sent - n) + 1
        <5>1. e <= sent - n
          BY <2>0, <4>2, <3>4
        <5>2. PICK i \in 1 .. k : delivered[i] = e
          BY <2>0, <3>4, <5>1 DEF Kept
        <5>3. i \in 1 .. k + 1 /\ delivered'[i] = e
          BY <2>0, <3>2, <5>2
        <5> QED
          BY <5>3
      <4> QED
        BY <4>1, <4>2
    <3>5. ASSUME NEW e \in 1 .. sent'
          PROVE  e > cleared' /\ e > sent' - Parts =>
                   \/ e > sent' - Len(pending')
                   \/ \E i \in 1 .. Len(delivered') : delivered'[i] = e
      BY <2>0, <3>1, <3>2, <3>4
    <3> QED
      BY <3>5 DEF Kept
  <2>4. CASE Reset
    <3>1. sent' = sent /\ cleared' = sent
      BY <2>4 DEF Reset
    <3> QED
      BY <2>0, <3>1 DEF Kept
  <2>5. CASE SendPointer \/ FlushEnds \/ Probe \/ TakeIrq \/ Waits \/ Runs
    BY <2>1, <2>5 DEF SendPointer, FlushEnds, Probe, TakeIrq, Waits, Kick,
       ReadIrqStatus, AckIrq, Runs, Collect, ScanDone
  <2>6. CASE UNCHANGED vars
    BY <2>1, <2>6 DEF vars
  <2> QED
    BY <2>2, <2>3, <2>4, <2>5, <2>6 DEF Next, Holder
<1> QED
  BY <1>1, <1>2, TypesHold, NewestHolds, PTL DEF Spec

-----------------------------------------------------------------------------
LEMMA SeenHolds == Spec => []Seen
<1> USE DEF device, driver, events
<1>1. Init => Seen
  BY DEF Init, Seen
<1>2. TypeOK /\ WholeReports /\ Newest /\ Seen /\ [Next]_vars => Seen'
  <2> SUFFICES ASSUME TypeOK, WholeReports, Newest, Seen, [Next]_vars PROVE Seen'
    OBVIOUS
  <2>0. /\ Len(delivered) \in Nat /\ Len(pending) \in Nat
        /\ \A i \in 1 .. Len(delivered) :
             delivered[i] \in Nat \ {0} /\ delivered[i] <= sent
        /\ sent \in Nat /\ cleared \in 0 .. sent
        /\ collected \in 0 .. Len(delivered)
        /\ view \in [Part -> Nat]
    <3>1. sent \in Nat /\ cleared \in 0 .. sent /\ collected \in 0 .. Len(delivered)
          /\ view \in [Part -> Nat]
      BY MaxEventWhole DEF TypeOK
    <3> QED
      BY <3>1, Lengths, MaxEventWhole DEF Newest
  <2>1. ASSUME UNCHANGED <<sent, delivered, cleared, collected, view>> PROVE Seen'
    BY <2>1 DEF Seen
  <2>2. CASE Push
    <3>1. UNCHANGED <<delivered, cleared, collected, view>> /\ sent' = sent + 1
      BY <2>2, PushEffect DEF Push, Pushed
    <3>2. ASSUME NEW p \in Part PROVE view'[p] * Parts < sent' + Parts
      <4>1. view[p] \in Nat /\ view[p] * Parts \in Nat
        BY <2>0
      <4>2. view[p] * Parts < sent + Parts
        BY DEF Seen
      <4> QED
        BY <2>0, <3>1, <4>1, <4>2
    <3> QED
      BY <3>1, <3>2 DEF Seen
  <2>3. CASE FlushTurn
    <3>1. UNCHANGED <<sent, cleared, collected, view>>
      BY <2>3 DEF FlushTurn
    <3>2. \A i \in 1 .. collected : delivered'[i] = delivered[i]
      BY <2>0, <2>3, FlushEffect
    <3> QED
      BY <3>1, <3>2 DEF Seen
  <2>4. CASE Collect
    <3> DEFINE c == collected + 1
               e == delivered[c]
    <3>1. /\ UNCHANGED <<sent, delivered, cleared>> /\ collected' = c
          /\ c \in 1 .. Len(delivered)
          /\ view' = [view EXCEPT ![PartOf(e)] = Report(e)]
      BY <2>4, CollectEffect DEF Collect
    <3>2. e \in Nat \ {0} /\ e <= sent
      BY <2>0, <3>1
    <3>3. /\ Report(e) \in Nat \ {0} /\ PartOf(e) \in Part
          /\ e = (Report(e) - 1) * Parts + PartOf(e)
      BY <3>2, ReportAndPart
    <3>4. ASSUME NEW p \in Part PROVE view'[p] * Parts < sent' + Parts
      <4>1. CASE p = PartOf(e)
        <5>1. view'[p] = Report(e)
          BY <2>0, <3>1, <4>1
        <5>2. Report(e) * Parts < sent + Parts
          BY <2>0, <3>2, <3>3 DEF Part
        <5> QED
          BY <3>1, <5>1, <5>2
      <4>2. CASE p # PartOf(e)
        BY <2>0, <3>1, <4>2 DEF Seen
      <4> QED
        BY <4>1, <4>2
    <3>5. ASSUME NEW i \in 1 .. c, delivered[i] > cleared
          PROVE  view'[PartOf(delivered[i])] >= Report(delivered[i])
      <4>1. delivered[i] \in Nat \ {0} /\ delivered[i] <= e
        BY <2>0, <3>1, SMTT(30) DEF Newest
      <4>2. PartOf(delivered[i]) \in Part /\ Report(delivered[i]) \in Nat
        BY <4>1, ReportAndPart
      <4>3. CASE PartOf(delivered[i]) = PartOf(e)
        <5>1. view'[PartOf(delivered[i])] = Report(e)
          BY <2>0, <3>1, <3>3, <4>3
        <5>2. Report(delivered[i]) <= Report(e)
          BY <3>2, <4>1, LaterReport
        <5> QED
          BY <3>3, <4>2, <5>1, <5>2
      <4>4. CASE PartOf(delivered[i]) # PartOf(e)
        <5>1. i \in 1 .. collected
          BY <2>0, <3>1, <4>4
        <5>2. view'[PartOf(delivered[i])] = view[PartOf(delivered[i])]
          BY <2>0, <3>1, <4>2, <4>4
        <5> QED
          BY <3>5, <5>1, <5>2 DEF Seen
      <4> QED
        BY <4>3, <4>4
    <3>6. collected' = c
      BY <3>1
    <3> HIDE DEF c, e
    <3> QED
      BY <3>1, <3>4, <3>5, <3>6 DEF Seen
  <2>5. CASE Reset
    <3>1. UNCHANGED <<sent, view, delivered>> /\ cleared' = sent
          /\ collected' = Len(delivered)
      BY <2>5 DEF Reset
    <3> QED
      BY <2>0, <3>1 DEF Seen
  <2>6. CASE SendPointer \/ FlushEnds \/ Probe \/ TakeIrq \/ Waits \/ ScanDone
    BY <2>1, <2>6 DEF SendPointer, FlushEnds, Probe, TakeIrq, Waits, Kick,
       ReadIrqStatus, AckIrq, ScanDone
  <2>7. CASE UNCHANGED vars
    BY <2>1, <2>7 DEF vars
  <2> QED
    BY <2>2, <2>3, <2>4, <2>5, <2>6, <2>7 DEF Next, Holder, Runs
<1> QED
  BY <1>1, <1>2, TypesHold, NewestHolds, PTL DEF Spec

-----------------------------------------------------------------------------
(* However many events the cap drops: once nothing is pending or to be     *)
(* collected, the guest has every axis and button of the newest report.    *)
THEOREM LatestWins == Spec => []LatestReportWins
<1>1. TypeOK /\ WholeReports /\ Kept /\ Seen => LatestReportWins
  <2> SUFFICES ASSUME TypeOK, WholeReports, Kept, Seen,
                      pending = <<>>, at = "none", Uncollected = 0, sent > cleared
               PROVE  view = [p \in Part |-> sent \div Parts]
    BY DEF LatestReportWins
  <2> DEFINE R == sent \div Parts
  <2>1. /\ sent \in Nat /\ cleared \in 0 .. sent /\ view \in [Part -> Nat]
        /\ Len(delivered) \in Nat /\ collected = Len(delivered)
        /\ Len(pending) = 0
    <3>1. Len(delivered) \in Nat /\ collected \in 0 .. Len(delivered)
      BY Lengths DEF TypeOK
    <3>2. Len(pending) = 0
      BY EmptySeq
    <3> QED
      BY <3>1, <3>2, MaxEventWhole DEF TypeOK, Uncollected
  <2>2. R \in Nat \ {0} /\ sent = Parts * R /\ cleared <= sent - Parts
    <3>1. sent % Parts = 0 /\ cleared % Parts = 0
      BY DEF WholeReports
    <3>2. R \in Nat /\ sent = Parts * R
      BY <2>1, <3>1
    <3>3. cleared \div Parts \in Nat /\ cleared = Parts * (cleared \div Parts)
      BY <2>1, <3>1
    <3> HIDE DEF R
    <3>4. cleared \div Parts <= R - 1
      BY <2>1, <3>2, <3>3
    <3>5. Parts * (cleared \div Parts) <= Parts * (R - 1)
      BY <3>2, <3>3, <3>4
    <3> QED
      BY <2>1, <3>2, <3>3, <3>4, <3>5
  <2> HIDE DEF R
  <2>3. ASSUME NEW p \in Part PROVE view[p] = R
    <3> DEFINE e == (Parts * (R - 1)) + p
    <3>1. p \in Nat \ {0} /\ p <= Parts /\ Parts * (R - 1) \in Nat
          /\ Parts * (R - 1) = sent - Parts
      BY <2>1, <2>2 DEF Part
    <3>2. e \in 1 .. sent /\ e > cleared /\ e > sent - Parts /\ ~(e > sent - 0)
      BY <2>1, <2>2, <3>1
    <3>3. (e - 1) \div Parts = R - 1 /\ (e - 1) % Parts = p - 1
      <4> DEFINE q == R - 1
                 r == p - 1
      <4>1. q \in Nat /\ r \in 0 .. Parts - 1
        BY <2>2, <3>1
      <4>2. e - 1 = (Parts * q) + r
        BY <3>1
      <4> HIDE DEF e, q, r
      <4>3. ((Parts * q) + r) \div Parts = q /\ ((Parts * q) + r) % Parts = r
        BY <4>1
      <4> QED
        BY <4>2, <4>3 DEF q, r
    <3>4. Report(e) = R /\ PartOf(e) = p
      BY <2>2, <3>1, <3>3 DEF Report, PartOf
    <3> HIDE DEF e
    <3>5. PICK i \in 1 .. Len(delivered) : delivered[i] = e
      BY <2>1, <3>2 DEF Kept
    <3>6. view[p] >= R
      BY <2>1, <3>2, <3>4, <3>5 DEF Seen
    <3>7. view[p] \in Nat /\ view[p] * Parts < (Parts * R) + Parts
      BY <2>1, <2>2 DEF Seen
    <3>8. view[p] < R + 1
      BY <2>2, <3>7
    <3> QED
      BY <2>2, <3>6, <3>7, <3>8
  <2> QED
    BY <2>1, <2>3 DEF R
<1> QED
  BY <1>1, TypesHold, KeptHolds, SeenHolds, PTL

-----------------------------------------------------------------------------
(* The deque, the cap and the flush are a queue that may lose its oldest   *)
(* events and neither reorders nor repeats the others.                     *)
THEOREM EventsInOrder == Spec => ImplementsFifo
<1> USE DEF device, driver, events
<1>1. Init => Fifo!Init
  BY DEF Init, Fifo!Init
<1>2. TypeOK /\ WholeReports /\ [Next]_vars => [Fifo!Next]_<<sent, pending, delivered>>
  <2> SUFFICES ASSUME TypeOK, WholeReports, [Next]_vars
               PROVE  Fifo!Next \/ UNCHANGED <<sent, pending, delivered>>
    OBVIOUS
  <2>0. Len(pending) \in Nat /\ pending \in Seq(1 .. MaxEvent)
    BY Lengths DEF TypeOK
  <2>1. CASE Push
    <3> DEFINE q == Append(pending, sent + 1)
    <3>1. /\ sent' = sent + 1 /\ delivered' = delivered
          /\ pending' = IF Len(q) > Cap THEN Tail(q) ELSE q
          /\ sent + 1 \in 1 .. MaxEvent
      BY <2>1, PushEffect DEF Push, Pushed
    <3>2. Len(q) = Len(pending) + 1
      BY <2>0, <3>1, AppendProperties
    <3>3. CASE Len(q) > Cap
      <4>1. Len(pending) >= 1
        BY <2>0, <3>2, <3>3
      <4>2. Tail(q) = Append(SubSeq(pending, 2, Len(pending)), sent + 1)
        <5>1. pending # <<>>
          BY <4>1, EmptySeq
        <5>2. Tail(q) = Append(Tail(pending), sent + 1)
          BY <2>0, <5>1, HeadTailAppend
        <5> QED
          BY <2>0, <5>1, <5>2, TailIsSubSeq
      <4>3. 1 \in 0 .. Len(pending) /\ pending' = Append(Fifo!Left(1), sent + 1)
        BY <2>0, <3>1, <3>3, <4>1, <4>2 DEF Fifo!Left
      <4> QED
        BY <3>1, <4>3 DEF Fifo!Next, Fifo!Send
    <3>4. CASE ~(Len(q) > Cap)
      <4>1. SubSeq(pending, 1, Len(pending)) = pending
        BY <2>0
      <4>2. 0 \in 0 .. Len(pending) /\ pending' = Append(Fifo!Left(0), sent + 1)
        BY <2>0, <3>1, <3>4, <4>1 DEF Fifo!Left
      <4> QED
        BY <3>1, <4>2 DEF Fifo!Next, Fifo!Send
    <3> QED
      BY <3>3, <3>4
  <2>2. CASE FlushTurn
    BY <2>2 DEF FlushTurn, CanFlush, Fifo!Next, Fifo!Deliver
  <2>3. CASE Reset
    <3>1. Len(pending) \in 0 .. Len(pending) /\ Fifo!Left(Len(pending)) = <<>>
      BY <2>0 DEF Fifo!Left
    <3> QED
      BY <2>3, <3>1 DEF Reset, Fifo!Next, Fifo!Lose
  <2>4. CASE SendPointer \/ FlushEnds \/ Probe \/ TakeIrq \/ Waits \/ Runs
    BY <2>4 DEF SendPointer, FlushEnds, Probe, TakeIrq, Waits, Kick,
       ReadIrqStatus, AckIrq, Runs, Collect, ScanDone
  <2>5. CASE UNCHANGED vars
    BY <2>5 DEF vars
  <2> QED
    BY <2>1, <2>2, <2>3, <2>4, <2>5 DEF Next, Holder
<1> QED
  BY <1>1, <1>2, TypesHold, PTL DEF Spec, ImplementsFifo, Fifo!Spec
=============================================================================
