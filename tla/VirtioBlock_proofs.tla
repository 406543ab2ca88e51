-------------------------- MODULE VirtioBlock_proofs --------------------------
(***************************************************************************)
(* What the run blk_ring checks on a ring of two with indices modulo four, *)
(* proved for any ring, any number of vCPUs and requests and any image:    *)
(* a chain is in one place at a time, across every wrap of the indices,    *)
(* and the device implements BlockService.                                 *)
(*                                                                         *)
(* The argument counts without wrapping: C requests collected, U shown as  *)
(* used, L served, A published and N filled since the queue was set up;    *)
(* the indices of the rings are these numbers modulo IdxMod, the slots the *)
(* same modulo Size.                                                       *)
(***************************************************************************)
EXTENDS VirtioBlock, FiniteSetTheorems, SequenceTheorems, TLAPS

LEMMA Bounds ==
  /\ Size \in Nat \ {0} /\ IdxMod \in Nat \ {0} /\ Size < IdxMod
  /\ IdxMod % Size = 0
  /\ NReq \in Nat /\ NSector \in Nat \ {0} /\ MaxResets \in Nat
  /\ Nobody \notin Vcpu
  /\ IoFails \in BOOLEAN
  BY RingAssumption, BlockBounds, BlockFlags DEF Nobody

-----------------------------------------------------------------------------
(* Arithmetic of indices and slots.                                        *)

LEMMA DivMod ==
  ASSUME NEW a \in Int, NEW b \in Nat \ {0}
  PROVE  \E q \in Int, r \in 0 .. b - 1 : a = (q * b) + r /\ r = a % b
<1>1. /\ a \div b \in Int /\ a % b \in 0 .. b - 1
      /\ a = ((a \div b) * b) + (a % b)
  OBVIOUS
<1> QED
  BY <1>1

LEMMA ModIs ==
  ASSUME NEW b \in Nat \ {0}, NEW q \in Int, NEW r \in 0 .. b - 1
  PROVE  ((q * b) + r) % b = r
<1> DEFINE a == (q * b) + r
<1>0. q * b \in Int /\ a \in Int
  OBVIOUS
<1> HIDE DEF a
<1>1. PICK p \in Int, s \in 0 .. b - 1 : a = (p * b) + s /\ s = a % b
  BY <1>0, DivMod, Zenon
<1>2. CASE p = q
  BY <1>0, <1>1, <1>2 DEF a
<1>3. CASE p < q
  <2>1. (p + 1) * b <= q * b
    BY <1>1, <1>3
  <2>2. (p + 1) * b = (p * b) + b /\ p * b \in Int
    BY <1>1
  <2> QED
    BY <1>0, <1>1, <2>1, <2>2 DEF a
<1>4. CASE q < p
  <2>1. (q + 1) * b <= p * b
    BY <1>1, <1>4
  <2>2. (q + 1) * b = (q * b) + b /\ p * b \in Int
    BY <1>1
  <2> QED
    BY <1>0, <1>1, <2>1, <2>2 DEF a
<1> QED
  BY <1>1, <1>2, <1>3, <1>4

\* A slot or an index of a sum does not care whether one part wrapped.
LEMMA ModOfSum ==
  ASSUME NEW b \in Nat \ {0}, NEW m \in Nat \ {0}, NEW x \in Nat, NEW k \in Nat
  PROVE  ((x % (m * b)) + k) % b = (x + k) % b
<1>1. PICK c \in Nat \ {0} : c = m * b
  OBVIOUS
<1>2. PICK q \in Int, r \in 0 .. c - 1 : x = (q * c) + r /\ r = x % c
  <2>1. x \in Int
    OBVIOUS
  <2> QED
    BY <2>1, DivMod, Zenon
<1>3. PICK s \in Int, t \in 0 .. b - 1 : r + k = (s * b) + t /\ t = (r + k) % b
  <2>1. r + k \in Int
    OBVIOUS
  <2> QED
    BY <2>1, DivMod, Zenon
<1>4. PICK u \in Int : u = (q * m) + s
  OBVIOUS
<1>5. u * b = (q * c) + (s * b)
  <2>1. (q * m) * b = q * c /\ q * m \in Int
    BY <1>1
  <2>2. ((q * m) + s) * b = ((q * m) * b) + (s * b)
    BY <2>1
  <2> QED
    BY <1>4, <2>1, <2>2
<1>7. x + k = (u * b) + t
  <2>1. PICK y \in Int, z \in Int : y = q * c /\ z = s * b
    BY <1>1
  <2> QED
    BY <1>2, <1>3, <1>5, <2>1
<1>8. (x + k) % b = t
  BY <1>7, ModIs, Zenon
<1> QED
  BY <1>1, <1>2, <1>3, <1>8

LEMMA SlotOf ==
  ASSUME NEW x \in Nat, NEW k \in Nat
  PROVE  Slot((x % IdxMod) + k) = (x + k) % Size
<1>1. PICK m \in Nat \ {0} : IdxMod = m * Size
  <2>2. PICK m \in Int, r \in 0 .. Size - 1 : IdxMod = (m * Size) + r /\ r = IdxMod % Size
    <3>1. IdxMod \in Int /\ Size \in Nat \ {0}
      BY Bounds
    <3> QED
      BY <3>1, DivMod, Zenon
  <2>1. IdxMod = m * Size
    BY <2>2, Bounds
  <2>3. m > 0
    <3>1. SUFFICES ASSUME m <= 0 PROVE FALSE
      BY <2>2
    <3>2. m * Size <= 0
      BY <3>1, Bounds
    <3> QED
      BY <2>1, <2>2, <3>2, Bounds
  <2> QED
    BY <2>1, <2>2, <2>3
<1>2. ((x % (m * Size)) + k) % Size = (x + k) % Size
  <2>1. Size \in Nat \ {0}
    BY Bounds
  <2> QED
    BY <2>1, ModOfSum, Zenon
<1> QED
  BY <1>1, <1>2 DEF Slot

LEMMA SlotOfIndex ==
  ASSUME NEW x \in Nat
  PROVE  Slot(x % IdxMod) = x % Size /\ x % Size \in Entry /\ x % IdxMod \in Idx
<1>1. x % IdxMod \in Idx /\ x % Size \in Entry /\ x % IdxMod \in Nat
  BY Bounds DEF Idx, Entry
<1>2. Slot((x % IdxMod) + 0) = (x + 0) % Size
  BY SlotOf
<1>3. (x % IdxMod) + 0 = x % IdxMod /\ x + 0 = x
  BY <1>1
<1> QED
  BY <1>1, <1>2, <1>3

LEMMA IncOf ==
  ASSUME NEW x \in Nat
  PROVE  Inc(x % IdxMod) = (x + 1) % IdxMod
<1>1. ((x % (1 * IdxMod)) + 1) % IdxMod = (x + 1) % IdxMod
  <2>1. IdxMod \in Nat \ {0} /\ 1 \in Nat \ {0} /\ 1 \in Nat
    BY Bounds
  <2> QED
    BY <2>1, ModOfSum, Zenon
<1>2. 1 * IdxMod = IdxMod
  BY Bounds
<1> QED
  BY <1>1, <1>2 DEF Inc

LEMMA DistOf ==
  ASSUME NEW x \in Nat, NEW y \in Nat, x <= y, y - x <= Size
  PROVE  Dist(x % IdxMod, y % IdxMod) = y - x
<1>0. IdxMod \in Nat \ {0} /\ x \in Int /\ y \in Int /\ y - x \in 0 .. IdxMod - 1
  BY Bounds
<1>1. PICK q \in Int, r \in 0 .. IdxMod - 1 :
        x = (q * IdxMod) + r /\ r = x % IdxMod
  BY <1>0, DivMod, Zenon
<1>2. PICK p \in Int, s \in 0 .. IdxMod - 1 :
        y = (p * IdxMod) + s /\ s = y % IdxMod
  BY <1>0, DivMod, Zenon
<1>3. PICK d \in Int : d = q - p
  OBVIOUS
<1>4. d * IdxMod = (q * IdxMod) - (p * IdxMod)
  BY <1>0, <1>3
<1>5. s - r = (d * IdxMod) + (y - x)
  <2>1. PICK a \in Int, b \in Int : a = q * IdxMod /\ b = p * IdxMod
    BY <1>0
  <2>2. x = a + r /\ y = b + s /\ d * IdxMod = a - b
    BY <1>1, <1>2, <1>4, <2>1
  <2>3. s - r = (a - b) + (y - x)
    BY <2>2
  <2> QED
    BY <2>2, <2>3
<1>6. ((d * IdxMod) + (y - x)) % IdxMod = y - x
  BY <1>0, ModIs, Zenon
<1> QED
  BY <1>1, <1>2, <1>5, <1>6 DEF Dist

\* Numbers closer than the ring is long have slots of their own.
LEMMA SlotsApart ==
  ASSUME NEW i \in Nat, NEW j \in Nat, i < j, j - i < Size
  PROVE  i % Size # j % Size
<1>0. Size \in Nat \ {0} /\ i \in Int /\ j \in Int
  BY Bounds
<1>1. PICK q \in Int, r \in 0 .. Size - 1 : i = (q * Size) + r /\ r = i % Size
  BY <1>0, DivMod, Zenon
<1>2. PICK p \in Int, s \in 0 .. Size - 1 : j = (p * Size) + s /\ s = j % Size
  BY <1>0, DivMod, Zenon
<1>3. SUFFICES ASSUME r = s PROVE FALSE
  BY <1>1, <1>2
<1>4. PICK a \in Int, b \in Int : a = q * Size /\ b = p * Size
  BY <1>0
<1>a. i = a + r /\ j = b + r
  BY <1>1, <1>2, <1>3, <1>4
<1>5. CASE p <= q
  <2>1. b <= a
    BY <1>0, <1>4, <1>5
  <2> QED
    BY <1>a, <2>1
<1>6. CASE q < p
  <2>1. (q + 1) * Size <= p * Size /\ (q + 1) * Size = (q * Size) + Size
    BY <1>0, <1>6
  <2>2. a + Size <= b
    BY <1>4, <2>1
  <2> QED
    BY <1>0, <1>a, <2>2
<1> QED
  BY <1>5, <1>6

\* Indices differ as the numbers do, if these are not further apart.
LEMMA IndicesApart ==
  ASSUME NEW i \in Nat, NEW j \in Nat, i <= j, j - i <= Size
  PROVE  i % IdxMod = j % IdxMod <=> i = j
<1>1. Dist(i % IdxMod, j % IdxMod) = j - i
  BY DistOf
<1>2. ASSUME i % IdxMod = j % IdxMod PROVE j - i = 0
  <2>1. (i % IdxMod) - (j % IdxMod) = 0 /\ (j % IdxMod) - (i % IdxMod) = 0
    BY <1>2, Bounds
  <2>2. 0 % IdxMod = 0
    BY Bounds
  <2> QED
    BY <1>1, <2>1, <2>2 DEF Dist
<1> QED
  BY <1>2

-----------------------------------------------------------------------------
(* The inductive invariant.                                                *)

Fills == \E v \in Vcpu : pc[v] = "fill"

Control ==
  /\ mtx \in Vcpu \cup {Nobody} /\ ready \in BOOLEAN
  /\ irqStatus \in {0, 1} /\ spi \in BOOLEAN
  /\ pc \in [Vcpu -> PcStates]
  /\ resets \in 0 .. MaxResets
  /\ \A v \in Vcpu : pc[v] \in Serving <=> mtx = v
  /\ \A v, w \in Vcpu :
       pc[v] \in {"fill", "irq_scan"} /\ pc[w] \in {"fill", "irq_scan"} => v = w
  /\ ~ready => /\ lastAvail = 0 /\ irqStatus = 0
               /\ \A v \in Vcpu : pc[v] \in {"idle", "irq_read"}

Data ==
  /\ avail \in [Entry -> Entry] /\ used \in [Entry -> Entry]
  /\ availIdx \in Idx /\ usedIdx \in Idx /\ lastAvail \in Idx /\ lastUsed \in Idx
  /\ desc \in [Entry -> {0} \cup Req]
  /\ disk \in [Sector -> {0} \cup Req] /\ image \in Images
  /\ free \subseteq Entry
  /\ asked \in [Req -> Ask] /\ answer \in [Req -> Answer]
  /\ made \in 0 .. NReq /\ collected \subseteq Req
  /\ \A r \in Req : r > made => answer[r].status = "none"

\* The indices, by the counts since the queue was set up: C collected, U shown
\* as used, L served, A published, N filled.
Counts(C, U, L, A, N) ==
  /\ C \in Nat /\ U \in Nat /\ L \in Nat /\ A \in Nat /\ N \in Nat
  /\ L = IF Busy THEN U + 1 ELSE U
  /\ N = IF Fills THEN A + 1 ELSE A
  /\ C <= U /\ L <= A
  /\ lastUsed = C % IdxMod /\ usedIdx = U % IdxMod
  /\ lastAvail = U % IdxMod /\ availIdx = A % IdxMod

\* h[k] is the chain of the k-th request: each is in one place.
Chains(C, N, h) ==
  /\ \A k \in C .. N - 1 : h[k] \in Entry
  /\ \A j, k \in C .. N - 1 : h[j] = h[k] => j = k
  /\ \A k \in C .. N - 1 : h[k] \notin free
  /\ \A e \in Entry : e \in free \/ \E k \in C .. N - 1 : h[k] = e
  /\ Cardinality(free) + (N - C) = Size

\* The rings hold them.
Slots(C, L, N, h) ==
  /\ \A k \in C .. L - 1 : used[k % Size] = h[k]
  /\ \A k \in L .. N - 1 : avail[k % Size] = h[k]

\* Each holds a request; those not served are distinct and unanswered.
Requests(C, L, N, h) ==
  /\ \A k \in C .. N - 1 : desc[h[k]] \in 1 .. made
  /\ \A k \in L .. N - 1 : answer[desc[h[k]]].status = "none"
  /\ \A j, k \in L .. N - 1 : desc[h[j]] = desc[h[k]] => j = k

Laid(C, U, L, A, N, h) ==
  /\ Counts(C, U, L, A, N) /\ Chains(C, N, h)
  /\ Slots(C, L, N, h) /\ Requests(C, L, N, h)

Ring == ready => \E C, U, L, A, N, h : Laid(C, U, L, A, N, h)

BlockInv == Control /\ Data /\ Ring

\* The ring is never overfull, so its indices can be told apart.
LEMMA Room ==
  ASSUME Data, NEW C, NEW U, NEW L, NEW A, NEW N, NEW h,
         Counts(C, U, L, A, N), Chains(C, N, h)
  PROVE  /\ Cardinality(free) \in Nat /\ IsFiniteSet(free)
         /\ C <= U /\ U <= L /\ L <= A /\ A <= N /\ N - C <= Size
         /\ C \in Nat /\ U \in Nat /\ L \in Nat /\ A \in Nat /\ N \in Nat
<1>1. IsFiniteSet(Entry)
  <2>1. 0 \in Int /\ Size - 1 \in Int
    BY Bounds
  <2> QED
    BY <2>1, FS_Interval DEF Entry
<1>2. IsFiniteSet(free) /\ Cardinality(free) \in Nat
  BY <1>1, FS_Subset, FS_CardinalityType DEF Data
<1>3. Size \in Nat
  BY Bounds
<1> QED
  BY <1>2, <1>3 DEF Counts, Chains

\* What the definitions over the rings come to.
LEMMA WindowsAre ==
  ASSUME ready, Data, NEW C, NEW U, NEW L, NEW A, NEW N, NEW h,
         Laid(C, U, L, A, N, h)
  PROVE  /\ Unserved = [k \in 1 .. A - L |-> h[L + k - 1]]
         /\ Uncollected = [k \in 1 .. L - C |-> h[C + k - 1]]
         /\ Filling = {h[k] : k \in A .. N - 1}
<1>0. /\ C <= U /\ U <= L /\ L <= A /\ A <= N /\ N - C <= Size
      /\ C \in Nat /\ U \in Nat /\ L \in Nat /\ A \in Nat /\ N \in Nat
      /\ Size \in Nat
  BY Room, Bounds DEF Laid
<1>1. /\ lastUsed = C % IdxMod /\ usedIdx = U % IdxMod
      /\ lastAvail = U % IdxMod /\ availIdx = A % IdxMod
      /\ L = (IF Busy THEN U + 1 ELSE U) /\ N = (IF Fills THEN A + 1 ELSE A)
  BY DEF Laid, Counts
<1>2. (IF Busy THEN Inc(usedIdx) ELSE usedIdx) = L % IdxMod
  BY <1>0, <1>1, IncOf
<1>3. Uncollected = [k \in 1 .. L - C |-> h[C + k - 1]]
  <2>1. Dist(C % IdxMod, L % IdxMod) = L - C
    <3>1. C <= L /\ L - C <= Size
      BY <1>0
    <3> QED
      BY <1>0, <3>1, DistOf
  <2>2. ASSUME NEW k \in 1 .. L - C PROVE used[Slot(lastUsed + k - 1)] = h[C + k - 1]
    <3>1. PICK j \in Nat : j = k - 1 /\ C + j = C + k - 1 /\ C + j \in C .. L - 1
      BY <1>0
    <3>2. Slot(lastUsed + j) = (C + j) % Size
      BY <1>0, <1>1, SlotOf
    <3>3. lastUsed + k - 1 = lastUsed + j
      <4>1. lastUsed \in Int
        BY <1>0, <1>1, SlotOfIndex DEF Idx
      <4> QED
        BY <3>1, <4>1
    <3>4. used[(C + j) % Size] = h[C + j]
      BY <3>1 DEF Laid, Slots
    <3> QED
      BY <3>1, <3>2, <3>3, <3>4
  <2>3. Uncollected = [k \in 1 .. L - C |-> used[Slot(lastUsed + k - 1)]]
    BY <1>1, <1>2, <2>1 DEF Uncollected, Window
  <2> QED
    BY <2>2, <2>3
<1>4. /\ Len(Window(avail, lastAvail, availIdx)) = A - U
      /\ Window(avail, lastAvail, availIdx)
           = [k \in 1 .. A - U |-> avail[Slot(lastAvail + k - 1)]]
  <2>1. Dist(U % IdxMod, A % IdxMod) = A - U /\ A - U \in Nat
    <3>1. U <= A /\ A - U <= Size
      BY <1>0
    <3> QED
      BY <1>0, <3>1, DistOf
  <2> QED
    BY <1>1, <2>1 DEF Window
<1>5. ASSUME NEW k \in 1 .. A - U, L <= U + k - 1
      PROVE  avail[Slot(lastAvail + k - 1)] = h[U + k - 1]
  <2>1. PICK j \in Nat : j = k - 1 /\ U + j = U + k - 1 /\ U + j \in L .. N - 1
    BY <1>0, <1>5
  <2>2. Slot(lastAvail + j) = (U + j) % Size
    BY <1>0, <1>1, SlotOf
  <2>3. lastAvail + k - 1 = lastAvail + j
    <3>1. lastAvail \in Int
      BY <1>0, <1>1, SlotOfIndex DEF Idx
    <3> QED
      BY <2>1, <3>1
  <2>4. avail[(U + j) % Size] = h[U + j]
    BY <2>1 DEF Laid, Slots
  <2> QED
    BY <2>1, <2>2, <2>3, <2>4
<1>6. Unserved = [k \in 1 .. A - L |-> h[L + k - 1]]
  <2>1. PICK w : w = Window(avail, lastAvail, availIdx)
    OBVIOUS
  <2>2. Unserved = IF Busy THEN Tail(w) ELSE w
    BY <2>1 DEF Unserved
  <2>3. CASE ~Busy
    <3>1. w = [k \in 1 .. A - L |-> avail[Slot(lastAvail + k - 1)]] /\ L = U
      BY <1>1, <1>4, <2>1, <2>3
    <3>2. \A k \in 1 .. A - L : avail[Slot(lastAvail + k - 1)] = h[L + k - 1]
      BY <1>0, <1>5, <3>1
    <3> QED
      BY <2>2, <2>3, <3>1, <3>2
  <2>4. CASE Busy
    <3>1. L = U + 1 /\ Len(w) = A - U /\ (A - U) - 1 = A - L
      BY <1>0, <1>1, <1>4, <2>1, <2>4
    <3>2. Tail(w) = [k \in 1 .. A - L |-> w[k + 1]]
      <4>1. w \in Seq(Entry) /\ w # <<>>
        <5>1. \A k \in 1 .. A - U : avail[Slot(lastAvail + k - 1)] \in Entry
          <6> SUFFICES ASSUME NEW k \in 1 .. A - U
                       PROVE  avail[Slot(lastAvail + k - 1)] \in Entry
            OBVIOUS
          <6>1. lastAvail + k - 1 \in Int
            BY <1>0, <1>1, SlotOfIndex DEF Idx
          <6>2. Slot(lastAvail + k - 1) \in Entry
            BY <6>1, Bounds DEF Slot, Entry
          <6> QED
            BY <6>2 DEF Data
        <5>2. A - U \in Nat \ {0}
          BY <1>0, <3>1
        <5> QED
          BY <1>4, <2>1, <5>1, <5>2
      <4>2. /\ Tail(w) \in Seq(Entry) /\ Len(Tail(w)) = A - L
            /\ \A k \in 1 .. Len(Tail(w)) : Tail(w)[k] = w[k + 1]
        BY <3>1, <4>1, HeadTailProperties
      <4> QED
        BY <4>2, LenProperties
    <3>3. ASSUME NEW k \in 1 .. A - L PROVE w[k + 1] = h[L + k - 1]
      <4>1. PICK i \in 1 .. A - U : i = k + 1 /\ L <= U + i - 1 /\ U + i - 1 = L + k - 1
        BY <1>0, <3>1
      <4> QED
        BY <1>4, <1>5, <2>1, <4>1
    <3> QED
      BY <2>2, <2>4, <3>2, <3>3
  <2> QED
    BY <2>3, <2>4
<1>7. Filling = {h[k] : k \in A .. N - 1}
  <2>1. CASE Fills
    <3>1. A \in L .. N - 1 /\ A .. N - 1 = {A}
      BY <1>0, <1>1, <2>1
    <3>2. avail[Slot(availIdx)] = h[A]
      BY <1>0, <1>1, <3>1, SlotOfIndex DEF Laid, Slots
    <3> QED
      BY <2>1, <3>1, <3>2 DEF Filling, Fills
  <2>2. CASE ~Fills
    <3>1. A .. N - 1 = {}
      BY <1>0, <1>1, <2>2
    <3> QED
      BY <2>2, <3>1 DEF Filling, Fills
  <2> QED
    BY <2>1, <2>2
<1> QED
  BY <1>3, <1>6, <1>7

-----------------------------------------------------------------------------
(* The steps, as far as control and the data of one variable are concerned. *)

LEMMA BlockInit == Init => BlockInv
<1> SUFFICES ASSUME Init PROVE BlockInv
  OBVIOUS
<1>0. 0 \in Idx /\ 0 \in Entry
  BY Bounds DEF Idx, Entry
<1>1. Control
  <2>1. resets \in 0 .. MaxResets
    BY Bounds DEF Init
  <2>2. /\ mtx = Nobody /\ ready = FALSE /\ irqStatus = 0 /\ spi = FALSE
        /\ lastAvail = 0 /\ pc = [v \in Vcpu |-> "idle"] /\ Nobody \notin Vcpu
    BY Bounds DEF Init
  <2> QED
    BY <2>1, <2>2 DEF Control, PcStates, Serving
<1>2. NoAsk \in Ask /\ NoAnswer \in Answer /\ Blank \in [Sector -> {0} \cup Req]
  BY Bounds DEF NoAsk, Ask, Ops, NoAnswer, Answer, Blank, Sector
<1>3. Data
  BY <1>0, <1>2, Bounds DEF Init, Data, Req, NoAnswer
<1>4. Ring
  BY DEF Init, Ring
<1> QED
  BY <1>1, <1>3, <1>4 DEF BlockInv

LEMMA ControlKept ==
  ASSUME Control, NEW v \in Vcpu, Step(v) \/ Fill(v) \/ Reset(v)
  PROVE  Control'
<1> USE DEF Control, PcStates, Submitting, Serving, Handling, Goto, device
<1>0. Nobody \notin Vcpu
  BY Bounds
<1>1. CASE Probe(v)
  BY <1>0, <1>1 DEF Probe
<1>2. CASE PublishRequest(v)
  BY <1>0, <1>2 DEF PublishRequest, driver
<1>3. CASE Notify(v)
  BY <1>0, <1>3 DEF Notify, driver
<1>4. CASE Drain(v)
  BY <1>0, <1>4 DEF Drain, driver
<1>5. CASE Commit(v)
  BY <1>0, <1>5 DEF Commit, driver
<1>6. CASE Drained(v)
  BY <1>0, <1>6 DEF Drained, driver
<1>7. CASE Raise(v)
  BY <1>0, <1>7 DEF Raise, driver
<1>8. CASE TakeIrq(v)
  BY <1>0, <1>8, ZenonT(40) DEF TakeIrq, driver
<1>9. CASE ReadIrqStatus(v)
  BY <1>0, <1>9 DEF ReadIrqStatus, driver
<1>10. CASE AckIrq(v)
  BY <1>0, <1>10 DEF AckIrq, driver, QueueLocked
<1>11. CASE Collect(v)
  BY <1>0, <1>11 DEF Collect
<1>12. CASE ScanDone(v)
  BY <1>0, <1>12 DEF ScanDone, driver
<1>13. CASE Fill(v)
  BY <1>0, <1>13 DEF Fill, QueueLocked
<1>14. CASE Reset(v)
  <2>1. resets' \in 0 .. MaxResets
    BY <1>14, Bounds DEF Reset
  <2> QED
    BY <1>0, <1>14, <2>1 DEF Reset
<1> QED
  BY <1>1, <1>2, <1>3, <1>4, <1>5, <1>6, <1>7, <1>8, <1>9, <1>10, <1>11, <1>12,
     <1>13, <1>14 DEF Step

LEMMA AsksTyped ==
  ASSUME NEW k \in Req, NEW a \in Asks[k]
  PROVE  a \in Ask
<1>1. /\ a \in [op : Ops, first : Nat, segs : Nat \ {0}]
      /\ a.first + a.segs <= NSector
  BY AsksAssumption DEF Req
<1>2. a.first \in Sector /\ a.segs \in 1 .. NSector
  BY <1>1, Bounds DEF Sector
<1> QED
  BY <1>1, <1>2 DEF Ask

LEMMA OutcomesTyped ==
  ASSUME disk \in [Sector -> {0} \cup Req], NEW a \in Ask, NEW r \in Req,
         NEW o \in Outcomes(a, r)
  PROVE  /\ o.disk \in [Sector -> {0} \cup Req]
         /\ o.data \in [Sector -> {0} \cup Req]
         /\ o.status \in {"ok", "ioerr", "unsupp"}
<1> DEFINE Disks == [Sector -> {0} \cup Req]
           read == [s \in Sector |-> IF s \in Covered(a) THEN disk[s] ELSE 0]
<1>1. /\ \A k : Part(a, r, k) \in Disks
      /\ read \in Disks /\ Blank \in Disks
  BY DEF Part, Blank
<1>2. CASE o \in Successes(a, r)
  <2>1. \/ o = [status |-> "ok", data |-> read, disk |-> disk]
        \/ o = [status |-> "ok", data |-> Blank, disk |-> Part(a, r, a.segs)]
        \/ o = [status |-> "ok", data |-> Blank, disk |-> disk]
        \/ o = [status |-> "unsupp", data |-> Blank, disk |-> disk]
    BY <1>2 DEF Successes, Ask, Ops
  <2> QED
    BY <1>1, <2>1
<1>3. CASE o \notin Successes(a, r)
  <2>1. PICK d \in Failures(a, r) :
          o = [status |-> "ioerr", data |-> Blank, disk |-> d]
    BY <1>3 DEF Outcomes
  <2>2. d = disk \/ \E k : d = Part(a, r, k)
    BY <2>1 DEF Failures
  <2> QED
    BY <1>1, <2>1, <2>2
<1> QED
  BY <1>2, <1>3

\* What a turn of the device's loop, and of the driver's scan, finds.
LEMMA ServedHead ==
  ASSUME Control, Data, NEW v \in Vcpu, Drain(v),
         NEW C, NEW U, NEW L, NEW A, NEW N, NEW h, Laid(C, U, L, A, N, h)
  PROVE  /\ L = U /\ ~Busy /\ L \in C .. A - 1
         /\ avail[Slot(lastAvail)] = h[L] /\ h[L] \in Entry
         /\ desc[h[L]] \in 1 .. made /\ answer[desc[h[L]]].status = "none"
         /\ Slot(usedIdx) = L % Size /\ L % Size \in Entry
<1>0. /\ C <= U /\ U <= L /\ L <= A /\ A <= N /\ N - C <= Size
      /\ C \in Nat /\ U \in Nat /\ L \in Nat /\ A \in Nat /\ N \in Nat
      /\ Size \in Nat
  BY Room, Bounds DEF Laid
<1>1. pc[v] = "drain" /\ lastAvail # availIdx
  BY DEF Drain, Goto
<1>2. ~Busy
  BY <1>1 DEF Control, Busy, Serving
<1>3. L = U /\ lastAvail = U % IdxMod /\ availIdx = A % IdxMod
      /\ usedIdx = U % IdxMod
  BY <1>2 DEF Laid, Counts
<1>4. U # A
  BY <1>1, <1>3
<1>5. L \in C .. A - 1 /\ L \in C .. N - 1 /\ L \in L .. N - 1
  BY <1>0, <1>3, <1>4
<1>6. /\ Slot(lastAvail) = L % Size /\ Slot(usedIdx) = L % Size
      /\ L % Size \in Entry
  BY <1>0, <1>3, SlotOfIndex
<1>7. avail[L % Size] = h[L]
  BY <1>5 DEF Laid, Slots
<1>8. h[L] \in Entry
  BY <1>5 DEF Laid, Chains
<1>9. desc[h[L]] \in 1 .. made /\ answer[desc[h[L]]].status = "none"
  BY <1>5 DEF Laid, Requests
<1> QED
  BY <1>2, <1>3, <1>5, <1>6, <1>7, <1>8, <1>9

LEMMA ScannedHead ==
  ASSUME Control, Data, NEW v \in Vcpu, Collect(v),
         NEW C, NEW U, NEW L, NEW A, NEW N, NEW h, Laid(C, U, L, A, N, h)
  PROVE  /\ C \in C .. U - 1 /\ C \in C .. N - 1
         /\ used[Slot(lastUsed)] = h[C] /\ h[C] \in Entry
         /\ desc[h[C]] \in 1 .. made
<1>0. /\ C <= U /\ U <= L /\ L <= A /\ A <= N /\ N - C <= Size
      /\ C \in Nat /\ U \in Nat /\ L \in Nat /\ A \in Nat /\ N \in Nat
      /\ Size \in Nat
  BY Room, Bounds DEF Laid
<1>1. lastUsed # usedIdx /\ lastUsed = C % IdxMod /\ usedIdx = U % IdxMod
  BY DEF Collect, Laid, Counts
<1>2. C \in C .. U - 1 /\ C \in C .. N - 1 /\ C \in C .. L - 1
  BY <1>0, <1>1
<1>3. Slot(lastUsed) = C % Size
  BY <1>0, <1>1, SlotOfIndex
<1>4. used[C % Size] = h[C]
  BY <1>2 DEF Laid, Slots
<1>5. h[C] \in Entry
  BY <1>2 DEF Laid, Chains
<1>6. desc[h[C]] \in 1 .. made
  BY <1>2 DEF Laid, Requests
<1> QED
  BY <1>2, <1>3, <1>4, <1>5, <1>6

LEMMA SetUp ==
  ASSUME Control, NEW v \in Vcpu, pc[v] \notin {"idle", "irq_read"}
  PROVE  ready
BY DEF Control

LEMMA Steps ==
  /\ \A i \in Idx : Inc(i) \in Idx /\ Slot(i) \in Entry
  /\ 0 \in Idx /\ 0 \in Entry
BY Bounds DEF Idx, Inc, Slot, Entry

LEMMA DataKept ==
  ASSUME BlockInv, NEW v \in Vcpu, Step(v) \/ Fill(v) \/ Reset(v)
  PROVE  Data'
<1> USE DEF Data, rings, device
<1>0. Control /\ Data /\ Ring /\ made \in Nat /\ NReq \in Nat
  BY Bounds DEF BlockInv
<1>1. CASE Probe(v)
  BY <1>0, <1>1, Steps DEF Probe
<1>2. CASE PublishRequest(v)
  BY <1>0, <1>2, Steps DEF PublishRequest, driver
<1>3. CASE Notify(v)
  BY <1>0, <1>3 DEF Notify, driver
<1>4. CASE Drain(v)
  <2>1. ready
    BY <1>0, <1>4, SetUp DEF Drain, Goto
  <2>2. PICK C, U, L, A, N, h : Laid(C, U, L, A, N, h)
    BY <1>0, <2>1 DEF Ring
  <2>3. PICK r \in Req, e \in Entry :
          e = avail[Slot(lastAvail)] /\ r = desc[e] /\ r <= made
    BY <1>0, <1>4, <2>2, ServedHead DEF Req
  <2>4. /\ used' = [used EXCEPT ![Slot(usedIdx)] = e]
        /\ UNCHANGED <<avail, availIdx, usedIdx, desc, lastAvail, image, driver>>
    BY <1>4, <2>3 DEF Drain
  <2>5. PICK o \in Outcomes(asked[r], r) :
          /\ disk' = o.disk
          /\ answer' = [answer EXCEPT ![r] = [status |-> o.status,
                                              data |-> o.data]]
    BY <1>4, <2>3 DEF Drain
  <2>6. /\ o.disk \in [Sector -> {0} \cup Req]
        /\ o.data \in [Sector -> {0} \cup Req]
        /\ o.status \in {"ok", "ioerr", "unsupp"}
    <3>1. asked[r] \in Ask /\ disk \in [Sector -> {0} \cup Req]
      BY <1>0
    <3> QED
      BY <3>1, OutcomesTyped
  <2>7. answer' \in [Req -> Answer]
    BY <1>0, <2>5, <2>6 DEF Answer
  <2>8. \A q \in Req : q > made => answer'[q].status = "none"
    BY <1>0, <2>3, <2>5
  <2> QED
    BY <1>0, <2>4, <2>5, <2>6, <2>7, <2>8 DEF driver
<1>5. CASE Commit(v)
  BY <1>0, <1>5, Steps DEF Commit, driver
<1>6. CASE Drained(v)
  BY <1>0, <1>6 DEF Drained, driver
<1>7. CASE Raise(v)
  BY <1>0, <1>7 DEF Raise, driver
<1>8. CASE TakeIrq(v)
  BY <1>0, <1>8 DEF TakeIrq, driver
<1>9. CASE ReadIrqStatus(v)
  BY <1>0, <1>9 DEF ReadIrqStatus, driver
<1>10. CASE AckIrq(v)
  BY <1>0, <1>10 DEF AckIrq, driver
<1>11. CASE Collect(v)
  <2>1. ready
    BY <1>0, <1>11, SetUp DEF Collect
  <2>2. PICK C, U, L, A, N, h : Laid(C, U, L, A, N, h)
    BY <1>0, <2>1 DEF Ring
  <2>3. PICK r \in Req, e \in Entry : e = used[Slot(lastUsed)] /\ r = desc[e]
    BY <1>0, <1>11, <2>2, ScannedHead DEF Req
  <2> QED
    BY <1>0, <1>11, <2>3, Steps DEF Collect
<1>12. CASE ScanDone(v)
  BY <1>0, <1>12 DEF ScanDone, driver
<1>13. CASE Fill(v)
  <2>1. made + 1 \in Req /\ made + 1 <= NReq
    BY <1>0, <1>13 DEF Fill, Req
  <2>2. PICK e \in free, a \in Asks[made + 1] :
          /\ desc' = [desc EXCEPT ![e] = made + 1] /\ free' = free \ {e}
          /\ asked' = [asked EXCEPT ![made + 1] = a]
          /\ avail' = [avail EXCEPT ![Slot(availIdx)] = e]
    BY <1>13 DEF Fill
  <2>3. a \in Ask
    BY <2>1, AsksTyped
  <2>4. /\ made' = made + 1
        /\ UNCHANGED <<availIdx, used, usedIdx, lastAvail, disk, image, lastUsed,
                       collected, answer>>
    BY <1>13 DEF Fill
  <2>5. /\ avail' \in [Entry -> Entry] /\ desc' \in [Entry -> {0} \cup Req]
        /\ free' \subseteq Entry
    BY <1>0, <2>1, <2>2
  <2>6. asked' \in [Req -> Ask]
    BY <1>0, <2>1, <2>2, <2>3
  <2>7. made' \in 0 .. NReq
    BY <1>0, <2>1, <2>4
  <2>8. \A r \in Req : r > made' => answer'[r].status = "none"
    BY <1>0, <2>4 DEF Req
  <2> QED
    BY <1>0, <2>4, <2>5, <2>6, <2>7, <2>8
<1>14. CASE Reset(v)
  BY <1>0, <1>14, Steps DEF Reset
<1> QED
  BY <1>1, <1>2, <1>3, <1>4, <1>5, <1>6, <1>7, <1>8, <1>9, <1>10, <1>11, <1>12,
     <1>13, <1>14 DEF Step

-----------------------------------------------------------------------------
(* The steps, as far as the rings are concerned.                           *)

\* Steps that leave the queue alone.
LEMMA RingFrame ==
  ASSUME Ring,
         UNCHANGED <<avail, availIdx, used, usedIdx, desc, ready, lastAvail, free,
                     lastUsed, made, answer>>,
         Busy' <=> Busy, Fills' <=> Fills
  PROVE  Ring'
<1> SUFFICES ASSUME ready' PROVE (\E C, U, L, A, N, h : Laid(C, U, L, A, N, h))'
  BY DEF Ring
<1>1. PICK C, U, L, A, N, h : Laid(C, U, L, A, N, h)
  BY DEF Ring
<1>2. Counts(C, U, L, A, N)'
  BY <1>1 DEF Laid, Counts
<1>3. Chains(C, N, h)' /\ Slots(C, L, N, h)' /\ Requests(C, L, N, h)'
  BY <1>1 DEF Laid, Chains, Slots, Requests
<1>4. Laid(C, U, L, A, N, h)'
  BY <1>2, <1>3 DEF Laid
<1> QED
  BY <1>4

LEMMA ProbeRing ==
  ASSUME Control, NEW v \in Vcpu, Probe(v)
  PROVE  Laid(0, 0, 0, 0, 0, <<>>)'
<1> DEFINE h == <<>>
<1>0. 0 .. 0 - 1 = {}
  OBVIOUS
<1>1. Cardinality(Entry) = Size
  <2>1. 0 \in Int /\ Size - 1 \in Int /\ 0 <= Size - 1 + 1 /\ (Size - 1) - 0 + 1 = Size
    BY Bounds
  <2> QED
    BY <2>1, FS_Interval DEF Entry
<1>2. 0 % IdxMod = 0 /\ Size \in Nat /\ lastAvail = 0
  BY Bounds DEF Control, Probe
<1>3. ~Busy' /\ ~Fills'
  BY DEF Control, Probe, Busy, Fills
<1>4. Counts(0, 0, 0, 0, 0)'
  BY <1>2, <1>3 DEF Counts, Probe
<1>5. Chains(0, 0, h)'
  BY <1>0, <1>1, <1>2 DEF Chains, Probe
<1>6. Slots(0, 0, 0, h)' /\ Requests(0, 0, 0, h)'
  BY <1>0 DEF Slots, Requests
<1>7. Laid(0, 0, 0, 0, 0, h)'
  BY <1>4, <1>5, <1>6 DEF Laid
<1> QED
  BY <1>7

LEMMA PublishRing ==
  ASSUME Control, Data, NEW v \in Vcpu, PublishRequest(v),
         NEW C, NEW U, NEW L, NEW A, NEW N, NEW h, Laid(C, U, L, A, N, h)
  PROVE  Laid(C, U, L, A + 1, N, h)' /\ N = A + 1 /\ Fills
<1>0. /\ C <= U /\ U <= L /\ L <= A /\ A <= N /\ N - C <= Size
      /\ C \in Nat /\ U \in Nat /\ L \in Nat /\ A \in Nat /\ N \in Nat
  BY Room DEF Laid
<1>1. /\ pc[v] = "fill" /\ pc' = [pc EXCEPT ![v] = "kick"]
      /\ pc \in [Vcpu -> PcStates]
  BY DEF PublishRequest, Goto, Control
<1>2. Fills /\ ~Fills' /\ (Busy' <=> Busy)
  <2>1. \A w \in Vcpu : pc[w] = "fill" => w = v
    BY <1>1 DEF Control
  <2> QED
    BY <1>1, <2>1 DEF Fills, Busy
<1>3. N = A + 1 /\ L = IF Busy THEN U + 1 ELSE U
  BY <1>2 DEF Laid, Counts
<1>4. availIdx' = (A + 1) % IdxMod
  BY <1>0, IncOf DEF PublishRequest, Laid, Counts
<1>5. Counts(C, U, L, A + 1, N)'
  BY <1>0, <1>2, <1>3, <1>4 DEF Laid, Counts, PublishRequest, device, driver
<1>6. Chains(C, N, h)' /\ Slots(C, L, N, h)' /\ Requests(C, L, N, h)'
  BY DEF Laid, Chains, Slots, Requests, PublishRequest, driver
<1> QED
  BY <1>2, <1>3, <1>5, <1>6 DEF Laid

LEMMA CommitRing ==
  ASSUME Control, Data, NEW v \in Vcpu, Commit(v),
         NEW C, NEW U, NEW L, NEW A, NEW N, NEW h, Laid(C, U, L, A, N, h)
  PROVE  Laid(C, U + 1, L, A, N, h)' /\ L = U + 1 /\ Busy
<1>0. /\ C <= U /\ U <= L /\ L <= A /\ A <= N /\ N - C <= Size
      /\ C \in Nat /\ U \in Nat /\ L \in Nat /\ A \in Nat /\ N \in Nat
  BY Room DEF Laid
<1>1. /\ pc[v] = "commit" /\ pc' = [pc EXCEPT ![v] = "drain"]
      /\ pc \in [Vcpu -> PcStates]
  BY DEF Commit, Goto, Control
<1>2. Busy /\ ~Busy' /\ (Fills' <=> Fills)
  <2>1. \A w \in Vcpu : pc[w] = "commit" => w = v
    BY <1>1, Bounds DEF Control, Serving
  <2> QED
    BY <1>1, <2>1 DEF Fills, Busy
<1>3. L = U + 1 /\ N = IF Fills THEN A + 1 ELSE A
  BY <1>2 DEF Laid, Counts
<1>4. usedIdx' = (U + 1) % IdxMod /\ lastAvail' = (U + 1) % IdxMod
  BY <1>0, IncOf DEF Commit, Laid, Counts
<1>5. Counts(C, U + 1, L, A, N)'
  BY <1>0, <1>2, <1>3, <1>4 DEF Laid, Counts, Commit, driver
<1>6. Chains(C, N, h)' /\ Slots(C, L, N, h)' /\ Requests(C, L, N, h)'
  BY DEF Laid, Chains, Slots, Requests, Commit, driver
<1> QED
  BY <1>2, <1>3, <1>5, <1>6 DEF Laid

LEMMA DrainRing ==
  ASSUME Control, Data, NEW v \in Vcpu, Drain(v),
         NEW C, NEW U, NEW L, NEW A, NEW N, NEW h, Laid(C, U, L, A, N, h)
  PROVE  Laid(C, U, L + 1, A, N, h)'
<1>0. /\ C <= U /\ U <= L /\ L <= A /\ A <= N /\ N - C <= Size
      /\ C \in Nat /\ U \in Nat /\ L \in Nat /\ A \in Nat /\ N \in Nat
      /\ Size \in Nat
  BY Room, Bounds DEF Laid
<1>1. /\ L = U /\ ~Busy /\ L \in C .. A - 1
      /\ avail[Slot(lastAvail)] = h[L] /\ h[L] \in Entry
      /\ desc[h[L]] \in 1 .. made
      /\ Slot(usedIdx) = L % Size /\ L % Size \in Entry
  BY ServedHead
<1>2. /\ pc[v] = "drain" /\ pc' = [pc EXCEPT ![v] = "commit"]
      /\ pc \in [Vcpu -> PcStates]
  BY DEF Drain, Goto, Control
<1>3. Busy' /\ (Fills' <=> Fills)
  BY <1>2 DEF Busy, Fills
<1>4. PICK e, r : e = h[L] /\ r = desc[h[L]]
  OBVIOUS
<1>5. /\ used' = [used EXCEPT ![L % Size] = e] /\ used \in [Entry -> Entry]
      /\ \A q \in Req \ {r} : answer'[q] = answer[q]
      /\ UNCHANGED <<avail, availIdx, usedIdx, desc, lastAvail, free, lastUsed,
                     made>>
  BY <1>1, <1>4 DEF Drain, Data, driver
<1>6. Counts(C, U, L + 1, A, N)'
  BY <1>0, <1>1, <1>3, <1>5 DEF Laid, Counts
<1>7. Chains(C, N, h)'
  BY <1>5 DEF Laid, Chains
<1>8. Slots(C, L + 1, N, h)'
  <2>1. ASSUME NEW k \in C .. L PROVE used'[k % Size] = h[k]
    <3>1. CASE k = L
      BY <1>1, <1>4, <1>5, <3>1
    <3>2. CASE k # L
      <4>1. k \in Nat /\ k < L /\ L - k < Size /\ k \in C .. L - 1
        BY <1>0, <1>1, <3>2
      <4>2. k % Size # L % Size /\ used[k % Size] = h[k]
        BY <1>0, <4>1, SlotsApart DEF Laid, Slots
      <4>3. k % Size \in Entry
        BY <4>1, SlotOfIndex
      <4> QED
        BY <1>5, <4>2, <4>3
    <3> QED
      BY <3>1, <3>2
  <2>2. \A k \in L + 1 .. N - 1 : avail'[k % Size] = h[k]
    BY <1>0, <1>5 DEF Laid, Slots
  <2>3. C .. (L + 1) - 1 = C .. L
    BY <1>0
  <2> QED
    BY <2>1, <2>2, <2>3 DEF Slots
<1>9. Requests(C, L + 1, N, h)'
  <2>1. /\ \A k \in C .. N - 1 : desc[h[k]] \in 1 .. made
        /\ \A k \in L .. N - 1 : answer[desc[h[k]]].status = "none"
        /\ \A j, k \in L .. N - 1 : desc[h[j]] = desc[h[k]] => j = k
    BY DEF Laid, Requests
  <2>2. ASSUME NEW k \in L + 1 .. N - 1
        PROVE  answer'[desc[h[k]]].status = "none"
    <3>1. k \in L .. N - 1 /\ k \in C .. N - 1 /\ L \in L .. N - 1 /\ k # L
      BY <1>0, <1>1
    <3>2. desc[h[k]] # r /\ desc[h[k]] \in 1 .. made
      BY <1>4, <2>1, <3>1
    <3>3. desc[h[k]] \in Req \ {r}
      BY <3>2, Bounds DEF Data, Req
    <3> QED
      BY <1>5, <2>1, <3>1, <3>3
  <2>3. \A j \in L + 1 .. N - 1 : j \in L .. N - 1
    BY <1>0
  <2> QED
    BY <1>5, <2>1, <2>2, <2>3 DEF Requests
<1> QED
  BY <1>6, <1>7, <1>8, <1>9 DEF Laid

LEMMA CollectRing ==
  ASSUME Control, Data, NEW v \in Vcpu, Collect(v),
         NEW C, NEW U, NEW L, NEW A, NEW N, NEW h, Laid(C, U, L, A, N, h)
  PROVE  Laid(C + 1, U, L, A, N, h)'
<1>0. /\ C <= U /\ U <= L /\ L <= A /\ A <= N /\ N - C <= Size
      /\ C \in Nat /\ U \in Nat /\ L \in Nat /\ A \in Nat /\ N \in Nat
      /\ Size \in Nat /\ Cardinality(free) \in Nat /\ IsFiniteSet(free)
  BY Room, Bounds DEF Laid
<1>1. /\ C \in C .. U - 1 /\ C \in C .. N - 1
      /\ used[Slot(lastUsed)] = h[C] /\ h[C] \in Entry
  BY ScannedHead
<1>2. PICK e : e = h[C]
  OBVIOUS
<1>3. /\ free' = free \cup {e} /\ lastUsed' = Inc(lastUsed)
      /\ UNCHANGED <<rings, lastAvail, pc, made, answer>>
  BY <1>1, <1>2 DEF Collect, device
<1>4. lastUsed' = (C + 1) % IdxMod
  BY <1>0, <1>3, IncOf DEF Laid, Counts
<1>5. Counts(C + 1, U, L, A, N)'
  BY <1>0, <1>1, <1>3, <1>4 DEF Laid, Counts, Busy, Fills, rings
<1>6. \A k \in C + 1 .. N - 1 : k \in C .. N - 1 /\ k # C
  BY <1>0
<1>7. Chains(C + 1, N, h)'
  <2>1. /\ \A k \in C .. N - 1 : h[k] \in Entry
        /\ \A j, k \in C .. N - 1 : h[j] = h[k] => j = k
        /\ \A k \in C .. N - 1 : h[k] \notin free
        /\ \A x \in Entry : x \in free \/ \E k \in C .. N - 1 : h[k] = x
        /\ Cardinality(free) + (N - C) = Size
    BY DEF Laid, Chains
  <2>2. Cardinality(free') = Cardinality(free) + 1
    BY <1>0, <1>1, <1>2, <1>3, <2>1, FS_AddElement
  <2>3. Cardinality(free') + (N - (C + 1)) = Size
    BY <1>0, <2>1, <2>2
  <2>4. \A k \in C + 1 .. N - 1 : h[k] \notin free'
    BY <1>1, <1>2, <1>3, <1>6, <2>1
  <2>5. ASSUME NEW x \in Entry, x \notin free'
        PROVE  \E k \in C + 1 .. N - 1 : h[k] = x
    <3>1. PICK k \in C .. N - 1 : h[k] = x
      BY <1>3, <2>1, <2>5
    <3>2. k # C
      BY <1>2, <1>3, <2>5, <3>1
    <3>3. k \in C + 1 .. N - 1
      BY <1>0, <3>1, <3>2
    <3> QED
      BY <3>1, <3>3
  <2> QED
    BY <1>6, <2>1, <2>3, <2>4, <2>5 DEF Chains
<1>8. Slots(C + 1, L, N, h)'
  <2>1. \A k \in C + 1 .. L - 1 : k \in C .. L - 1
    BY <1>0
  <2> QED
    BY <1>3, <2>1 DEF Laid, Slots, rings
<1>9. Requests(C + 1, L, N, h)'
  BY <1>3, <1>6 DEF Laid, Requests, rings
<1> QED
  BY <1>5, <1>7, <1>8, <1>9 DEF Laid

\* The chain of the request that is filled in is the last one.
Longer(C, A, h, e) == [k \in C .. A |-> IF k = A THEN e ELSE h[k]]

LEMMA FillRing ==
  ASSUME Control, Data, NEW v \in Vcpu, Fill(v),
         NEW C, NEW U, NEW L, NEW A, NEW N, NEW h, Laid(C, U, L, A, N, h)
  PROVE  /\ N = A
         /\ \E e \in free :
              /\ Laid(C, U, L, A, A + 1, Longer(C, A, h, e))'
              /\ \A k \in L .. A - 1 : desc'[Longer(C, A, h, e)[k]] = desc[h[k]]
<1>0. /\ C <= U /\ U <= L /\ L <= A /\ A <= N /\ N - C <= Size
      /\ C \in Nat /\ U \in Nat /\ L \in Nat /\ A \in Nat /\ N \in Nat
      /\ Size \in Nat /\ Cardinality(free) \in Nat /\ IsFiniteSet(free)
  BY Room, Bounds DEF Laid
<1>1. /\ ~Fills /\ pc[v] = "idle" /\ pc' = [pc EXCEPT ![v] = "fill"]
      /\ pc \in [Vcpu -> PcStates]
  BY DEF Fill, QueueLocked, Fills, Goto, Control
<1>2. N = A /\ L = (IF Busy THEN U + 1 ELSE U)
  BY <1>1 DEF Laid, Counts
<1>3. Fills' /\ (Busy' <=> Busy)
  BY <1>1 DEF Busy, Fills
<1>4. PICK e \in free :
        /\ desc' = [desc EXCEPT ![e] = made + 1] /\ free' = free \ {e}
        /\ avail' = [avail EXCEPT ![Slot(availIdx)] = e]
  BY DEF Fill
<1>5. /\ made' = made + 1 /\ made + 1 \in Req /\ made \in Nat
      /\ UNCHANGED <<availIdx, used, usedIdx, lastAvail, lastUsed, answer>>
  BY Bounds DEF Fill, Data, Req, device
<1>6. PICK g : g = Longer(C, A, h, e)
  OBVIOUS
<1>7. /\ g[A] = e /\ \A k \in C .. A - 1 : g[k] = h[k]
  BY <1>0, <1>6 DEF Longer
<1>8. /\ \A k \in C .. (A + 1) - 1 : k = A \/ k \in C .. A - 1
      /\ A \notin C .. A - 1 /\ A \in C .. (A + 1) - 1
      /\ \A k \in C .. A - 1 : k \in C .. (A + 1) - 1
      /\ \A k \in L .. A - 1 : k \in C .. A - 1
  BY <1>0
<1>9. Counts(C, U, L, A, A + 1)'
  BY <1>0, <1>2, <1>3, <1>5 DEF Laid, Counts
<1>a. Cardinality(free') = Cardinality(free) - 1 /\ Cardinality(free') \in Nat
  <2>1. IsFiniteSet(free')
    BY <1>0, <1>4, FS_Subset
  <2> QED
    BY <1>0, <1>4, <2>1, FS_RemoveElement, FS_CardinalityType
<1>b. A - C < Size /\ Cardinality(free') + ((A + 1) - C) = Size
  BY <1>0, <1>2, <1>a DEF Laid, Chains
<1>10. Chains(C, A + 1, g)'
  <2>1. /\ \A k \in C .. A - 1 : h[k] \in Entry
        /\ \A j, k \in C .. A - 1 : h[j] = h[k] => j = k
        /\ \A k \in C .. A - 1 : h[k] \notin free
        /\ \A x \in Entry : x \in free \/ \E k \in C .. A - 1 : h[k] = x
    BY <1>2 DEF Laid, Chains
  <2>2. e \in Entry /\ \A k \in C .. A - 1 : h[k] # e
    BY <1>4, <2>1 DEF Data
  <2>3. \A k \in C .. (A + 1) - 1 : g[k] \in Entry
    BY <1>7, <1>8, <2>1, <2>2
  <2>4. \A j, k \in C .. (A + 1) - 1 : g[j] = g[k] => j = k
    BY <1>7, <1>8, <2>1, <2>2
  <2>5. \A k \in C .. (A + 1) - 1 : g[k] \notin free'
    BY <1>4, <1>7, <1>8, <2>1
  <2>6. \A x \in Entry : x \in free' \/ \E k \in C .. (A + 1) - 1 : g[k] = x
    BY <1>4, <1>7, <1>8, <2>1
  <2> QED
    BY <1>b, <2>3, <2>4, <2>5, <2>6 DEF Chains
<1>11. Slots(C, L, A + 1, g)'
  <2>1. \A k \in C .. L - 1 : k \in C .. A - 1
    BY <1>0
  <2>2. \A k \in C .. L - 1 : used'[k % Size] = g[k]
    BY <1>5, <1>7, <2>1 DEF Laid, Slots
  <2>3. Slot(availIdx) = A % Size /\ A % Size \in Entry
    BY <1>0, SlotOfIndex DEF Laid, Counts
  <2>4. ASSUME NEW k \in L .. (A + 1) - 1 PROVE avail'[k % Size] = g[k]
    <3>1. CASE k = A
      BY <1>4, <1>7, <2>3, <3>1 DEF Data
    <3>2. CASE k # A
      <4>1. k \in Nat /\ k < A /\ A - k < Size /\ k \in L .. A - 1
        BY <1>0, <1>b, <3>2
      <4>2. k % Size # A % Size /\ avail[k % Size] = h[k]
        BY <1>0, <1>2, <4>1, SlotsApart DEF Laid, Slots
      <4>3. k % Size \in Entry
        BY <4>1, SlotOfIndex
      <4> QED
        BY <1>4, <1>7, <1>8, <2>3, <4>1, <4>2, <4>3 DEF Data
    <3> QED
      BY <3>1, <3>2
  <2> QED
    BY <2>2, <2>4 DEF Slots
<1>12. Requests(C, L, A + 1, g)'
  <2>1. /\ \A k \in C .. A - 1 : desc[h[k]] \in 1 .. made
        /\ \A k \in L .. A - 1 : answer[desc[h[k]]].status = "none"
        /\ \A j, k \in L .. A - 1 : desc[h[j]] = desc[h[k]] => j = k
    BY <1>2 DEF Laid, Requests
  <2>2. \A k \in C .. A - 1 : h[k] \in Entry /\ h[k] # e
    BY <1>2, <1>4 DEF Laid, Chains
  <2>3. desc'[g[A]] = made + 1
    BY <1>4, <1>7 DEF Data
  <2>4. \A k \in C .. A - 1 : desc'[g[k]] = desc[h[k]]
    BY <1>4, <1>7, <2>2 DEF Data
  <2>5. \A k \in C .. (A + 1) - 1 : desc'[g[k]] \in 1 .. made'
    <3>1. made + 1 \in 1 .. made' /\ \A i \in 1 .. made : i \in 1 .. made'
      BY <1>5
    <3> QED
      BY <1>8, <2>1, <2>3, <2>4, <3>1
  <2>6. answer[made + 1].status = "none"
    BY <1>5 DEF Data
  <2>7. \A k \in L .. (A + 1) - 1 : k = A \/ (k \in L .. A - 1 /\ k \in C .. A - 1)
    BY <1>0
  <2>8. \A k \in L .. (A + 1) - 1 : answer'[desc'[g[k]]].status = "none"
    BY <1>5, <2>1, <2>3, <2>4, <2>6, <2>7
  <2>9. \A k \in C .. A - 1 : desc'[g[k]] # made + 1
    BY <1>5, <2>1, <2>4
  <2>10. \A j, k \in L .. (A + 1) - 1 : desc'[g[j]] = desc'[g[k]] => j = k
    BY <2>1, <2>3, <2>4, <2>7, <2>9
  <2> QED
    BY <2>5, <2>8, <2>10 DEF Requests
<1>13. Laid(C, U, L, A, A + 1, g)'
  BY <1>9, <1>10, <1>11, <1>12 DEF Laid
<1>14. Laid(C, U, L, A, A + 1, Longer(C, A, h, e))'
  BY <1>6, <1>13 DEF Longer
<1>15. \A k \in L .. A - 1 : desc'[g[k]] = desc[h[k]]
  <2>1. \A k \in C .. A - 1 : h[k] \in Entry /\ h[k] # e
    BY <1>2, <1>4 DEF Laid, Chains
  <2> QED
    BY <1>4, <1>7, <1>8, <2>1 DEF Data
<1> QED
  BY <1>2, <1>6, <1>14, <1>15

LEMMA RingKept ==
  ASSUME BlockInv, NEW v \in Vcpu, Step(v) \/ Fill(v) \/ Reset(v)
  PROVE  Ring'
<1>0. Control /\ Data /\ Ring
  BY DEF BlockInv
<1>1. CASE Probe(v)
  <2>1. Laid(0, 0, 0, 0, 0, <<>>)'
    BY <1>0, <1>1, ProbeRing
  <2> QED
    BY <2>1 DEF Ring
<1>2. ASSUME pc[v] \notin {"idle", "irq_read"}
      PROVE  \E C, U, L, A, N, h : Laid(C, U, L, A, N, h)
  BY <1>0, <1>2, SetUp DEF Ring
<1>3. CASE PublishRequest(v)
  <2>1. pc[v] = "fill"
    BY <1>3 DEF PublishRequest, Goto
  <2>2. PICK C, U, L, A, N, h : Laid(C, U, L, A, N, h)
    BY <1>2, <2>1
  <2>3. Laid(C, U, L, A + 1, N, h)'
    BY <1>0, <1>3, <2>2, PublishRing
  <2> QED
    BY <2>3 DEF Ring
<1>4. CASE Drain(v)
  <2>1. pc[v] = "drain"
    BY <1>4 DEF Drain, Goto
  <2>2. PICK C, U, L, A, N, h : Laid(C, U, L, A, N, h)
    BY <1>2, <2>1
  <2>3. Laid(C, U, L + 1, A, N, h)'
    BY <1>0, <1>4, <2>2, DrainRing
  <2> QED
    BY <2>3 DEF Ring
<1>5. CASE Commit(v)
  <2>1. pc[v] = "commit"
    BY <1>5 DEF Commit, Goto
  <2>2. PICK C, U, L, A, N, h : Laid(C, U, L, A, N, h)
    BY <1>2, <2>1
  <2>3. Laid(C, U + 1, L, A, N, h)'
    BY <1>0, <1>5, <2>2, CommitRing
  <2> QED
    BY <2>3 DEF Ring
<1>6. CASE Collect(v)
  <2>1. pc[v] = "irq_scan"
    BY <1>6 DEF Collect
  <2>2. PICK C, U, L, A, N, h : Laid(C, U, L, A, N, h)
    BY <1>2, <2>1
  <2>3. Laid(C + 1, U, L, A, N, h)'
    BY <1>0, <1>6, <2>2, CollectRing
  <2> QED
    BY <2>3 DEF Ring
<1>7. CASE Fill(v)
  <2>1. ready
    BY <1>7 DEF Fill
  <2>2. PICK C, U, L, A, N, h : Laid(C, U, L, A, N, h)
    BY <1>0, <2>1 DEF Ring
  <2>3. PICK e : Laid(C, U, L, A, A + 1, Longer(C, A, h, e))'
    BY <1>0, <1>7, <2>2, FillRing
  <2> QED
    BY <2>3 DEF Ring
<1>8. CASE Reset(v)
  BY <1>8 DEF Reset, Ring
<1>9. CASE \/ Notify(v) \/ Drained(v) \/ Raise(v) \/ TakeIrq(v)
           \/ ReadIrqStatus(v) \/ AckIrq(v) \/ ScanDone(v)
  <2>1. UNCHANGED <<avail, availIdx, used, usedIdx, desc, ready, lastAvail, free,
                    lastUsed, made, answer>>
    BY <1>9 DEF Notify, Drained, Raise, TakeIrq, ReadIrqStatus, AckIrq, ScanDone,
       rings, device, driver
  <2>2. pc \in [Vcpu -> PcStates]
    BY <1>0 DEF Control
  <2>3. (Busy' <=> Busy) /\ (Fills' <=> Fills)
    BY <1>9, <2>2 DEF Notify, Drained, Raise, TakeIrq, ReadIrqStatus, AckIrq,
       ScanDone, Goto, Busy, Fills
  <2> QED
    BY <1>0, <2>1, <2>3, RingFrame
<1> QED
  BY <1>1, <1>3, <1>4, <1>5, <1>6, <1>7, <1>8, <1>9 DEF Step

LEMMA BlockInvHolds == Spec => []BlockInv
<1>1. BlockInv /\ [Next]_vars => BlockInv'
  <2> SUFFICES ASSUME BlockInv, [Next]_vars PROVE BlockInv'
    OBVIOUS
  <2>1. CASE UNCHANGED vars
    <3>1. Control' /\ Data'
      BY <2>1 DEF BlockInv, Control, Data, vars, rings, device, driver
    <3>2. Ring'
      BY <2>1, RingFrame DEF BlockInv, vars, rings, device, driver, Busy, Fills
    <3> QED
      BY <3>1, <3>2 DEF BlockInv
  <2>2. ASSUME NEW v \in Vcpu, Step(v) \/ Fill(v) \/ Reset(v) PROVE BlockInv'
    BY <2>2, ControlKept, DataKept, RingKept DEF BlockInv
  <2> QED
    BY <2>1, <2>2 DEF Next
<1> QED
  BY <1>1, BlockInit, PTL DEF Spec

-----------------------------------------------------------------------------
(* The types hold, and a descriptor chain is in one place at a time: free, *)
(* filled, waiting in the available ring, or waiting in the used ring, so  *)
(* no ring slot is overwritten before it is read, however often the 16-bit *)
(* indices wrap (process_rq, and the driver's use of the rings).            *)
THEOREM BlockTypeCorrect == Spec => []ChainsConserved
<1>1. BlockInv => ChainsConserved
  <2> SUFFICES ASSUME BlockInv PROVE ChainsConserved
    OBVIOUS
  <2>0. Control /\ Data
    BY DEF BlockInv
  <2>1. TypeOK
    BY <2>0 DEF Control, Data, TypeOK, Req
  <2>2. ASSUME ready
        PROVE  /\ Len(Unserved) + Len(Uncollected) + Cardinality(Filling)
                    + Cardinality(free) = Size
               /\ RangeOf(Unserved) \cup RangeOf(Uncollected) \cup Filling \cup free
                    = Entry
    <3>1. PICK C, U, L, A, N, h : Laid(C, U, L, A, N, h)
      BY <2>2 DEF BlockInv, Ring
    <3>2. /\ C <= U /\ U <= L /\ L <= A /\ A <= N /\ N - C <= Size
          /\ C \in Nat /\ U \in Nat /\ L \in Nat /\ A \in Nat /\ N \in Nat
          /\ Cardinality(free) \in Nat /\ Cardinality(free) + (N - C) = Size
          /\ N = (IF Fills THEN A + 1 ELSE A)
      <4>1. Counts(C, U, L, A, N) /\ Chains(C, N, h)
        BY <3>1 DEF Laid
      <4>2. /\ N = (IF Fills THEN A + 1 ELSE A)
            /\ Cardinality(free) + (N - C) = Size
        BY <4>1 DEF Counts, Chains
      <4> QED
        BY <2>0, <4>1, <4>2, Room
    <3>3. /\ Unserved = [k \in 1 .. A - L |-> h[L + k - 1]]
          /\ Uncollected = [k \in 1 .. L - C |-> h[C + k - 1]]
          /\ Filling = {h[k] : k \in A .. N - 1}
      BY <2>0, <2>2, <3>1, WindowsAre
    <3>4. /\ A - L \in Nat /\ L - C \in Nat /\ Size \in Nat
          /\ Len(Unserved) = A - L /\ Len(Uncollected) = L - C
      BY <3>2, <3>3, Bounds
    <3>5. Cardinality(Filling) = N - A
      <4>1. CASE Fills
        <5>1. N = A + 1 /\ A .. N - 1 = {A}
          BY <3>2, <4>1
        <5>2. Filling = {h[A]}
          BY <3>3, <5>1
        <5>3. N - A = 1
          BY <3>2, <5>1
        <5> QED
          BY <5>2, <5>3, FS_Singleton
      <4>2. CASE ~Fills
        <5>1. N = A /\ A .. N - 1 = {}
          BY <3>2, <4>2
        <5>2. Filling = {} /\ N - A = 0
          BY <3>2, <3>3, <5>1
        <5> QED
          BY <5>2, FS_EmptySet
      <4> QED
        BY <4>1, <4>2
    <3>6. Len(Unserved) + Len(Uncollected) + Cardinality(Filling)
            + Cardinality(free) = Size
      BY <3>2, <3>4, <3>5
    <3>7. /\ \A k \in C .. N - 1 : h[k] \in Entry
          /\ \A x \in Entry : x \in free \/ \E k \in C .. N - 1 : h[k] = x
      BY <3>1 DEF Laid, Chains
    <3>8. RangeOf(Unserved) = {h[k] : k \in L .. A - 1}
      <4>1. DOMAIN Unserved = 1 .. A - L
        BY <3>3
      <4>2. ASSUME NEW k \in 1 .. A - L
            PROVE  \E i \in L .. A - 1 : Unserved[k] = h[i]
        <5>1. L + k - 1 \in L .. A - 1 /\ Unserved[k] = h[L + k - 1]
          BY <3>2, <3>3
        <5> QED
          BY <5>1
      <4>3. ASSUME NEW i \in L .. A - 1
            PROVE  \E k \in 1 .. A - L : Unserved[k] = h[i]
        <5>1. i - L + 1 \in 1 .. A - L /\ L + (i - L + 1) - 1 = i
          BY <3>2
        <5>2. Unserved[i - L + 1] = h[i]
          BY <3>3, <5>1
        <5> QED
          BY <5>1, <5>2
      <4> QED
        <5>1. RangeOf(Unserved) = {Unserved[k] : k \in 1 .. A - L}
          BY <4>1 DEF RangeOf
        <5>2. \A k \in 1 .. A - L : Unserved[k] \in {h[i] : i \in L .. A - 1}
          BY <4>2
        <5>3. \A i \in L .. A - 1 : h[i] \in {Unserved[k] : k \in 1 .. A - L}
          BY <4>3
        <5> QED
          BY <5>1, <5>2, <5>3
    <3>9. RangeOf(Uncollected) = {h[k] : k \in C .. L - 1}
      <4>1. DOMAIN Uncollected = 1 .. L - C
        BY <3>3
      <4>2. ASSUME NEW k \in 1 .. L - C
            PROVE  \E i \in C .. L - 1 : Uncollected[k] = h[i]
        <5>1. C + k - 1 \in C .. L - 1 /\ Uncollected[k] = h[C + k - 1]
          BY <3>2, <3>3
        <5> QED
          BY <5>1
      <4>3. ASSUME NEW i \in C .. L - 1
            PROVE  \E k \in 1 .. L - C : Uncollected[k] = h[i]
        <5>1. i - C + 1 \in 1 .. L - C /\ C + (i - C + 1) - 1 = i
          BY <3>2
        <5>2. Uncollected[i - C + 1] = h[i]
          BY <3>3, <5>1
        <5> QED
          BY <5>1, <5>2
      <4> QED
        <5>1. RangeOf(Uncollected) = {Uncollected[k] : k \in 1 .. L - C}
          BY <4>1 DEF RangeOf
        <5>2. \A k \in 1 .. L - C : Uncollected[k] \in {h[i] : i \in C .. L - 1}
          BY <4>2
        <5>3. \A i \in C .. L - 1 : h[i] \in {Uncollected[k] : k \in 1 .. L - C}
          BY <4>3
        <5> QED
          BY <5>1, <5>2, <5>3
    <3>10. \A k \in C .. N - 1 : k \in C .. L - 1 \/ k \in L .. A - 1 \/ k \in A .. N - 1
      BY <3>2
    <3>11. /\ \A k \in C .. L - 1 : k \in C .. N - 1
           /\ \A k \in L .. A - 1 : k \in C .. N - 1
           /\ \A k \in A .. N - 1 : k \in C .. N - 1
      BY <3>2
    <3>12. RangeOf(Unserved) \cup RangeOf(Uncollected) \cup Filling \cup free = Entry
      <4>1. free \subseteq Entry
        BY <2>0 DEF Data
      <4> QED
        BY <3>3, <3>7, <3>8, <3>9, <3>10, <3>11, <4>1
    <3> QED
      BY <3>6, <3>12
  <2> QED
    BY <2>1, <2>2 DEF ChainsConserved
<1> QED
  BY <1>1, BlockInvHolds, PTL

-----------------------------------------------------------------------------
(* The device as its guest sees it.                                        *)

\* The requests not served: those of the chains h[L], ..., h[A - 1].
QueueIs ==
  \A C, U, L, A, N, h :
    ready /\ Data /\ Laid(C, U, L, A, N, h) =>
      /\ L \in Nat /\ A \in Nat /\ A - L \in Nat
      /\ Queue = [k \in 1 .. A - L |-> desc[h[L + k - 1]]]
      /\ Queue \in Seq(Req) /\ Len(Queue) = A - L
      /\ \A k \in 1 .. A - L : Queue[k] \in 1 .. made

LEMMA QueueHolds == QueueIs
<1> SUFFICES ASSUME NEW C, NEW U, NEW L, NEW A, NEW N, NEW h,
                    ready, Data, Laid(C, U, L, A, N, h)
             PROVE  /\ L \in Nat /\ A \in Nat /\ A - L \in Nat
                    /\ Queue = [k \in 1 .. A - L |-> desc[h[L + k - 1]]]
                    /\ Queue \in Seq(Req) /\ Len(Queue) = A - L
                    /\ \A k \in 1 .. A - L : Queue[k] \in 1 .. made
  BY DEF QueueIs
<1>0. /\ C <= U /\ U <= L /\ L <= A /\ A <= N
      /\ C \in Nat /\ U \in Nat /\ L \in Nat /\ A \in Nat /\ N \in Nat
  BY Room DEF Laid
<1>1. Unserved = [k \in 1 .. A - L |-> h[L + k - 1]] /\ A - L \in Nat
  <2>1. Unserved = [k \in 1 .. A - L |-> h[L + k - 1]]
    BY WindowsAre
  <2> QED
    BY <1>0, <2>1
<1>2. Len(Unserved) = A - L
  BY <1>1
<1>3. Queue = [k \in 1 .. A - L |-> desc[h[L + k - 1]]]
  BY <1>1, <1>2 DEF Queue
<1>4. ASSUME NEW k \in 1 .. A - L PROVE desc[h[L + k - 1]] \in 1 .. made
  <2>1. L + k - 1 \in C .. N - 1
    BY <1>0
  <2> QED
    BY <2>1 DEF Laid, Requests
<1>5. 1 .. made \subseteq Req
  BY Bounds DEF Data, Req
<1>6. \A k \in 1 .. A - L : Queue[k] \in 1 .. made
  BY <1>3, <1>4
<1>7. Len(Queue) = A - L
  BY <1>1, <1>3
<1>8. Queue \in Seq(Req)
  <2>1. \A k \in 1 .. A - L : desc[h[L + k - 1]] \in Req
    BY <1>4, <1>5
  <2> QED
    BY <1>1, <1>3, <2>1
<1> QED
  BY <1>0, <1>1, <1>3, <1>6, <1>7, <1>8

LEMMA NoQueue == ~ready => Queue = <<>>
BY DEF Queue, Unserved

LEMMA DiskInit == Init => Disk!Init
<1> SUFFICES ASSUME Init PROVE Disk!Init
  OBVIOUS
<1>1. Queue = <<>>
  BY NoQueue DEF Init
<1>2. disk = Disk!Blank
  BY DEF Init, Blank, Disk!Blank
<1>3. \A r \in Req : answer[r].status = "none"
  BY DEF Init, NoAnswer
<1> QED
  BY <1>1, <1>2, <1>3 DEF Disk!Init

\* A request in its chain is one the disk has not seen.
LEMMA DiskFill ==
  ASSUME BlockInv, BlockInv', NEW v \in Vcpu, Fill(v)
  PROVE  Disk!Next
<1>0. Control /\ Data /\ Ring /\ Data' /\ ready /\ ready'
  BY DEF BlockInv, Fill, device
<1>1. PICK C, U, L, A, N, h : Laid(C, U, L, A, N, h)
  BY <1>0 DEF Ring
<1>2. PICK e :
        /\ Laid(C, U, L, A, A + 1, Longer(C, A, h, e))'
        /\ \A k \in L .. A - 1 : desc'[Longer(C, A, h, e)[k]] = desc[h[k]]
  BY <1>0, <1>1, FillRing
<1>3. PICK g : g = Longer(C, A, h, e)
  OBVIOUS
<1>4. /\ L \in Nat /\ A \in Nat /\ A - L \in Nat
      /\ Queue = [k \in 1 .. A - L |-> desc[h[L + k - 1]]]
      /\ Len(Queue) = A - L
      /\ \A k \in 1 .. A - L : Queue[k] \in 1 .. made
  BY <1>0, <1>1, QueueHolds DEF QueueIs
<1>5. QueueIs'
  BY QueueHolds, PTL
<1>6. Laid(C, U, L, A, A + 1, g)'
  BY <1>2, <1>3 DEF Longer
<1>7. Queue' = [k \in 1 .. A - L |-> desc'[g[L + k - 1]]]
  BY <1>0, <1>5, <1>6 DEF QueueIs
<1>8. \A k \in 1 .. A - L : desc'[g[L + k - 1]] = desc[h[L + k - 1]]
  <2>1. \A k \in 1 .. A - L : L + k - 1 \in L .. A - 1
    BY <1>4
  <2> QED
    BY <1>2, <1>3, <2>1
<1>9. Queue' = Queue
  BY <1>4, <1>7, <1>8
<1>10. /\ made + 1 \in Req /\ made \in Nat /\ UNCHANGED <<answer, disk>>
       /\ \A q \in Req \ {made + 1} : asked'[q] = asked[q]
  <2>1. made + 1 \in Req /\ made \in Nat
    BY <1>0, Bounds DEF Fill, Data, Req
  <2> QED
    BY <1>0, <2>1 DEF Fill, Data, device
<1>11. Disk!Fresh(made + 1)
  <2>1. answer[made + 1].status = "none"
    BY <1>0, <1>10 DEF Data
  <2>2. \A k \in 1 .. Len(Queue) : Queue[k] # made + 1
    BY <1>4, <1>10
  <2> QED
    BY <2>1, <2>2 DEF Disk!Fresh
<1>12. Disk!Prepare(made + 1)
  BY <1>9, <1>10, <1>11 DEF Disk!Prepare
<1> QED
  BY <1>10, <1>12 DEF Disk!Next

\* avail->idx submits it.
LEMMA DiskSubmit ==
  ASSUME BlockInv, BlockInv', NEW v \in Vcpu, PublishRequest(v)
  PROVE  Disk!Next
<1>0. /\ Control /\ Data /\ Ring /\ Data' /\ pc[v] = "fill"
      /\ ready' = ready /\ UNCHANGED <<desc, asked, answer, disk>>
  BY DEF BlockInv, PublishRequest, device, driver, Goto
<1>1. ready
  BY <1>0, SetUp
<1>2. PICK C, U, L, A, N, h : Laid(C, U, L, A, N, h)
  BY <1>0, <1>1 DEF Ring
<1>3. Laid(C, U, L, A + 1, N, h)' /\ N = A + 1
  BY <1>0, <1>2, PublishRing
<1>4. /\ L \in Nat /\ A \in Nat /\ A - L \in Nat
      /\ Queue = [k \in 1 .. A - L |-> desc[h[L + k - 1]]]
      /\ Queue \in Seq(Req) /\ Len(Queue) = A - L
  BY <1>0, <1>1, <1>2, QueueHolds DEF QueueIs
<1>5. QueueIs'
  BY QueueHolds, PTL
<1>6. /\ Queue' = [k \in 1 .. (A + 1) - L |-> desc[h[L + k - 1]]]
      /\ Queue' \in Seq(Req) /\ Len(Queue') = (A + 1) - L
  BY <1>0, <1>1, <1>3, <1>5 DEF QueueIs
<1>7. PICK r : r = desc[h[A]]
  OBVIOUS
<1>8. /\ A \in L .. N - 1 /\ (A + 1) - L \in 1 .. (A + 1) - L
      /\ L + ((A + 1) - L) - 1 = A /\ A - L + 1 = (A + 1) - L
      /\ \A k \in 1 .. A - L : /\ L + k - 1 \in L .. N - 1 /\ L + k - 1 # A
                               /\ k \in 1 .. (A + 1) - L
      /\ \A k \in 1 .. (A + 1) - L : k \in 1 .. A - L \/ k = (A + 1) - L
  BY <1>3, <1>4
<1>9. r \in Req
  <2>1. Queue'[(A + 1) - L] = r
    BY <1>6, <1>7, <1>8
  <2> QED
    BY <1>6, <1>8, <2>1, ElementOfSeq
<1>10. Queue' = Append(Queue, r)
  <2>1. /\ Append(Queue, r) \in Seq(Req) /\ Len(Append(Queue, r)) = (A - L) + 1
        /\ \A k \in 1 .. A - L : Append(Queue, r)[k] = Queue[k]
        /\ Append(Queue, r)[(A - L) + 1] = r
    BY <1>4, <1>9, AppendProperties
  <2>2. \A k \in 1 .. A - L : Queue'[k] = Queue[k]
    BY <1>4, <1>6, <1>8
  <2>3. Queue'[(A + 1) - L] = r
    BY <1>6, <1>7, <1>8
  <2>4. \A k \in 1 .. Len(Queue') : Queue'[k] = Append(Queue, r)[k]
    BY <1>6, <1>8, <2>1, <2>2, <2>3
  <2>5. Len(Queue') = Len(Append(Queue, r))
    BY <1>6, <1>8, <2>1
  <2> QED
    BY <1>6, <2>1, <2>4, <2>5, SeqEqual
<1>11. Disk!Fresh(r)
  <2>1. /\ \A k \in L .. N - 1 : answer[desc[h[k]]].status = "none"
        /\ \A j, k \in L .. N - 1 : desc[h[j]] = desc[h[k]] => j = k
    BY <1>2 DEF Laid, Requests
  <2>2. answer[r].status = "none"
    BY <1>7, <1>8, <2>1
  <2>3. \A k \in 1 .. A - L : Queue[k] # r
    BY <1>4, <1>7, <1>8, <2>1
  <2> QED
    BY <1>4, <2>2, <2>3 DEF Disk!Fresh
<1>12. Disk!Submit(r)
  BY <1>0, <1>10, <1>11 DEF Disk!Submit
<1> QED
  BY <1>9, <1>12 DEF Disk!Next

\* A turn of process_rq's loop serves the request that waited longest.
LEMMA DiskServe ==
  ASSUME BlockInv, BlockInv', NEW v \in Vcpu, Drain(v)
  PROVE  Disk!Next
<1>0. /\ Control /\ Data /\ Ring /\ Data' /\ pc[v] = "drain"
      /\ ready' = ready /\ UNCHANGED <<desc, asked>>
  BY DEF BlockInv, Drain, driver, Goto
<1>1. ready
  BY <1>0, SetUp
<1>2. PICK C, U, L, A, N, h : Laid(C, U, L, A, N, h)
  BY <1>0, <1>1 DEF Ring
<1>3. Laid(C, U, L + 1, A, N, h)'
  BY <1>0, <1>2, DrainRing
<1>4. /\ L \in Nat /\ A \in Nat /\ A - L \in Nat
      /\ Queue = [k \in 1 .. A - L |-> desc[h[L + k - 1]]]
      /\ Queue \in Seq(Req) /\ Len(Queue) = A - L
  BY <1>0, <1>1, <1>2, QueueHolds DEF QueueIs
<1>5. QueueIs'
  BY QueueHolds, PTL
<1>6. /\ Queue' = [k \in 1 .. A - (L + 1) |-> desc[h[(L + 1) + k - 1]]]
      /\ Queue' \in Seq(Req) /\ Len(Queue') = A - (L + 1)
  BY <1>0, <1>1, <1>3, <1>5 DEF QueueIs
<1>7. /\ L <= A - 1 /\ avail[Slot(lastAvail)] = h[L] /\ h[L] \in Entry
      /\ desc[h[L]] \in 1 .. made
  BY <1>0, <1>2, <1>4, ServedHead
<1>8. PICK r \in Req : r = desc[h[L]] /\ r = desc[avail[Slot(lastAvail)]]
  BY <1>0, <1>7, Bounds DEF Data, Req
<1>9. /\ Queue # <<>> /\ Head(Queue) = r /\ Queue' = Tail(Queue)
  <2>1. 1 \in 1 .. A - L /\ L + 1 - 1 = L /\ A - (L + 1) = (A - L) - 1
    BY <1>4, <1>7
  <2>2. Queue[1] = r /\ Queue # <<>> /\ Head(Queue) = Queue[1]
    <3>1. Queue[1] = desc[h[L]]
      BY <1>4, <2>1
    <3>2. Len(Queue) # 0
      BY <1>4, <1>7
    <3>3. Queue # <<>>
      BY <3>2
    <3> QED
      BY <1>4, <1>8, <3>1, <3>3
  <2>3. /\ Tail(Queue) \in Seq(Req) /\ Len(Tail(Queue)) = (A - L) - 1
        /\ \A k \in 1 .. (A - L) - 1 : Tail(Queue)[k] = Queue[k + 1]
    <3>1. Queue \in Seq(Req) /\ Queue # <<>> /\ Len(Queue) = A - L
      BY <1>4, <2>2
    <3>2. /\ Tail(Queue) \in Seq(Req) /\ Len(Tail(Queue)) = Len(Queue) - 1
          /\ \A k \in 1 .. Len(Tail(Queue)) : Tail(Queue)[k] = Queue[k + 1]
      BY <3>1, HeadTailProperties
    <3> QED
      BY <3>1, <3>2
  <2>4. \A k \in 1 .. (A - L) - 1 : k + 1 \in 1 .. A - L /\ (L + 1) + k - 1 = L + (k + 1) - 1
    BY <1>4, <2>1
  <2>5. \A k \in 1 .. (A - L) - 1 : Queue'[k] = Queue[k + 1]
    BY <1>4, <1>6, <2>1, <2>4
  <2>6. Queue' = Tail(Queue)
    BY <1>6, <2>1, <2>3, <2>5, SeqEqual
  <2> QED
    BY <2>2, <2>6
<1>10. PICK o \in Outcomes(asked[r], r) :
          /\ disk' = o.disk
          /\ answer' = [answer EXCEPT ![r] = [status |-> o.status,
                                              data |-> o.data]]
  BY <1>8 DEF Drain
<1>11. \/ Disk!Read(r) \/ Disk!Write(r) \/ Disk!Acknowledge(r)
       \/ Disk!Refuse(r) \/ Disk!Fail(r)
  <2>0. asked[r] \in Ask
    BY <1>0 DEF Data
  <2>1. PICK a \in Ask : a = asked[r]
    BY <2>0
  <2> DEFINE read == [s \in Sector |-> IF s \in Covered(a) THEN disk[s] ELSE 0]
             ok(data, d) == [status |-> "ok", data |-> data, disk |-> d]
  <2>2. \A k : Part(a, r, k) = Disk!Written(r, k)
    BY <2>1 DEF Part, Disk!Written, Disk!Span
  <2>3. read = [s \in Sector |->
                  IF s \in Disk!Span(r, asked[r].segs) THEN disk[s] ELSE 0]
    BY <2>1 DEF Covered, Disk!Span
  <2>4. Disk!Blank = Blank
    BY DEF Disk!Blank, Blank
  <2>5. CASE o \in Successes(a, r)
    <3>1. \/ a.op = "in" /\ o = ok(read, disk)
          \/ a.op = "out" /\ o = ok(Blank, Part(a, r, a.segs))
          \/ a.op \in {"flush", "id"} /\ o = ok(Blank, disk)
          \/ /\ a.op = "other"
             /\ o = [status |-> "unsupp", data |-> Blank, disk |-> disk]
      BY <2>5 DEF Successes, Ask, Ops
    <3> HIDE DEF read
    <3>2. CASE a.op = "in" /\ o = ok(read, disk)
      BY <1>10, <2>1, <2>3, <3>2 DEF Disk!Read
    <3>3. CASE a.op = "out" /\ o = ok(Blank, Part(a, r, a.segs))
      BY <1>10, <2>1, <2>2, <2>4, <3>3 DEF Disk!Write
    <3>4. CASE a.op \in {"flush", "id"} /\ o = ok(Blank, disk)
      BY <1>10, <2>1, <2>4, <3>4 DEF Disk!Acknowledge
    <3>5. CASE /\ a.op = "other"
               /\ o = [status |-> "unsupp", data |-> Blank, disk |-> disk]
      BY <1>10, <2>1, <2>4, <3>5 DEF Disk!Refuse
    <3> QED
      BY <3>1, <3>2, <3>3, <3>4, <3>5
  <2>6. CASE o \notin Successes(a, r)
    <3>1. PICK d \in Failures(a, r) :
            o = [status |-> "ioerr", data |-> Blank, disk |-> d]
      BY <1>10, <2>1, <2>6 DEF Outcomes
    <3>2. /\ a.op \in {"in", "out", "flush"}
          /\ \/ d = disk
             \/ a.op = "out" /\ \E k \in 0 .. a.segs - 1 : d = Part(a, r, k)
      BY <3>1 DEF Failures, Ask, Ops
    <3> QED
      BY <1>10, <2>1, <2>2, <2>4, <3>1, <3>2 DEF Disk!Fail
  <2> QED
    BY <2>5, <2>6
<1>12. Disk!Serve
  BY <1>0, <1>9, <1>11 DEF Disk!Serve
<1> QED
  BY <1>12 DEF Disk!Next

\* The other steps do not touch the requests that wait.
LEMMA DiskStays ==
  ASSUME BlockInv, BlockInv', NEW v \in Vcpu,
         \/ Probe(v) \/ Notify(v) \/ Commit(v) \/ Drained(v) \/ Raise(v)
         \/ TakeIrq(v) \/ ReadIrqStatus(v) \/ AckIrq(v) \/ Collect(v) \/ ScanDone(v)
  PROVE  UNCHANGED <<Queue, asked, answer, disk>>
<1>0. Control /\ Data /\ Ring /\ Data' /\ Ring' /\ pc \in [Vcpu -> PcStates]
  BY DEF BlockInv, Control
<1>1. UNCHANGED <<asked, answer, disk>>
  BY DEF Probe, Notify, Commit, Drained, Raise, TakeIrq, ReadIrqStatus, AckIrq,
     Collect, ScanDone, device, driver
<1>2. QueueIs'
  BY QueueHolds, PTL
<1>3. CASE Probe(v)
  <2>1. Queue = <<>> /\ ready'
    BY <1>3, NoQueue DEF Probe
  <2>2. Laid(0, 0, 0, 0, 0, <<>>)'
    BY <1>0, <1>3, ProbeRing
  <2>3. Queue' \in Seq(Req) /\ Len(Queue') = 0 - 0
    BY <1>0, <1>2, <2>1, <2>2 DEF QueueIs
  <2>4. Queue' = <<>>
    BY <2>3, EmptySeq
  <2> QED
    BY <1>1, <2>1, <2>4
<1>4. CASE Commit(v)
  <2>1. ready /\ ready' = ready /\ desc' = desc
    BY <1>0, <1>4, SetUp DEF Commit, Goto
  <2>2. PICK C, U, L, A, N, h : Laid(C, U, L, A, N, h)
    BY <1>0, <2>1 DEF Ring
  <2>3. Laid(C, U + 1, L, A, N, h)'
    BY <1>0, <1>4, <2>2, CommitRing
  <2>4. Queue = [k \in 1 .. A - L |-> desc[h[L + k - 1]]]
    BY <1>0, <2>1, <2>2, QueueHolds DEF QueueIs
  <2>5. Queue' = [k \in 1 .. A - L |-> desc[h[L + k - 1]]]
    BY <1>0, <1>2, <2>1, <2>3 DEF QueueIs
  <2> QED
    BY <1>1, <2>4, <2>5
<1>5. CASE \/ Notify(v) \/ Drained(v) \/ Raise(v) \/ TakeIrq(v)
           \/ ReadIrqStatus(v) \/ AckIrq(v) \/ Collect(v) \/ ScanDone(v)
  <2>1. UNCHANGED <<avail, availIdx, lastAvail, desc, ready>>
    BY <1>5 DEF Notify, Drained, Raise, TakeIrq, ReadIrqStatus, AckIrq, Collect,
       ScanDone, rings, device
  <2>2. Busy' <=> Busy
    BY <1>0, <1>5 DEF Notify, Drained, Raise, TakeIrq, ReadIrqStatus, AckIrq,
       Collect, ScanDone, Goto, Busy
  <2>3. Queue' = Queue
    <3>1. Window(avail, lastAvail, availIdx)' = Window(avail, lastAvail, availIdx)
      BY <2>1 DEF Window
    <3>2. Unserved' = Unserved
      BY <2>1, <2>2, <3>1 DEF Unserved
    <3> QED
      BY <2>1, <3>2 DEF Queue
  <2> QED
    BY <1>1, <2>3
<1> QED
  BY <1>3, <1>4, <1>5

\* The device (process_rq, and a zero written to Status) implements BlockService: it
\* serves each published request once, in the order they were published, a
\* read returns what the writes served before it left, and only a failed write
\* is partial.
THEOREM DiskImplemented == Spec => ImplementsDisk
<1>1. BlockInv /\ BlockInv' /\ [Next]_vars
        => [Disk!Next]_<<Queue, asked, answer, disk>>
  <2> SUFFICES ASSUME BlockInv, BlockInv', [Next]_vars
               PROVE  [Disk!Next]_<<Queue, asked, answer, disk>>
    OBVIOUS
  <2>1. CASE UNCHANGED vars
    BY <2>1 DEF vars, rings, device, driver, Queue, Unserved, Window, Busy
  <2>2. ASSUME NEW v \in Vcpu, Step(v) \/ Fill(v) \/ Reset(v)
        PROVE  [Disk!Next]_<<Queue, asked, answer, disk>>
    <3>1. CASE Fill(v)
      BY <3>1, DiskFill
    <3>2. CASE PublishRequest(v)
      BY <3>2, DiskSubmit
    <3>3. CASE Drain(v)
      BY <3>3, DiskServe
    <3>4. CASE Reset(v)
      <4>1. Queue' = <<>>
        <5>1. ~ready'
          BY <3>4 DEF Reset
        <5> QED
          BY <5>1 DEF Queue, Unserved
      <4> QED
        BY <3>4, <4>1 DEF Reset, Disk!Next, Disk!Abandon
    <3>5. CASE \/ Probe(v) \/ Notify(v) \/ Commit(v) \/ Drained(v) \/ Raise(v)
               \/ TakeIrq(v) \/ ReadIrqStatus(v) \/ AckIrq(v) \/ Collect(v)
               \/ ScanDone(v)
      BY <3>5, DiskStays
    <3> QED
      BY <2>2, <3>1, <3>2, <3>3, <3>4, <3>5 DEF Step
  <2> QED
    BY <2>1, <2>2 DEF Next
<1> QED
  BY <1>1, DiskInit, BlockInvHolds, PTL DEF Spec, ImplementsDisk, Disk!Spec

\* A request's buffers and status byte are written once: whatever is kicked,
\* wrapped or reset after it, process_rq never touches an answer the driver may
\* have collected (block.cpp:118-222).
THEOREM AnsweredOnce ==
  Spec => [][\A r \in Req : answer[r].status # "none" => answer'[r] = answer[r]]_vars
<1>1. BlockInv /\ [Next]_vars
        => [\A r \in Req : answer[r].status # "none" => answer'[r] = answer[r]]_vars
  <2> SUFFICES ASSUME BlockInv, NEW v \in Vcpu, Step(v) \/ Fill(v) \/ Reset(v),
                      NEW r \in Req, answer[r].status # "none"
               PROVE  answer'[r] = answer[r]
    BY DEF Next
  <2>1. CASE Drain(v)
    <3>0. Control /\ Data /\ Ring /\ pc[v] = "drain"
      BY <2>1 DEF BlockInv, Drain, Goto
    <3>1. ready
      BY <3>0, SetUp
    <3>2. PICK C, U, L, A, N, h : Laid(C, U, L, A, N, h)
      BY <3>0, <3>1 DEF Ring
    <3>3. PICK q : /\ q = desc[avail[Slot(lastAvail)]]
                   /\ answer[q].status = "none"
      BY <2>1, <3>0, <3>2, ServedHead
    <3>4. \A s \in Req \ {q} : answer'[s] = answer[s]
      BY <2>1, <3>0, <3>3 DEF Drain, Data
    <3> QED
      BY <3>3, <3>4
  <2>2. CASE ~Drain(v)
    <3>1. UNCHANGED answer
      BY <2>2 DEF Step, Probe, PublishRequest, Notify, Commit, Drained, Raise,
         TakeIrq, ReadIrqStatus, AckIrq, Collect, ScanDone, Fill, Reset
    <3> QED
      BY <3>1
  <2> QED
    BY <2>1, <2>2
<1> QED
  BY <1>1, BlockInvHolds, PTL DEF Spec

=============================================================================
