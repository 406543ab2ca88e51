----------------------------- MODULE Gpu_proofs -----------------------------
(***************************************************************************)
(* What the run gpu checks on two vCPUs and two resources of two by two    *)
(* pixels, proved for any number of them, any display, memory, scatter     *)
(* lists, rectangles and commands: types, no command refused, and that the *)
(* device implements Display.                                              *)
(*                                                                         *)
(* Where a pixel is in the backing pages is a matter of recursive          *)
(* functions over the scatter list, so the proof needs induction over      *)
(* data.  The library's induction theorems take an operator; LeastNatural  *)
(* below takes a set.                                                      *)
(***************************************************************************)
EXTENDS Gpu, FiniteSetTheorems, SequenceTheorems, WellFoundedInduction, TLAPS

LEMMA Bounds ==
  /\ Width \in Nat \ {0} /\ Height \in Nat \ {0}
  /\ Ring \in Nat /\ MaxCmds \in Nat /\ MaxDraws \in Nat /\ MaxResets \in Nat
  /\ Res \subseteq Nat \ {0} /\ Memory \subseteq Nat /\ IsFiniteSet(Memory)
  /\ Rects \subseteq Nat \X Nat \X Nat \X Nat
  /\ Pages \in [Res -> Seq([gpa : Nat, len : Nat])]
  /\ Nobody \notin Vcpu
  BY GpuAssumption DEF Nobody

-----------------------------------------------------------------------------
(* Induction over data.  A set of naturals has a least element: the        *)
(* intervals below its elements are ordered by strict inclusion, which is  *)
(* well-founded on finite sets.                                            *)
LEMMA LeastNatural ==
  ASSUME NEW T, T \subseteq Nat, T # {}
  PROVE  \E n \in T : \A m \in T : n <= m
<1> DEFINE Below == {0 .. n - 1 : n \in T}
<1>1. Below \subseteq FiniteSubsetsOf(Nat)
  <2>1. \A n \in Nat : IsFiniteSet(0 .. n - 1)
    BY FS_Interval
  <2> QED
    BY <2>1 DEF FiniteSubsetsOf
<1>2. Below # {}
  OBVIOUS
<1>3. PICK d \in Below : \A e \in Below : <<e, d>> \notin StrictSubsetOrdering(Nat)
  <2> HIDE DEF Below
  <2> QED
    BY <1>1, <1>2, FS_StrictSubsetOrderingWellFounded, WFMin, Zenon
<1>4. PICK n \in T : d = 0 .. n - 1
  BY <1>3
<1>5. ASSUME NEW m \in T, m < n PROVE FALSE
  <2>1. <<0 .. m - 1, 0 .. n - 1>> \notin StrictSubsetOrdering(Nat)
    BY <1>3, <1>4
  <2>2. 0 .. m - 1 \in SUBSET Nat /\ 0 .. n - 1 \in SUBSET Nat
    OBVIOUS
  <2>3. 0 .. m - 1 \subseteq 0 .. n - 1
    BY <1>5
  <2>4. m \in 0 .. n - 1 /\ m \notin 0 .. m - 1
    BY <1>5
  <2> QED
    BY <2>1, <2>2, <2>3, <2>4 DEF StrictSubsetOrdering
<1> QED
  BY <1>5

(* Induction up to a bound, stated with the set of numbers that satisfy    *)
(* what is to be shown.                                                    *)
LEMMA UpTo ==
  ASSUME NEW n \in Nat, NEW S, 0 \in S,
         \A i \in 1 .. n : i - 1 \in S => i \in S
  PROVE  0 .. n \subseteq S
<1> DEFINE T == {i \in 0 .. n : i \notin S}
<1>1. SUFFICES ASSUME T # {} PROVE FALSE
  OBVIOUS
<1>2. T \subseteq Nat
  OBVIOUS
<1>3. PICK i \in T : \A j \in T : i <= j
  <2> HIDE DEF T
  <2> QED
    BY <1>1, <1>2, LeastNatural
<1>4. i \in 1 .. n /\ i - 1 \in 0 .. n
  OBVIOUS
<1>5. i - 1 \in S
  BY <1>3, <1>4
<1> QED
  BY <1>3, <1>4, <1>5

(* Guest memory is finite: there is a last pixel, if there is any.         *)
LEMMA LastIsLast ==
  ASSUME Memory # {}
  PROVE  Last \in Memory /\ Last \in Nat
<1> DEFINE Above(m) == {n \in Memory : m < n}
           All == {Above(m) : m \in Memory}
<1>1. All \subseteq FiniteSubsetsOf(Memory)
  <2>1. ASSUME NEW m \in Memory PROVE IsFiniteSet(Above(m)) /\ Above(m) \subseteq Memory
    BY Bounds, FS_Subset
  <2> HIDE DEF Above
  <2> QED
    BY <2>1 DEF FiniteSubsetsOf
<1>2. All # {}
  OBVIOUS
<1>3. PICK d \in All : \A e \in All : <<e, d>> \notin StrictSubsetOrdering(Memory)
  <2> HIDE DEF All
  <2> QED
    BY <1>1, <1>2, FS_StrictSubsetOrderingWellFounded, WFMin, Zenon
<1>4. PICK m \in Memory : d = Above(m)
  BY <1>3
<1>5. ASSUME NEW n \in Memory, m < n PROVE FALSE
  <2>1. <<Above(n), Above(m)>> \notin StrictSubsetOrdering(Memory)
    BY <1>3, <1>4
  <2>2. Above(n) \in SUBSET Memory /\ Above(m) \in SUBSET Memory
    OBVIOUS
  <2>3. Above(n) \subseteq Above(m)
    <3>1. \A k \in Memory : k \in Nat
      BY Bounds
    <3>2. \A k \in Memory : n < k => m < k
      BY <1>5, <3>1
    <3> QED
      BY <3>2
  <2>4. n \in Above(m) /\ n \notin Above(n)
    BY <1>5, Bounds
  <2> HIDE DEF Above
  <2> QED
    BY <2>1, <2>2, <2>3, <2>4 DEF StrictSubsetOrdering
<1>6. \A n \in Memory : n <= m
  BY <1>5, Bounds
<1>7. Last \in Memory
  BY <1>6 DEF Last
<1> QED
  BY <1>7, Bounds

LEMMA Colours ==
  ASSUME NEW d \in Nat
  PROVE  [a \in Memory |-> Colour(d, a)] \in [Memory -> Nat]
<1> SUFFICES ASSUME NEW a \in Memory PROVE Colour(d, a) \in Nat
  OBVIOUS
<1>1. a \in Nat /\ Last \in Nat
  BY LastIsLast, Bounds
<1>2. d * (1 + Last) \in Nat
  BY <1>1
<1> QED
  BY <1>1, <1>2 DEF Colour

(* Rows and columns.                                                       *)
LEMMA Picture ==
  /\ Width * Height \in Nat \ {0}
  /\ 0 \in Pixel /\ Pixel \subseteq Nat
  BY Bounds DEF Pixel

LEMMA RowColumn ==
  ASSUME NEW p \in Nat
  PROVE  /\ p \div Width \in Nat /\ p % Width \in 0 .. Width - 1
         /\ p = ((p \div Width) * Width) + (p % Width)
  BY Bounds

LEMMA RowColumnIs ==
  ASSUME NEW i \in 0 .. Width - 1, NEW j \in Nat
  PROVE  LET p == (j * Width) + i
         IN p \in Nat /\ (p % Width) = i /\ (p \div Width) = j
<1> DEFINE p == (j * Width) + i
           q == p \div Width
           r == p % Width
<1>0. Width \in Nat \ {0} /\ i \in Nat /\ i < Width
  BY Bounds
<1>1. j * Width \in Nat /\ p \in Nat
  BY <1>0
<1> HIDE DEF p
<1>2. q \in Nat /\ r \in 0 .. Width - 1 /\ p = (q * Width) + r
  BY <1>1, RowColumn
<1> HIDE DEF q, r
<1>3. CASE q = j
  BY <1>0, <1>1, <1>2, <1>3 DEF p, q, r
<1>4. CASE q < j
  <2>1. (q + 1) * Width <= j * Width
    BY <1>0, <1>2, <1>4
  <2>2. (q + 1) * Width = (q * Width) + Width
    BY <1>0, <1>2
  <2> QED
    BY <1>0, <1>1, <1>2, <2>1, <2>2 DEF p
<1>5. CASE j < q
  <2>1. (j + 1) * Width <= q * Width
    BY <1>0, <1>2, <1>5
  <2>2. (j + 1) * Width = (j * Width) + Width
    BY <1>0
  <2> QED
    BY <1>0, <1>1, <1>2, <2>1, <2>2 DEF p
<1> QED
  BY <1>2, <1>3, <1>4, <1>5

-----------------------------------------------------------------------------
(* Commands, and the protocol the driver keeps to.                         *)

DrvState == {"none", "created", "attached"}
Record == [Res -> DrvState]
Rect == Nat \X Nat \X Nat \X Nat
Page == [gpa : Nat, len : Nat]
Stored == [buf : {<<>>} \cup Buffer, backing : Seq(Page)]

Info == Ask("info", 0)
Legal(d) == Asks(d) \cup {Info}

Ops == {"none", "info", "scanout", "create", "attach", "flush", "unref",
        "detach", "transfer"}
Cmd == [op : Ops, res : {0} \cup Res, rect : Rect, offset : Nat]

LEMMA AskIs ==
  ASSUME NEW op \in Ops, NEW r \in {0} \cup Res
  PROVE  Ask(op, r) \in Cmd /\ Ask(op, r).op = op /\ Ask(op, r).res = r
<1>1. <<0, 0, 0, 0>> \in Rect
  BY DEF Rect
<1>2. NoCmd \in Cmd
  BY <1>1 DEF NoCmd, Cmd, Ops
<1> QED
  BY <1>2 DEF Ask, NoCmd, Cmd

LEMMA AskTransferIs ==
  ASSUME NEW r \in Res, NEW q \in Rects
  PROVE  LET c == AskTransfer(r, q)
         IN /\ c \in Cmd /\ c.op = "transfer" /\ c.res = r /\ c.rect = q
            /\ c.offset = (q[2] * Width) + q[1]
<1>1. PICK x \in Nat, y \in Nat, w \in Nat, h \in Nat : q = <<x, y, w, h>>
  BY Bounds
<1>2. q[1] \in Nat /\ q[2] \in Nat /\ Width \in Nat /\ q \in Rect
  BY <1>1, Bounds DEF Rect
<1>3. q[2] * Width \in Nat
  BY <1>2
<1>4. (q[2] * Width) + q[1] \in Nat
  BY <1>2, <1>3
<1> QED
  BY <1>2, <1>4 DEF AskTransfer, Cmd, Ops

LEMMA LegalIs ==
  ASSUME NEW d \in Record, NEW c \in Legal(d)
  PROVE  /\ c \in Cmd
         /\ \/ c.op = "info"
            \/ c.op = "scanout" /\ c.res = 0
            \/ c.op = "create" /\ c.res \in Res /\ d[c.res] = "none"
            \/ c.op = "attach" /\ c.res \in Res /\ d[c.res] = "created"
            \/ /\ c.op \in {"flush", "scanout", "unref", "detach"}
               /\ c.res \in Res /\ d[c.res] = "attached"
            \/ /\ c.op = "transfer"
               /\ c.res \in Res /\ d[c.res] = "attached"
               /\ c.rect \in Rects /\ c.offset = (c.rect[2] * Width) + c.rect[1]
<1>1. CASE c = Ask("info", 0) \/ c = Ask("scanout", 0)
  BY <1>1, AskIs DEF Ops
<1>0. ASSUME NEW op \in Ops, NEW r \in Res, c = Ask(op, r)
      PROVE  c \in Cmd /\ c.op = op /\ c.res = r
  BY <1>0, AskIs, Zenon
<1>2. ASSUME NEW r \in Res, d[r] = "none", c = Ask("create", r) PROVE
        c \in Cmd /\ c.op = "create" /\ c.res \in Res /\ d[c.res] = "none"
  BY <1>2, <1>0 DEF Ops
<1>3. ASSUME NEW r \in Res, d[r] = "created", c = Ask("attach", r) PROVE
        c \in Cmd /\ c.op = "attach" /\ c.res \in Res /\ d[c.res] = "created"
  BY <1>3, <1>0 DEF Ops
<1>4. ASSUME NEW op \in {"flush", "scanout", "unref", "detach"},
             NEW r \in Res, d[r] = "attached", c = Ask(op, r) PROVE
        /\ c \in Cmd /\ c.op \in {"flush", "scanout", "unref", "detach"}
        /\ c.res \in Res /\ d[c.res] = "attached"
  BY <1>4, <1>0 DEF Ops
<1>5. ASSUME NEW r \in Res, d[r] = "attached", NEW q \in Rects,
             c = AskTransfer(r, q) PROVE
        /\ c \in Cmd /\ c.op = "transfer"
        /\ c.res \in Res /\ d[c.res] = "attached"
        /\ c.rect \in Rects /\ c.offset = (c.rect[2] * Width) + c.rect[1]
  BY <1>5, AskTransferIs
<1>6. \/ c \in {Info, Ask("scanout", 0)}
      \/ \E r \in {s \in Res : d[s] = "none"} : c = Ask("create", r)
      \/ \E r \in {s \in Res : d[s] = "created"} : c = Ask("attach", r)
      \/ \E op \in {"flush", "scanout", "unref", "detach"},
            r \in {s \in Res : d[s] = "attached"} : c = Ask(op, r)
      \/ \E r \in {s \in Res : d[s] = "attached"}, q \in Rects :
            c = AskTransfer(r, q)
  <2> DEFINE In(state) == {r \in Res : d[r] = state}
             Many == {Ask(op, r) : op \in {"flush", "scanout", "unref", "detach"},
                                   r \in In("attached")}
             Moves == {AskTransfer(r, q) : r \in In("attached"), q \in Rects}
             Create == {Ask("create", r) : r \in In("none")}
             Attach == {Ask("attach", r) : r \in In("created")}
  <2>1. c \in Many => \E op \in {"flush", "scanout", "unref", "detach"},
                         r \in {s \in Res : d[s] = "attached"} : c = Ask(op, r)
    OBVIOUS
  <2>2. c \in Moves => \E r \in {s \in Res : d[s] = "attached"}, q \in Rects :
                          c = AskTransfer(r, q)
    OBVIOUS
  <2>3. c \in Create => \E r \in {s \in Res : d[s] = "none"} : c = Ask("create", r)
    OBVIOUS
  <2>4. c \in Attach => \E r \in {s \in Res : d[s] = "created"} : c = Ask("attach", r)
    OBVIOUS
  <2>5. Asks(d) = {Ask("scanout", 0)} \cup Create \cup Attach \cup Many \cup Moves
    BY DEF Asks
  <2> HIDE DEF Many, Moves, Create, Attach
  <2> QED
    BY <2>1, <2>2, <2>3, <2>4, <2>5 DEF Legal
<1> QED
  BY <1>1, <1>2, <1>3, <1>4, <1>5, <1>6 DEF Info

(* What a command makes of the driver's record.                            *)
LEMMA AfterIs ==
  ASSUME NEW d \in Record, NEW c \in Legal(d)
  PROVE  /\ After(d, c) \in Record
         /\ c.op \in {"create", "detach"} => After(d, c) = [d EXCEPT ![c.res] = "created"]
         /\ c.op = "attach" => After(d, c) = [d EXCEPT ![c.res] = "attached"]
         /\ c.op = "unref" => After(d, c) = [d EXCEPT ![c.res] = "none"]
         /\ c.op \in {"info", "scanout", "flush", "transfer"} => After(d, c) = d
<1>1. CASE c.op \in {"create", "detach"}
  BY <1>1, LegalIs DEF After, Record, DrvState
<1>2. CASE c.op = "attach"
  BY <1>2, LegalIs DEF After, Record, DrvState
<1>3. CASE c.op = "unref"
  BY <1>3, LegalIs DEF After, Record, DrvState
<1>4. CASE c.op \in {"info", "scanout", "flush", "transfer"}
  BY <1>4, LegalIs DEF After, Record, DrvState
<1> QED
  BY <1>1, <1>2, <1>3, <1>4, LegalIs

\* What the device keeps of a resource, if the driver has it on record as st.
Suits(r, x, st) ==
  /\ st = "none" => x = NoRes
  /\ st = "created" => x.buf \in Buffer /\ x.backing = <<>>
  /\ st = "attached" => x.buf \in Buffer /\ x.backing = Pages[r]

Fit(d) == \A r \in Res : Suits(r, resources[r], d[r])

Store ==
  /\ mem \in [Memory -> Nat]
  /\ resources \in [Res -> Stored]
  /\ scanout \in Res \cup {0} /\ (scanout # 0 => Exists(scanout))

LEMMA NothingIsNoBuffer == <<>> \notin Buffer
<1>1. DOMAIN <<>> = {}
  OBVIOUS
<1> QED
  BY <1>1, Picture DEF Buffer

LEMMA SuitsExists ==
  ASSUME NEW r, NEW x, NEW st \in DrvState, Suits(r, x, st)
  PROVE  x.buf # <<>> <=> st # "none"
  BY NothingIsNoBuffer DEF Suits, DrvState, NoRes

LEMMA ExistsIs ==
  ASSUME NEW d \in Record, Fit(d), NEW r \in Res
  PROVE  Exists(r) <=> d[r] # "none"
<1>1. d[r] \in DrvState /\ Suits(r, resources[r], d[r])
  BY DEF Fit, Record
<1> QED
  BY <1>1, SuitsExists DEF Exists

(* One resource changes, and the record of it.                             *)
LEMMA SetFits ==
  ASSUME resources \in [Res -> Stored], NEW d \in Record, Fit(d),
         NEW q \in Res, NEW x \in Stored, NEW st \in DrvState,
         Suits(q, x, st), SetResource(q, x)
  PROVE  /\ resources' \in [Res -> Stored]
         /\ Fit([d EXCEPT ![q] = st])'
<1>1. resources' = [resources EXCEPT ![q] = x]
  BY DEF SetResource
<1>2. ASSUME NEW r \in Res PROVE Suits(r, resources'[r], [d EXCEPT ![q] = st][r])
  <2>1. CASE r = q
    BY <1>1, <2>1 DEF Record
  <2>2. CASE r # q
    BY <1>1, <2>2 DEF Record, Fit
  <2> QED
    BY <2>1, <2>2
<1> QED
  BY <1>1, <1>2 DEF Fit

LEMMA TransferredType ==
  ASSUME Store, NEW c \in Cmd, c.res \in Res, resources[c.res].buf \in Buffer
  PROVE  Transferred(c) \in Buffer
<1>1. ASSUME NEW backing, NEW off, NEW old \in Nat PROVE ReadBacking(backing, off, old) \in Nat
  BY DEF ReadBacking, Store
<1>2. ASSUME NEW p \in Pixel PROVE resources[c.res].buf[p] \in Nat
  BY DEF Buffer
<1> QED
  BY <1>1, <1>2 DEF Transferred, Buffer

(* A command the record allows is the one its name says, and finds the     *)
(* resource it needs.                                                      *)
LEMMA CommandIs ==
  ASSUME NEW d \in Record, NEW c \in Legal(d), HandleCommand(c)
  PROVE  /\ c.op = "info" => DisplayInfo(c)
         /\ c.op = "create" => Create2d(c)
         /\ c.op = "unref" => Unref(c)
         /\ c.op = "scanout" => SetScanout(c)
         /\ c.op = "flush" => Flush(c)
         /\ c.op = "transfer" => Transfer(c)
         /\ c.op = "attach" => AttachBacking(c)
         /\ c.op = "detach" => DetachBacking(c)
  BY DEF HandleCommand, DisplayInfo, Create2d, Unref, SetScanout, Flush, Transfer,
         AttachBacking, DetachBacking

(* A command the record allows is not refused, and leaves the resources as *)
(* the record says.                                                        *)
LEMMA HandledResources ==
  ASSUME Store, refused = FALSE, NEW d \in Record, Fit(d),
         NEW c \in Legal(d), HandleCommand(c)
  PROVE  /\ resources' \in [Res -> Stored] /\ refused' = FALSE
         /\ Fit(After(d, c))'
<1>0. /\ resources \in [Res -> Stored] /\ After(d, c) \in Record /\ c \in Cmd
      /\ Pages \in [Res -> Seq(Page)]
  BY AfterIs, LegalIs, Bounds DEF Store, Page
<1>1. CASE c.op \in {"info", "scanout", "flush"}
  <2>1. UNCHANGED resources /\ After(d, c) = d
    BY <1>1, CommandIs, AfterIs DEF DisplayInfo, SetScanout, Flush
  <2>2. refused' = FALSE
    <3>1. CASE c.op = "flush"
      <4>1. c.res \in Res /\ d[c.res] # "none"
        BY <3>1, LegalIs
      <4> QED
        BY <3>1, <4>1, CommandIs, ExistsIs DEF Flush, Answer
    <3>2. CASE c.op # "flush"
      BY <1>1, <3>2, CommandIs DEF DisplayInfo, SetScanout, Answer
    <3> QED
      BY <3>1, <3>2
  <2> QED
    BY <1>0, <2>1, <2>2 DEF Fit
<1>2. CASE c.op = "create"
  <2> DEFINE x == [buf |-> [p \in Pixel |-> 0], backing |-> <<>>]
  <2>1. c.res \in Res /\ SetResource(c.res, x) /\ refused' = FALSE
    BY <1>2, CommandIs, LegalIs DEF Create2d, Answer
  <2>2. x \in Stored /\ Suits(c.res, x, "created")
    BY DEF Stored, Suits, Buffer
  <2>3. After(d, c) = [d EXCEPT ![c.res] = "created"]
    BY <1>2, AfterIs
  <2> HIDE DEF x
  <2> QED
    BY <1>0, <2>1, <2>2, <2>3, SetFits DEF DrvState
<1>3. CASE c.op = "unref"
  <2>1. c.res \in Res /\ SetResource(c.res, NoRes) /\ refused' = FALSE
    BY <1>3, CommandIs, LegalIs DEF Unref, Answer
  <2>2. NoRes \in Stored /\ Suits(c.res, NoRes, "none")
    BY DEF Stored, Suits, NoRes
  <2>3. After(d, c) = [d EXCEPT ![c.res] = "none"]
    BY <1>3, AfterIs
  <2> QED
    BY <1>0, <2>1, <2>2, <2>3, SetFits DEF DrvState
<1>4. CASE c.op \in {"transfer", "attach", "detach"}
  <2> DEFINE x == resources[c.res]
             y == CASE c.op = "transfer" -> [x EXCEPT !.buf = Transferred(c)]
                    [] c.op = "attach" -> [x EXCEPT !.backing = @ \o Pages[c.res]]
                    [] c.op = "detach" -> [x EXCEPT !.backing = <<>>]
  <2>1. c.res \in Res /\ d[c.res] = (IF c.op = "attach" THEN "created" ELSE "attached")
    BY <1>4, LegalIs
  <2>2. Exists(c.res) /\ x \in Stored /\ Suits(c.res, x, d[c.res])
    BY <1>0, <2>1, ExistsIs DEF Fit
  <2>3. x.buf \in Buffer /\ x.backing \in Seq(Page)
    BY <2>1, <2>2 DEF Suits, Stored
  <2>4. refused' = FALSE
    BY <1>4, <2>2, CommandIs DEF Transfer, AttachBacking, DetachBacking, Answer
  <2>5. SetResource(c.res, y)
    BY <1>4, <2>2, CommandIs DEF Transfer, AttachBacking, DetachBacking
  <2>6. y \in Stored /\ Suits(c.res, y, After(d, c)[c.res])
    <3>1. CASE c.op = "transfer"
      <4>1. Transferred(c) \in Buffer
        BY <1>0, <2>1, <2>3, TransferredType
      <4>2. y = [x EXCEPT !.buf = Transferred(c)] /\ After(d, c) = d
        BY <3>1, AfterIs
      <4> QED
        BY <2>1, <2>2, <2>3, <3>1, <4>1, <4>2 DEF Stored, Suits
    <3>2. CASE c.op = "attach"
      <4>1. y = [x EXCEPT !.backing = @ \o Pages[c.res]]
        BY <3>2
      <4>2. After(d, c)[c.res] = "attached"
        BY <2>1, <3>2, AfterIs DEF Record
      <4> HIDE DEF x, y
      <4>4. Pages[c.res] \in Seq(Page)
        BY <1>0, <2>1
      <4>3. x.backing = <<>> /\ x.backing \o Pages[c.res] = Pages[c.res]
        BY <2>1, <2>2, <3>2, <4>4, ConcatEmptySeq DEF Suits
      <4>5. y = [buf |-> x.buf, backing |-> Pages[c.res]]
        BY <2>2, <4>1, <4>3 DEF Stored
      <4> HIDE DEF x, y
      <4>6. y.buf \in Buffer /\ y.backing = Pages[c.res] /\ y \in Stored
        BY <2>3, <4>4, <4>5 DEF Stored
      <4> QED
        BY <4>2, <4>6 DEF Suits
    <3>3. CASE c.op = "detach"
      <4>1. y = [x EXCEPT !.backing = <<>>]
        BY <3>3
      <4>2. After(d, c)[c.res] = "created"
        BY <2>1, <3>3, AfterIs DEF Record
      <4> HIDE DEF x, y
      <4>3. y = [buf |-> x.buf, backing |-> <<>>] /\ <<>> \in Seq(Page)
        BY <2>2, <4>1 DEF Stored
      <4>4. y.buf \in Buffer /\ y.backing = <<>> /\ y \in Stored
        BY <2>3, <4>3 DEF Stored
      <4> QED
        BY <4>2, <4>4 DEF Suits
    <3> QED
      BY <1>4, <3>1, <3>2, <3>3
  <2>7. After(d, c) = [d EXCEPT ![c.res] = After(d, c)[c.res]]
    <3>1. CASE c.op = "transfer"
      BY <2>1, <3>1, AfterIs DEF Record
    <3>2. CASE c.op = "attach"
      BY <2>1, <3>2, AfterIs DEF Record
    <3>3. CASE c.op = "detach"
      BY <2>1, <3>3, AfterIs DEF Record
    <3> QED
      BY <1>4, <3>1, <3>2, <3>3
  <2> HIDE DEF x, y
  <2>8. PICK st \in DrvState : st = After(d, c)[c.res]
    BY <1>0, <2>1 DEF Record
  <2>9. After(d, c) = [d EXCEPT ![c.res] = st] /\ Suits(c.res, y, st)
    BY <2>6, <2>7, <2>8
  <2>10. resources' \in [Res -> Stored] /\ Fit([d EXCEPT ![c.res] = st])'
    BY <1>0, <2>1, <2>5, <2>6, <2>9, SetFits
  <2> QED
    BY <2>4, <2>9, <2>10
<1> QED
  BY <1>1, <1>2, <1>3, <1>4, LegalIs

(* What is on the scanout exists, and the frames staged are frames.        *)
LEMMA HandledFrames ==
  ASSUME Store, pending \in Seq(Frame), flushes \in Nat, NEW d \in Record, Fit(d),
         NEW c \in Legal(d), HandleCommand(c), Fit(After(d, c))'
  PROVE  /\ (scanout \in Res \cup {0} /\ (scanout # 0 => Exists(scanout)))'
         /\ pending' \in Seq(Frame) /\ flushes' \in Nat
<1>0. /\ After(d, c) \in Record /\ 0 \notin Res
      /\ scanout \in Res \cup {0} /\ (scanout # 0 => d[scanout] # "none")
  BY AfterIs, Bounds, ExistsIs DEF Store
<1>1. scanout' \in Res \cup {0} /\ (scanout' # 0 => After(d, c)[scanout'] # "none")
  <2>1. CASE c.op = "scanout"
    BY <1>0, <2>1, CommandIs, LegalIs, AfterIs DEF SetScanout
  <2>2. CASE c.op = "unref"
    <3>1. scanout' = IF scanout = c.res THEN 0 ELSE scanout
      BY <2>2, CommandIs DEF Unref
    <3>2. c.res \in Res /\ After(d, c) = [d EXCEPT ![c.res] = "none"]
      BY <2>2, LegalIs, AfterIs
    <3>3. CASE scanout = c.res
      BY <3>1, <3>3
    <3>4. CASE scanout # c.res
      <4>1. scanout # 0 => After(d, c)[scanout] = d[scanout]
        BY <1>0, <3>2, <3>4 DEF Record
      <4> QED
        BY <1>0, <3>1, <3>4, <4>1
    <3> QED
      BY <3>3, <3>4
  <2>3. CASE c.op \in {"create", "attach", "detach"}
    <3>1. scanout' = scanout
      BY <2>3, CommandIs DEF Create2d, AttachBacking, DetachBacking
    <3>2. \E st \in {"created", "attached"} : After(d, c) = [d EXCEPT ![c.res] = st]
      BY <2>3, AfterIs
    <3> QED
      BY <1>0, <3>1, <3>2 DEF Record
  <2>4. CASE c.op \in {"info", "flush", "transfer"}
    BY <1>0, <2>4, CommandIs, AfterIs DEF DisplayInfo, Flush, Transfer
  <2> QED
    BY <2>1, <2>2, <2>3, <2>4, LegalIs
<1>2. (scanout # 0 => Exists(scanout))'
  <2>1. \A r \in Res : Exists(r)' <=> After(d, c)[r] # "none"
    <3>1. \A r \in Res : After(d, c)[r] \in DrvState /\ Suits(r, resources'[r], After(d, c)[r])
      BY <1>0 DEF Fit, Record
    <3> QED
      BY <3>1, SuitsExists DEF Exists
  <2> QED
    BY <1>1, <2>1
<1>3. pending' \in Seq(Frame) /\ flushes' \in Nat
  <2>1. CASE c.op = "flush"
    <3> DEFINE f == [n |-> flushes + 1, picture |-> resources[c.res].buf]
    <3>1. c.res \in Res /\ d[c.res] = "attached"
      BY <2>1, LegalIs
    <3>2. f \in Frame
      BY <3>1 DEF Fit, Suits, Frame
    <3>3. Append(pending, f) \in Seq(Frame)
      BY <3>2
    <3> HIDE DEF f
    <3>4. \/ pending' = pending /\ flushes' = flushes
          \/ pending' = Append(pending, f) /\ flushes' = flushes + 1
      BY <2>1, CommandIs DEF Flush, f
    <3> QED
      BY <3>3, <3>4
  <2>2. CASE c.op # "flush"
    BY <2>2, CommandIs, LegalIs
       DEF DisplayInfo, Create2d, Unref, SetScanout, Transfer, AttachBacking, DetachBacking
  <2> QED
    BY <2>1, <2>2
<1> QED
  BY <1>1, <1>2, <1>3

-----------------------------------------------------------------------------
(* The inductive invariant.                                                *)

PcState == {"idle", "kick", "drain", "raise", "show", "irq", "scan"}

Control ==
  /\ mtx \in Vcpu \cup {Nobody} /\ irqStatus \in {0, 1}
  /\ ready \in BOOLEAN /\ spi \in BOOLEAN
  /\ pc \in [Vcpu -> PcState]
  /\ \A v \in Vcpu : pc[v] \in {"drain", "raise"} <=> mtx = v
  /\ issued \in 0 .. MaxCmds /\ draws \in 0 .. MaxDraws
  /\ resets \in 0 .. MaxResets
  /\ cmdq \in Seq(Cmd) /\ used \in Nat /\ Len(cmdq) + used <= Ring

Frames ==
  /\ pending \in Seq(Frame) /\ (mtx = Nobody => pending = <<>>)
  /\ frames \in [Vcpu -> Seq(Frame)]
  /\ \A v \in Vcpu : frames[v] # <<>> <=> pc[v] = "show"
  /\ flushes \in Nat

\* st are the records the commands under way take the driver's through: each
\* is allowed where it was issued, and the last is the driver's present one.
Path(st) ==
  /\ st \in [0 .. Len(cmdq) -> Record]
  /\ st[Len(cmdq)] = drv
  /\ \A k \in 1 .. Len(cmdq) : /\ cmdq[k] \in Legal(st[k - 1])
                               /\ st[k] = After(st[k - 1], cmdq[k])

\* The device is where the first of them says.
Protocol == drv \in Record /\ \E st : Path(st) /\ Fit(st[0])

GpuInv == Control /\ Frames /\ Store /\ Protocol /\ refused = FALSE

LEMMA GpuInit == Init => GpuInv
<1> SUFFICES ASSUME Init PROVE GpuInv
  OBVIOUS
<1>0. Len(<<>>) = 0 /\ <<>> \in Seq(Cmd) /\ <<>> \in Seq(Frame)
  OBVIOUS
<1>1. Control
  <2>1. \A v \in Vcpu : pc[v] = "idle" /\ mtx # v
    BY Bounds DEF Init
  <2>2. 0 \in 0 .. MaxCmds /\ 0 \in 0 .. MaxDraws /\ 0 \in 0 .. MaxResets
        /\ 0 + 0 <= Ring
    BY Bounds
  <2>3. pc \in [Vcpu -> PcState]
    BY DEF Init, PcState
  <2> QED
    BY <1>0, <2>1, <2>2, <2>3 DEF Init, Control
<1>2. Frames
  BY <1>0 DEF Init, Frames
<1>3. mem \in [Memory -> Nat]
  BY Colours DEF Init
<1>4. Store
  BY <1>3 DEF Init, Store, Stored, NoRes
<1>5. Protocol
  <2> DEFINE st == [k \in 0 .. 0 |-> drv]
  <2>1. drv \in Record /\ Fit(drv)
    BY DEF Init, Record, DrvState, Fit, Suits
  <2>2. Len(cmdq) = 0 /\ 1 .. Len(cmdq) = {} /\ st[0] = drv
    BY <1>0 DEF Init
  <2>3. st \in [0 .. Len(cmdq) -> Record]
    BY <2>1, <2>2
  <2> HIDE DEF st
  <2>4. Path(st) /\ Fit(st[0])
    BY <2>1, <2>2, <2>3 DEF Path
  <2> QED
    BY <2>1, <2>4 DEF Protocol
<1> QED
  BY <1>1, <1>2, <1>4, <1>5 DEF GpuInv, Init

(* The command at the head is one the device's resources are ready for.    *)
LEMMA HeadIsLegal ==
  ASSUME Control, Protocol, cmdq # <<>>
  PROVE  \E d \in Record : Fit(d) /\ Head(cmdq) \in Legal(d)
<1>1. PICK st : Path(st) /\ Fit(st[0])
  BY DEF Protocol
<1>2. Len(cmdq) \in Nat \ {0} /\ Head(cmdq) = cmdq[1] /\ 1 - 1 = 0
  BY EmptySeq DEF Control
<1>3. st[0] \in Record /\ cmdq[1] \in Legal(st[0])
  BY <1>1, <1>2 DEF Path
<1> QED
  BY <1>1, <1>2, <1>3

(* A command more: the path is one record longer.                          *)
LEMMA PathGrows ==
  ASSUME Control, Protocol, NEW c \in Legal(drv), UNCHANGED resources,
         cmdq' = Append(cmdq, c), drv' = After(drv, c)
  PROVE  Protocol'
<1>1. PICK st : Path(st) /\ Fit(st[0])
  BY DEF Protocol
<1>n. PICK n : n = Len(cmdq)
  OBVIOUS
<1>m. PICK new : new = [k \in 0 .. n + 1 |-> IF k = n + 1 THEN drv' ELSE st[k]]
  OBVIOUS
<1>2. drv \in Record /\ drv' \in Record /\ c \in Cmd /\ n \in Nat
  BY <1>n, AfterIs, LegalIs DEF Protocol, Control
<1>3. /\ Len(cmdq') = n + 1 /\ cmdq'[n + 1] = c
      /\ \A k \in 1 .. n : cmdq'[k] = cmdq[k]
  BY <1>2, <1>n DEF Control
<1>4. st \in [0 .. n -> Record] /\ st[n] = drv
  BY <1>1, <1>n DEF Path
<1>5. new \in [0 .. n + 1 -> Record]
  BY <1>2, <1>4, <1>m
<1>6. /\ new[n + 1] = drv' /\ \A k \in 0 .. n : new[k] = st[k]
  BY <1>2, <1>m
<1>7. ASSUME NEW k \in 1 .. n + 1
      PROVE  cmdq'[k] \in Legal(new[k - 1]) /\ new[k] = After(new[k - 1], cmdq'[k])
  <2>1. CASE k = n + 1
    <3>1. k - 1 = n /\ n \in 0 .. n
      BY <1>2, <2>1
    <3> QED
      BY <1>3, <1>4, <1>6, <2>1, <3>1
  <2>2. CASE k # n + 1
    <3>1. k \in 1 .. n /\ k \in 0 .. n /\ k - 1 \in 0 .. n
      BY <1>2, <2>2
    <3>2. cmdq[k] \in Legal(st[k - 1]) /\ st[k] = After(st[k - 1], cmdq[k])
      BY <1>1, <1>n, <3>1 DEF Path
    <3> QED
      BY <1>3, <1>6, <3>1, <3>2
  <2> QED
    BY <2>1, <2>2
<1>8. Fit(new[0])'
  <2>1. new[0] = st[0]
    BY <1>2, <1>6
  <2> QED
    BY <1>1, <2>1 DEF Fit
<1>9. Path(new)'
  <2> QED
    BY <1>3, <1>5, <1>6, <1>7 DEF Path
<1> QED
  BY <1>2, <1>8, <1>9 DEF Protocol

(* A command less: the path begins one record later.                       *)
LEMMA PathShrinks ==
  ASSUME Control, Store, Protocol, refused = FALSE, cmdq # <<>>,
         HandleCommand(Head(cmdq)), cmdq' = Tail(cmdq), UNCHANGED drv
  PROVE  Protocol' /\ resources' \in [Res -> Stored] /\ refused' = FALSE
<1>1. PICK st : Path(st) /\ Fit(st[0])
  BY DEF Protocol
<1>n. PICK n : n = Len(cmdq)
  OBVIOUS
<1>m. PICK new : new = [k \in 0 .. n - 1 |-> st[k + 1]]
  OBVIOUS
<1>2. n \in Nat \ {0} /\ Head(cmdq) = cmdq[1] /\ drv \in Record
  BY <1>n, EmptySeq DEF Control, Protocol
<1>3. Len(cmdq') = n - 1 /\ \A k \in 1 .. n - 1 : cmdq'[k] = cmdq[k + 1]
  BY <1>2, <1>n DEF Control
<1>4. st \in [0 .. n -> Record] /\ st[n] = drv
  BY <1>1, <1>n DEF Path
<1>5. new \in [0 .. n - 1 -> Record] /\ \A k \in 0 .. n - 1 : new[k] = st[k + 1]
  BY <1>2, <1>4, <1>m
<1>6. new[n - 1] = drv'
  <2>1. n - 1 \in 0 .. n - 1 /\ (n - 1) + 1 = n
    BY <1>2
  <2> QED
    BY <1>4, <1>5, <2>1
<1>7. ASSUME NEW k \in 1 .. n - 1
      PROVE  cmdq'[k] \in Legal(new[k - 1]) /\ new[k] = After(new[k - 1], cmdq'[k])
  <2>1. /\ k \in 0 .. n - 1 /\ k - 1 \in 0 .. n - 1 /\ k + 1 \in 1 .. n
        /\ (k - 1) + 1 = k /\ (k + 1) - 1 = k
    BY <1>2
  <2>2. cmdq[k + 1] \in Legal(st[k]) /\ st[k + 1] = After(st[k], cmdq[k + 1])
    BY <1>1, <1>n, <2>1 DEF Path
  <2> QED
    BY <1>3, <1>5, <2>1, <2>2
<1>8. /\ cmdq[1] \in Legal(st[0]) /\ st[1] = After(st[0], cmdq[1]) /\ st[0] \in Record
  <2>1. 1 \in 1 .. n /\ 1 - 1 = 0 /\ 0 \in 0 .. n
    BY <1>2
  <2> QED
    BY <1>1, <1>4, <1>n, <2>1 DEF Path
<1>9. PICK c : c = cmdq[1]
  OBVIOUS
<1>10. resources' \in [Res -> Stored] /\ refused' = FALSE /\ Fit(After(st[0], c))'
  BY <1>1, <1>2, <1>8, <1>9, HandledResources
<1>11. Fit(new[0])'
  <2>1. new[0] = After(st[0], c)
    <3>1. 0 \in 0 .. n - 1 /\ 0 + 1 = 1
      BY <1>2
    <3> QED
      BY <1>5, <1>8, <1>9, <3>1
  <2> QED
    BY <1>10, <2>1
<1>12. Path(new)'
  <2> QED
    BY <1>3, <1>5, <1>6, <1>7 DEF Path
<1> QED
  BY <1>2, <1>10, <1>11, <1>12 DEF Protocol

LEMMA Nonempty ==
  ASSUME NEW T, NEW s \in Seq(T), s # <<>>
  PROVE  Len(s) \in Nat \ {0} /\ Tail(s) \in Seq(T) /\ Len(Tail(s)) = Len(s) - 1
         /\ (Tail(s) = <<>> <=> Len(s) = 1)
<1>1. Len(s) \in Nat \ {0} /\ Tail(s) \in Seq(T) /\ Len(Tail(s)) = Len(s) - 1
  BY EmptySeq
<1>2. Len(<<>>) = 0 /\ (Tail(s) # <<>> => Len(Tail(s)) \in Nat \ {0})
  BY <1>1, EmptySeq
<1>3. CASE Tail(s) = <<>>
  <2>1. Len(s) - 1 = 0
    BY <1>1, <1>2, <1>3
  <2>2. \A n \in Nat : n - 1 = 0 => n = 1
    OBVIOUS
  <2>3. Len(s) = 1
    BY <1>1, <2>1, <2>2
  <2> QED
    BY <1>3, <2>3
<1>4. CASE Tail(s) # <<>>
  BY <1>1, <1>2, <1>4
<1> QED
  BY <1>1, <1>3, <1>4

LEMMA ControlNext == ASSUME GpuInv, [Next]_vars PROVE Control'
<1> USE DEF GpuInv
<1>0. /\ Control /\ Nobody \notin Vcpu /\ Ring \in Nat /\ MaxCmds \in Nat
      /\ MaxDraws \in Nat /\ MaxResets \in Nat
  BY Bounds
<1>1. CASE UNCHANGED vars
  BY <1>0, <1>1 DEF Control, vars, device, driver
<1>2. CASE Draw
  BY <1>0, <1>2 DEF Control, Draw, device
<1>3. ASSUME NEW v \in Vcpu, Notify(v) PROVE Control'
  BY <1>0, <1>3 DEF Control, PcState, Notify, Goto, driver
<1>4. ASSUME NEW v \in Vcpu, Serve(v) PROVE Control'
  BY <1>0, <1>4, Nonempty DEF Control, Serve
<1>5. ASSUME NEW v \in Vcpu, Drained(v) PROVE Control'
  BY <1>0, <1>5 DEF Control, PcState, Drained, Goto, device, driver
<1>6. ASSUME NEW v \in Vcpu, Raise(v) PROVE Control'
  BY <1>0, <1>6 DEF Control, PcState, Raise, Goto, driver
<1>7. ASSUME NEW v \in Vcpu, Show(v) PROVE Control'
  BY <1>0, <1>7 DEF Control, PcState, Show, Goto, device, driver
<1>8. ASSUME NEW v \in Vcpu, Probe(v) PROVE Control'
  BY <1>0, <1>8 DEF Control, Probe, device, driver
<1>9. ASSUME NEW v \in Vcpu, Publish(v) PROVE Control'
  <2>1. PICK c \in Command : cmdq' = Append(cmdq, c)
    BY <1>9 DEF Publish
  <2>2. c \in Legal(drv)
    BY <2>1 DEF Command, Legal, Info
  <2>3. c \in Cmd
    BY <2>2, LegalIs DEF Protocol
  <2>4. cmdq' \in Seq(Cmd) /\ Len(cmdq') = Len(cmdq) + 1
    BY <1>0, <2>1, <2>3 DEF Control
  <2> QED
    BY <1>0, <1>9, <2>4 DEF Control, PcState, Publish, Goto, device
<1>10. ASSUME NEW v \in Vcpu, TakeIrq(v) PROVE Control'
  BY <1>0, <1>10 DEF Control, PcState, TakeIrq, Goto, device, driver
<1>11. ASSUME NEW v \in Vcpu, AckIrq(v) PROVE Control'
  BY <1>0, <1>11 DEF Control, PcState, AckIrq, Goto, driver
<1>12. ASSUME NEW v \in Vcpu, Collect(v) PROVE Control'
  BY <1>0, <1>12 DEF Control, PcState, Collect, Goto, device
<1>13. ASSUME NEW v \in Vcpu, Reset(v) PROVE Control'
  <2>1. <<>> \in Seq(Cmd) /\ Len(<<>>) + 0 <= Ring
    <3>1. <<>> \in Seq(Cmd) /\ Len(<<>>) = 0
      BY EmptySeq
    <3> QED
      BY <1>0, <3>1
  <2>2. resets' \in 0 .. MaxResets
    BY <1>0, <1>13 DEF Control, Reset
  <2> QED
    BY <1>0, <1>13, <2>1, <2>2 DEF Control, Reset
<1> QED
  BY <1>1, <1>2, <1>3, <1>4, <1>5, <1>6, <1>7, <1>8, <1>9, <1>10, <1>11, <1>12,
     <1>13 DEF Next, Device, Driver

LEMMA FramesNext == ASSUME GpuInv, [Next]_vars PROVE Frames'
<1> USE DEF GpuInv
<1>0. Frames /\ pc \in [Vcpu -> PcState] /\ Nobody \notin Vcpu
      /\ \A v \in Vcpu : pc[v] \in {"drain", "raise"} <=> mtx = v
  BY Bounds DEF Control
<1>1. CASE UNCHANGED vars
  BY <1>0, <1>1 DEF Frames, vars, device, driver
<1>2. CASE Draw
  BY <1>0, <1>2 DEF Frames, Draw, device
<1>3. ASSUME NEW v \in Vcpu, Notify(v) PROVE Frames'
  BY <1>0, <1>3 DEF Frames, Notify, Goto
<1>4. ASSUME NEW v \in Vcpu, Serve(v) PROVE Frames'
  <2>1. mtx = v /\ mtx # Nobody
    BY <1>0, <1>4 DEF Serve
  <2>2. PICK d \in Record : Fit(d) /\ Head(cmdq) \in Legal(d)
    BY <1>4, HeadIsLegal DEF Serve
  <2>3. PICK c : c = Head(cmdq)
    OBVIOUS
  <2>4. HandleCommand(c)
    BY <1>4, <2>3 DEF Serve
  <2>5. Fit(After(d, c))'
    BY <2>2, <2>3, <2>4, HandledResources
  <2>6. pending' \in Seq(Frame) /\ flushes' \in Nat
    BY <1>0, <2>2, <2>3, <2>4, <2>5, HandledFrames DEF Frames
  <2> QED
    BY <1>0, <1>4, <2>1, <2>6 DEF Frames, Serve
<1>5. ASSUME NEW v \in Vcpu, Drained(v) PROVE Frames'
  BY <1>0, <1>5 DEF Frames, Drained, Goto, device
<1>6. ASSUME NEW v \in Vcpu, Raise(v) PROVE Frames'
  <2>1. frames' \in [Vcpu -> Seq(Frame)]
    BY <1>0, <1>6 DEF Frames, Raise
  <2>2. \A w \in Vcpu : (frames[w] # <<>> <=> pc[w] = "show")'
    <3> TAKE w \in Vcpu
    <3>1. CASE w = v
      BY <1>0, <1>6, <3>1 DEF Frames, Raise, Goto
    <3>2. CASE w # v
      BY <1>0, <1>6, <3>2 DEF Frames, Raise, Goto
    <3> QED
      BY <3>1, <3>2
  <2> QED
    BY <1>0, <1>6, <2>1, <2>2 DEF Frames, Raise
<1>7. ASSUME NEW v \in Vcpu, Show(v) PROVE Frames'
  <2>1. /\ frames[v] \in Seq(Frame) /\ frames[v] # <<>>
        /\ frames' = [frames EXCEPT ![v] = Tail(frames[v])]
    BY <1>0, <1>7 DEF Frames, Show
  <2>2. Tail(frames[v]) \in Seq(Frame)
    BY <2>1, Nonempty
  <2>3. Tail(frames[v]) = <<>> <=> Len(frames[v]) = 1
    BY <2>1, Nonempty
  <2>4. frames' \in [Vcpu -> Seq(Frame)]
    BY <1>0, <2>1, <2>2 DEF Frames
  <2>5. \A w \in Vcpu : (frames[w] # <<>> <=> pc[w] = "show")'
    BY <1>0, <1>7, <2>1, <2>3 DEF Frames, Show, Goto
  <2> QED
    BY <1>0, <1>7, <2>4, <2>5 DEF Frames, Show, device
<1>8. ASSUME NEW v \in Vcpu, Probe(v) PROVE Frames'
  BY <1>0, <1>8 DEF Frames, Probe, device
<1>9. ASSUME NEW v \in Vcpu, Publish(v) PROVE Frames'
  BY <1>0, <1>9 DEF Frames, Publish, Goto, device
<1>10. ASSUME NEW v \in Vcpu, TakeIrq(v) PROVE Frames'
  BY <1>0, <1>10 DEF Frames, TakeIrq, Goto, device
<1>11. ASSUME NEW v \in Vcpu, AckIrq(v) PROVE Frames'
  BY <1>0, <1>11 DEF Frames, AckIrq, Goto
<1>12. ASSUME NEW v \in Vcpu, Collect(v) PROVE Frames'
  BY <1>0, <1>12 DEF Frames, Collect, Goto, device
<1>13. ASSUME NEW v \in Vcpu, Reset(v) PROVE Frames'
  BY <1>0, <1>13 DEF Frames, Reset
<1> QED
  BY <1>1, <1>2, <1>3, <1>4, <1>5, <1>6, <1>7, <1>8, <1>9, <1>10, <1>11, <1>12,
     <1>13 DEF Next, Device, Driver

(* What only some steps touch.                                             *)
LEMMA Quiet ==
  ASSUME GpuInv, UNCHANGED <<resources, scanout, cmdq, drv, refused>>,
         mem' \in [Memory -> Nat]
  PROVE  Store' /\ Protocol' /\ refused' = FALSE
<1>1. Store'
  BY DEF GpuInv, Store, Exists
<1>2. Protocol'
  <2>1. PICK st : Path(st) /\ Fit(st[0])
    BY DEF GpuInv, Protocol
  <2>2. Path(st)' /\ Fit(st[0])'
    BY <2>1 DEF Path, Fit
  <2> QED
    BY <2>2 DEF GpuInv, Protocol
<1> QED
  BY <1>1, <1>2 DEF GpuInv

LEMMA StoreNext ==
  ASSUME GpuInv, [Next]_vars PROVE Store' /\ Protocol' /\ refused' = FALSE
<1>0. mem \in [Memory -> Nat]
  BY DEF GpuInv, Store
<1>1. CASE UNCHANGED vars
  BY <1>0, <1>1, Quiet DEF vars, device, driver
<1>2. CASE Draw
  <2>1. draws + 1 \in Nat
    BY Bounds DEF GpuInv, Control
  <2>2. mem' \in [Memory -> Nat]
    BY <1>2, <2>1, Colours DEF Draw
  <2> QED
    BY <1>2, <2>2, Quiet DEF Draw, device
<1>3. ASSUME NEW v \in Vcpu, Serve(v) PROVE Store' /\ Protocol' /\ refused' = FALSE
  <2>1. Protocol' /\ resources' \in [Res -> Stored] /\ refused' = FALSE
    BY <1>3, PathShrinks DEF GpuInv, Serve
  <2>2. PICK d \in Record : Fit(d) /\ Head(cmdq) \in Legal(d)
    BY <1>3, HeadIsLegal DEF Serve, GpuInv
  <2>3. PICK c : c = Head(cmdq)
    OBVIOUS
  <2>4. HandleCommand(c)
    BY <1>3, <2>3 DEF Serve
  <2>5. Fit(After(d, c))'
    BY <2>2, <2>3, <2>4, HandledResources DEF GpuInv
  <2>6. (scanout \in Res \cup {0} /\ (scanout # 0 => Exists(scanout)))'
    BY <2>2, <2>3, <2>4, <2>5, HandledFrames DEF Frames, GpuInv
  <2>7. mem' = mem
    BY <1>3 DEF Serve
  <2> QED
    BY <1>0, <2>1, <2>6, <2>7 DEF Store
<1>4. ASSUME NEW v \in Vcpu, Publish(v) PROVE Store' /\ Protocol' /\ refused' = FALSE
  <2>1. PICK c \in Command : cmdq' = Append(cmdq, c) /\ drv' = After(drv, c)
    BY <1>4 DEF Publish
  <2>2. c \in Legal(drv)
    BY <2>1 DEF Command, Legal, Info
  <2>3. UNCHANGED <<mem, resources, scanout, refused>>
    BY <1>4 DEF Publish, device
  <2>4. Protocol'
    BY <2>1, <2>2, <2>3, PathGrows DEF GpuInv
  <2>5. Store'
    BY <2>3 DEF GpuInv, Store, Exists
  <2> QED
    BY <2>3, <2>4, <2>5 DEF GpuInv
<1>5. ASSUME NEW v \in Vcpu, Reset(v) PROVE Store' /\ Protocol' /\ refused' = FALSE
  <2>1. /\ UNCHANGED <<mem, refused>> /\ scanout' = 0
        /\ resources' = [r \in Res |-> NoRes] /\ cmdq' = <<>>
        /\ drv' = [r \in Res |-> "none"]
    BY <1>5 DEF Reset
  <2>2. Store'
    BY <1>0, <2>1 DEF Store, Stored, NoRes
  <2>3. Protocol'
    <3>1. PICK st : st = [k \in 0 .. 0 |-> drv']
      OBVIOUS
    <3>2. drv' \in Record /\ Fit(drv)'
      BY <2>1 DEF Record, DrvState, Fit, Suits
    <3>3. Len(cmdq') = 0 /\ st[0] = drv' /\ st \in [0 .. 0 -> Record]
      BY <2>1, <3>1, <3>2
    <3>4. Path(st)' /\ Fit(st[0])'
      BY <3>2, <3>3 DEF Path, Fit
    <3> QED
      BY <3>2, <3>4 DEF Protocol
  <2> QED
    BY <2>1, <2>2, <2>3 DEF GpuInv
<1>6. ASSUME NEW v \in Vcpu,
             \/ Notify(v) \/ Drained(v) \/ Raise(v) \/ Show(v)
             \/ Probe(v) \/ TakeIrq(v) \/ AckIrq(v) \/ Collect(v)
      PROVE  Store' /\ Protocol' /\ refused' = FALSE
  <2>1. UNCHANGED <<mem, resources, scanout, cmdq, drv, refused>>
    BY <1>6 DEF Notify, Drained, Raise, Show, Probe, TakeIrq, AckIrq, Collect,
                device, driver
  <2> QED
    BY <1>0, <2>1, Quiet
<1> QED
  BY <1>1, <1>2, <1>3, <1>4, <1>5, <1>6 DEF Next, Device, Driver

LEMMA GpuInvariant == Spec => []GpuInv
<1>1. GpuInv /\ [Next]_vars => GpuInv'
  <2> SUFFICES ASSUME GpuInv, [Next]_vars PROVE GpuInv'
    OBVIOUS
  <2> QED
    BY ControlNext, FramesNext, StoreNext DEF GpuInv
<1> QED
  BY <1>1, GpuInit, PTL DEF Spec

(* Types: whoever executes process_controlq or raises the interrupt holds  *)
(* mtx_, frames are staged only meanwhile and are out of the device until  *)
(* the callback has had them, a resource has its scatter list once or not  *)
(* at all, and what is on the scanout exists.                              *)
THEOREM GpuTypeCorrect == Spec => []TypeOK
<1>1. GpuInv => TypeOK
  <2> SUFFICES ASSUME GpuInv PROVE TypeOK
    OBVIOUS
  <2> USE DEF GpuInv
  <2>1. \A r \in Res : \/ resources[r] = NoRes
                       \/ /\ resources[r].buf \in Buffer
                          /\ resources[r].backing \in {<<>>, Pages[r]}
    <3>1. PICK st : Path(st) /\ Fit(st[0])
      BY DEF Protocol
    <3>2. st[0] \in Record
      BY <3>1 DEF Path, Control
    <3> QED
      BY <3>1, <3>2 DEF Fit, Suits, Record, DrvState
  <2>2. used \in 0 .. Ring
    BY Bounds DEF Control
  <2>3. drv \in [Res -> {"none", "created", "attached"}]
    BY DEF Protocol, Record, DrvState
  <2>4. /\ mtx \in Vcpu \cup {Nobody} /\ irqStatus \in {0, 1}
        /\ ready \in BOOLEAN /\ spi \in BOOLEAN
        /\ pc \in [Vcpu -> {"idle", "kick", "drain", "raise", "show", "irq", "scan"}]
        /\ issued \in 0 .. MaxCmds /\ draws \in 0 .. MaxDraws
        /\ resets \in 0 .. MaxResets
    BY DEF Control, PcState
  <2>5. /\ mem \in [Memory -> Nat]
        /\ scanout \in Res \cup {0} /\ (scanout # 0 => Exists(scanout))
    BY DEF Store
  <2>6. /\ pending \in Seq(Frame) /\ (mtx = Nobody => pending = <<>>)
        /\ flushes \in Nat
    BY DEF Frames
  <2>7. \A v \in Vcpu : /\ frames[v] \in Seq(Frame)
                        /\ frames[v] # <<>> <=> pc[v] = "show"
                        /\ pc[v] \in {"drain", "raise"} <=> mtx = v
    BY DEF Frames, Control
  <2> QED
    BY <2>1, <2>2, <2>3, <2>4, <2>5, <2>6, <2>7 DEF TypeOK
<1> QED
  BY <1>1, GpuInvariant, PTL

(* A driver that keeps to the protocol never gets an error answer, however *)
(* far its commands run ahead of the device and whatever a reset cut off.  *)
THEOREM NeverRefused == Spec => []LegalNeverRefused
<1>1. GpuInv => LegalNeverRefused
  BY DEF GpuInv, LegalNeverRefused
<1> QED
  BY <1>1, GpuInvariant, PTL

-----------------------------------------------------------------------------
(* Where the pixels are in the backing.                                    *)

IsInARow(f, list, n) ==
  f = [i \in 0 .. n |->
         IF i = 0 THEN <<>>
         ELSE f[i - 1] \o [k \in 1 .. list[i].len |-> list[i].gpa + k - 1]]

LEMMA InARowExists ==
  ASSUME NEW list, NEW n \in Nat
  PROVE  \E f : IsInARow(f, list, n)
<1> DEFINE S == {m \in Nat : \E f : IsInARow(f, list, m)}
           Page_(i) == [k \in 1 .. list[i].len |-> list[i].gpa + k - 1]
<1>1. 0 \in S
  <2>1. IsInARow([i \in 0 .. 0 |-> <<>>], list, 0)
    BY DEF IsInARow
  <2> QED
    BY <2>1
<1>2. ASSUME NEW m \in 1 .. n, m - 1 \in S PROVE m \in S
  <2>1. PICK f : IsInARow(f, list, m - 1)
    BY <1>2
  <2> DEFINE g == [i \in 0 .. m |-> IF i = m THEN f[m - 1] \o Page_(m) ELSE f[i]]
  <2>2. ASSUME NEW i \in 0 .. m
        PROVE  g[i] = IF i = 0 THEN <<>> ELSE g[i - 1] \o Page_(i)
    <3>1. CASE i = m
      <4>1. m # 0 /\ m - 1 \in 0 .. m /\ m - 1 # m /\ m \in 0 .. m
        OBVIOUS
      <4> HIDE DEF Page_
      <4>2. g[m] = f[m - 1] \o Page_(m) /\ g[m - 1] = f[m - 1]
        BY <4>1
      <4> QED
        BY <3>1, <4>1, <4>2
    <3>2. CASE i # m
      <4>1. i \in 0 .. m - 1 /\ i # m /\ i - 1 # m /\ (i # 0 => i - 1 \in 0 .. m)
        BY <3>2
      <4>2. f[i] = IF i = 0 THEN <<>> ELSE f[i - 1] \o Page_(i)
        BY <2>1, <4>1 DEF IsInARow
      <4> HIDE DEF Page_
      <4> QED
        BY <4>1, <4>2
    <3> QED
      BY <3>1, <3>2
  <2>3. IsInARow(g, list, m)
    BY <2>2 DEF IsInARow
  <2> QED
    BY <2>3
<1>3. 0 .. n \subseteq S
  <2> HIDE DEF S
  <2> QED
    BY <1>1, <1>2, UpTo
<1> QED
  BY <1>3

LEMMA InARowUnfolds ==
  ASSUME NEW list, Len(list) \in Nat
  PROVE  IsInARow(InARow(list), list, Len(list))
<1>1. PICK f : IsInARow(f, list, Len(list))
  BY InARowExists
<1> QED
  BY <1>1 DEF InARow, IsInARow

IsLinBase(f, list, n) ==
  f = [i \in 1 .. n |-> IF i = 1 THEN 0 ELSE f[i - 1] + list[i - 1].len]

LEMMA LinBaseExists ==
  ASSUME NEW list, NEW n \in Nat
  PROVE  \E f : IsLinBase(f, list, n)
<1> DEFINE S == {m \in Nat : \E f : IsLinBase(f, list, m)}
<1>1. 0 \in S
  <2>1. IsLinBase([i \in 1 .. 0 |-> 0], list, 0)
    BY DEF IsLinBase
  <2> QED
    BY <2>1
<1>2. ASSUME NEW m \in 1 .. n, m - 1 \in S PROVE m \in S
  <2>1. PICK f : IsLinBase(f, list, m - 1)
    BY <1>2
  <2> DEFINE g == [i \in 1 .. m |->
                     IF i = m THEN IF m = 1 THEN 0 ELSE f[m - 1] + list[m - 1].len
                     ELSE f[i]]
  <2>2. ASSUME NEW i \in 1 .. m
        PROVE  g[i] = IF i = 1 THEN 0 ELSE g[i - 1] + list[i - 1].len
    <3>1. CASE i = m
      <4>1. m # 1 => m - 1 \in 1 .. m /\ m - 1 # m
        OBVIOUS
      <4>2. /\ g[m] = IF m = 1 THEN 0 ELSE f[m - 1] + list[m - 1].len
            /\ m # 1 => g[m - 1] = f[m - 1]
        BY <4>1
      <4> QED
        BY <3>1, <4>1, <4>2
    <3>2. CASE i # m
      <4>1. i \in 1 .. m - 1 /\ i - 1 # m /\ (i # 1 => i - 1 \in 1 .. m)
        BY <3>2
      <4>2. f[i] = IF i = 1 THEN 0 ELSE f[i - 1] + list[i - 1].len
        BY <2>1, <4>1 DEF IsLinBase
      <4> QED
        BY <3>2, <4>1, <4>2
    <3> QED
      BY <3>1, <3>2
  <2>3. IsLinBase(g, list, m)
    BY <2>2 DEF IsLinBase
  <2> QED
    BY <2>3
<1>3. 0 .. n \subseteq S
  <2> HIDE DEF S
  <2> QED
    BY <1>1, <1>2, UpTo
<1> QED
  BY <1>3

LEMMA LinBaseUnfolds ==
  ASSUME NEW list, Len(list) \in Nat
  PROVE  IsLinBase(LinBase(list), list, Len(list))
<1>1. PICK f : IsLinBase(f, list, Len(list))
  BY LinBaseExists
<1> QED
  BY <1>1 DEF LinBase, IsLinBase

\* The first i entries of a scatter list are where LinBase says.
Laid(list, i) ==
  LET row == InARow(list)[i]
      base == LinBase(list)
  IN /\ row \in Seq(Nat)
     /\ \A j \in 1 .. Len(list) : j = i + 1 => base[j] = Len(row)
     /\ \A j \in 1 .. i : base[j] \in Nat
     /\ \A j \in 1 .. i, q \in Nat :
          base[j] <= q /\ q < base[j] + list[j].len
            => q + 1 <= Len(row) /\ row[q + 1] = list[j].gpa + (q - base[j])
     /\ \A q \in Nat : q + 1 <= Len(row)
          => \E j \in 1 .. i : base[j] <= q /\ q < base[j] + list[j].len

LEMMA LaidMore ==
  ASSUME NEW list \in Seq(Page), NEW i \in 1 .. Len(list), Laid(list, i - 1)
  PROVE  Laid(list, i)
<1> DEFINE n == Len(list)
           base == LinBase(list)
           page == [k \in 1 .. list[i].len |-> list[i].gpa + k - 1]
<1>0. n \in Nat /\ i \in Nat \ {0} /\ i <= n /\ i \in 0 .. n /\ (i - 1) + 1 = i
  BY LenProperties
<1>1. list[i].gpa \in Nat /\ list[i].len \in Nat
  <2>1. list[i] \in Page
    BY ElementOfSeq
  <2> QED
    BY <2>1 DEF Page
<1>2. InARow(list)[i] = InARow(list)[i - 1] \o page
  BY <1>0, InARowUnfolds DEF IsInARow
<1>3. PICK old : old = InARow(list)[i - 1]
  OBVIOUS
<1>4. PICK row : row = InARow(list)[i]
  OBVIOUS
<1>5. /\ old \in Seq(Nat) /\ base[i] = Len(old)
      /\ \A j \in 1 .. i - 1 : base[j] \in Nat
      /\ \A j \in 1 .. i - 1, q \in Nat :
           base[j] <= q /\ q < base[j] + list[j].len
             => q + 1 <= Len(old) /\ old[q + 1] = list[j].gpa + (q - base[j])
      /\ \A q \in Nat : q + 1 <= Len(old)
           => \E j \in 1 .. i - 1 : base[j] <= q /\ q < base[j] + list[j].len
  BY <1>0, <1>3 DEF Laid
<1>6. /\ page \in Seq(Nat) /\ Len(page) = list[i].len
      /\ \A k \in 1 .. list[i].len : page[k] = list[i].gpa + k - 1
  <2>1. \A k \in 1 .. list[i].len : list[i].gpa + k - 1 \in Nat
    BY <1>1
  <2>2. page \in [1 .. list[i].len -> Nat]
    BY <2>1
  <2> QED
    BY <1>1, <2>2
<1> HIDE DEF page
<1>7. Len(old) \in Nat /\ Len(page) \in Nat
  BY <1>1, <1>5, <1>6, LenProperties
<1>8. /\ row \in Seq(Nat) /\ Len(row) = Len(old) + list[i].len
      /\ \A k \in 1 .. Len(old) + list[i].len :
           row[k] = IF k <= Len(old) THEN old[k] ELSE page[k - Len(old)]
  <2>1. row = old \o page
    BY <1>2, <1>3, <1>4
  <2>2. /\ row \in Seq(Nat) /\ Len(row) = Len(old) + Len(page)
        /\ \A k \in 1 .. Len(old) + Len(page) :
             row[k] = IF k <= Len(old) THEN old[k] ELSE page[k - Len(old)]
    <3>1. old \in Seq(Nat) /\ page \in Seq(Nat)
      BY <1>5, <1>6
    <3> QED
      BY <2>1, <3>1, ConcatProperties
  <2> QED
    BY <1>6, <2>2
<1> HIDE DEF base
<1>9. ASSUME NEW j \in 1 .. n, j = i + 1 PROVE base[j] = Len(row)
  <2>1. IsLinBase(base, list, n)
    BY <1>0, LinBaseUnfolds DEF base
  <2>2. j # 1 /\ j - 1 = i
    BY <1>0, <1>9
  <2>3. base[j] = base[j - 1] + list[j - 1].len
    BY <2>1, <2>2 DEF IsLinBase
  <2>4. base[j] = base[i] + list[i].len
    BY <2>2, <2>3
  <2> QED
    BY <1>5, <1>8, <2>4
<1>10. \A j \in 1 .. i : base[j] \in Nat
  <2>1. \A j \in 1 .. i : j = i \/ j \in 1 .. i - 1
    BY <1>0
  <2> QED
    BY <1>5, <1>7, <2>1
<1>11. ASSUME NEW j \in 1 .. i, NEW q \in Nat, base[j] <= q, q < base[j] + list[j].len
       PROVE  q + 1 <= Len(row) /\ row[q + 1] = list[j].gpa + (q - base[j])
  <2>1. CASE j = i
    <3>1. Len(old) <= q /\ q < Len(old) + list[i].len
      BY <1>5, <1>11, <2>1
    <3>2. q + 1 \in 1 .. Len(old) + list[i].len /\ ~(q + 1 <= Len(old))
          /\ (q + 1) - Len(old) \in 1 .. list[i].len
      BY <1>1, <1>7, <3>1
    <3>3. row[q + 1] = page[(q + 1) - Len(old)]
      BY <1>8, <3>2
    <3>4. page[(q + 1) - Len(old)] = list[i].gpa + ((q + 1) - Len(old)) - 1
      BY <1>6, <3>2
    <3>5. list[i].gpa + ((q + 1) - Len(old)) - 1 = list[i].gpa + (q - Len(old))
      BY <1>1, <1>7
    <3>6. row[q + 1] = list[i].gpa + (q - base[i])
      BY <1>5, <3>3, <3>4, <3>5
    <3>7. q + 1 <= Len(row)
      BY <1>8, <3>2
    <3> QED
      BY <2>1, <3>6, <3>7
  <2>2. CASE j # i
    <3>1. j \in 1 .. i - 1
      BY <1>0, <2>2
    <3>2. q + 1 <= Len(old) /\ old[q + 1] = list[j].gpa + (q - base[j])
      BY <1>5, <1>11, <3>1
    <3>3. q + 1 \in 1 .. Len(old) + list[i].len
      BY <1>1, <1>7, <3>2
    <3> QED
      BY <1>8, <3>2, <3>3
  <2> QED
    BY <2>1, <2>2
<1>12. ASSUME NEW q \in Nat, q + 1 <= Len(row)
       PROVE  \E j \in 1 .. i : base[j] <= q /\ q < base[j] + list[j].len
  <2>1. CASE q + 1 <= Len(old)
    <3>1. PICK j \in 1 .. i - 1 : base[j] <= q /\ q < base[j] + list[j].len
      BY <1>5, <2>1
    <3>2. j \in 1 .. i
      BY <1>0
    <3> QED
      BY <3>1, <3>2
  <2>2. CASE ~(q + 1 <= Len(old))
    <3>1. base[i] <= q /\ q < base[i] + list[i].len
      <4>1. PICK a \in Nat, b \in Nat : a = Len(old) /\ b = list[i].len
        BY <1>1, <1>7
      <4>2. base[i] = a /\ Len(row) = a + b
        BY <1>5, <1>8, <4>1
      <4>3. q + 1 <= a + b /\ ~(q + 1 <= a)
        BY <1>12, <2>2, <4>1, <4>2
      <4>4. a <= q /\ q < a + b
        BY <4>1, <4>3
      <4> QED
        BY <4>1, <4>2, <4>4
    <3>2. i \in 1 .. i
      BY <1>0
    <3> QED
      BY <3>1, <3>2
  <2> QED
    BY <2>1, <2>2
<1> QED
  BY <1>4, <1>8, <1>9, <1>10, <1>11, <1>12 DEF Laid, base

LEMMA ListIsLaid ==
  ASSUME NEW list \in Seq(Page)
  PROVE  Laid(list, Len(list))
<1> DEFINE n == Len(list)
           S == {i \in 0 .. n : Laid(list, i)}
<1>0. n \in Nat
  BY LenProperties
<1>1. 0 \in S
  <2>1. InARow(list)[0] = <<>> /\ 0 \in 0 .. n
    BY <1>0, InARowUnfolds DEF IsInARow
  <2>2. Len(<<>>) = 0 /\ <<>> \in Seq(Nat)
    BY EmptySeq
  <2>3. ASSUME 1 \in 1 .. n PROVE LinBase(list)[1] = 0
    BY <1>0, <2>3, LinBaseUnfolds DEF IsLinBase
  <2>4. \A j \in 1 .. n : j = 0 + 1 => LinBase(list)[j] = 0
    BY <2>3
  <2>5. 1 .. 0 = {} /\ \A q \in Nat : ~(q + 1 <= 0)
    OBVIOUS
  <2>6. Laid(list, 0)
    BY <2>1, <2>2, <2>4, <2>5 DEF Laid
  <2> QED
    BY <2>1, <2>6
<1>2. ASSUME NEW i \in 1 .. n, i - 1 \in S PROVE i \in S
  BY <1>0, <1>2, LaidMore
<1>3. 0 .. n \subseteq S
  <2> HIDE DEF S, n
  <2> QED
    BY <1>0, <1>1, <1>2, UpTo
<1> QED
  BY <1>0, <1>3

(* Read at the place of a pixel, the backing of a resource gives what the  *)
(* guest has drawn there.                                                  *)
LEMMA BackingRead ==
  ASSUME NEW r \in Res, NEW p \in Pixel, NEW old
  PROVE  ReadBacking(Pages[r], p, old) = mem[Cells[r][p + 1]]
<1> DEFINE list == Pages[r]
           base == LinBase(list)
           row == InARow(list)[Len(list)]
           Cover == {i \in DOMAIN list : base[i] <= p /\ p < base[i] + list[i].len}
<1>1. list \in Seq(Page) /\ Len(list) \in Nat /\ DOMAIN list = 1 .. Len(list)
  BY Bounds, LenProperties DEF Page
<1>2. Cells[r] = row
  BY DEF Cells
<1>3. Laid(list, Len(list))
  BY <1>1, ListIsLaid
<1>4. row \in Seq(Nat) /\ p \in Nat
  BY <1>3, Picture DEF Laid
<1>5. p + 1 <= Len(row) /\ row[p + 1] \in Memory
  <2>1. p + 1 \in DOMAIN Cells[r] /\ Cells[r][p + 1] \in Memory
    BY PagesCover
  <2> QED
    BY <1>2, <1>4, <2>1, LenProperties
<1>6. Cover # {}
  BY <1>1, <1>3, <1>4, <1>5 DEF Laid
<1>7. \A i \in Cover : list[i].gpa + (p - base[i]) = row[p + 1]
  BY <1>1, <1>3, <1>4 DEF Laid
<1> DEFINE i == CHOOSE i \in Cover : TRUE
           a == list[i].gpa + (p - base[i])
<1>8. i \in Cover
  BY <1>6
<1>9. a = row[p + 1]
  BY <1>7, <1>8
<1>10. ReadBacking(list, p, old) = IF Cover = {} THEN old
                                   ELSE IF a \in Memory THEN mem[a] ELSE 0
  BY DEF ReadBacking
<1> HIDE DEF list, base, row, Cover, a, i
<1>11. ReadBacking(list, p, old) = mem[row[p + 1]]
  BY <1>5, <1>6, <1>9, <1>10
<1> QED
  BY <1>2, <1>11 DEF list

(* The rectangle, as the code cuts it and as Display has it.               *)
LEMMA InRectIs ==
  ASSUME NEW c \in Cmd, NEW p \in Pixel
  PROVE  InRect(c, p) <=> p \in Area(c)
<1>0. PICK x \in Nat, y \in Nat, w \in Nat, h \in Nat :
        c.rect[1] = x /\ c.rect[2] = y /\ c.rect[3] = w /\ c.rect[4] = h
  <2>1. c.rect \in Rect
    BY DEF Cmd
  <2>2. PICK x \in Nat, y \in Nat, w \in Nat, h \in Nat : c.rect = <<x, y, w, h>>
    BY <2>1 DEF Rect
  <2> QED
    BY <2>2
<1>1. /\ p \in Nat /\ p < Width * Height /\ Width \in Nat \ {0} /\ Height \in Nat \ {0}
      /\ Width * Height \in Nat
  BY Bounds, Picture DEF Pixel
<1>2. PICK q \in Nat, i \in 0 .. Width - 1 :
        q = p \div Width /\ i = p % Width /\ p = (q * Width) + i
  BY <1>1, RowColumn
<1>3. InRect(c, p) <=> /\ x <= i /\ i < x + w
                       /\ y <= q /\ q < y + h /\ q < Height
  <2>1. i < Width /\ i \in Nat
    BY <1>1
  <2> QED
    BY <1>0, <1>1, <1>2, <2>1 DEF InRect, MinOf
<1>4. p \in Area(c) <=> \E k \in 0 .. w - 1, j \in 0 .. h - 1 :
                           x + k < Width /\ p = (y + j) * Width + x + k
  BY <1>0 DEF Area
<1>5. ASSUME x <= i, i < x + w, y <= q, q < y + h
      PROVE  p \in Area(c)
  <2> DEFINE k == i - x
             j == q - y
  <2>1. k \in 0 .. w - 1 /\ j \in 0 .. h - 1 /\ x + k < Width /\ y + j = q /\ x + k = i
    BY <1>1, <1>5
  <2>2. (y + j) * Width + x + k = (q * Width) + i
    <3>1. q * Width \in Nat
      BY <1>1
    <3>2. (y + j) * Width = q * Width
      BY <2>1
    <3> QED
      BY <1>1, <2>1, <3>1, <3>2
  <2> HIDE DEF k, j
  <2> QED
    BY <1>2, <1>4, <2>1, <2>2
<1>6. ASSUME NEW k \in 0 .. w - 1, NEW j \in 0 .. h - 1,
             x + k < Width, p = (y + j) * Width + x + k
      PROVE  x <= i /\ i < x + w /\ y <= q /\ q < y + h /\ q < Height
  <2>1. PICK a \in 0 .. Width - 1, b \in Nat : a = x + k /\ b = y + j
    BY <1>1, <1>6
  <2>2. b * Width \in Nat
    BY <1>1
  <2>3. p = (b * Width) + a
    BY <1>1, <1>6, <2>1, <2>2
  <2>4. i = a /\ q = b
    BY <1>2, <2>3, RowColumnIs
  <2>5. q < Height
    <3>1. SUFFICES ASSUME Height <= q PROVE FALSE
      BY <1>1
    <3>2. Height * Width <= q * Width
      BY <1>1, <3>1
    <3>3. Height * Width = Width * Height /\ q * Width \in Nat
      BY <1>1
    <3> QED
      BY <1>1, <1>2, <3>2, <3>3
  <2> QED
    BY <2>1, <2>4, <2>5
<1> QED
  BY <1>3, <1>4, <1>5, <1>6

(* A transfer makes the picture, within the rectangle, what the guest has  *)
(* drawn: row k is read at offset + k * stride, the place of its pixels.   *)
LEMMA TransferShows ==
  ASSUME NEW d \in Record, Fit(d), NEW c \in Legal(d), c.op = "transfer"
  PROVE  Transferred(c) = [p \in Pixel |-> IF p \in Area(c) THEN View[c.res][p]
                                           ELSE resources[c.res].buf[p]]
<1>0. /\ c \in Cmd /\ c.res \in Res /\ c.rect \in Rects
      /\ c.offset = (c.rect[2] * Width) + c.rect[1]
      /\ resources[c.res].backing = Pages[c.res]
  BY LegalIs DEF Fit, Suits
<1>1. PICK x \in Nat, y \in Nat, w \in Nat, h \in Nat :
        c.rect[1] = x /\ c.rect[2] = y /\ c.rect[3] = w /\ c.rect[4] = h
  <2>1. c.rect \in Nat \X Nat \X Nat \X Nat
    BY <1>0, Bounds
  <2>2. PICK r \in Nat \X Nat \X Nat \X Nat : c.rect = r
    BY <2>1
  <2>3. /\ r[1] \in Nat /\ r[2] \in Nat /\ r[3] \in Nat /\ r[4] \in Nat
        /\ c.rect[1] = r[1] /\ c.rect[2] = r[2]
        /\ c.rect[3] = r[3] /\ c.rect[4] = r[4]
    BY <2>2
  <2> QED
    BY <2>3
<1>2. ASSUME NEW p \in Pixel
      PROVE  c.offset + (p \div Width - c.rect[2]) * Width
               + ((p % Width) - c.rect[1]) = p
  <2>1. p \in Nat /\ Width \in Nat \ {0}
    BY Picture, Bounds
  <2>2. PICK q \in Nat, i \in 0 .. Width - 1 :
          q = p \div Width /\ i = p % Width /\ p = (q * Width) + i
    BY <2>1, RowColumn
  <2>3. (q - y) * Width = (q * Width) - (y * Width)
    BY <2>1
  <2>4. q * Width \in Nat /\ y * Width \in Nat /\ i \in Int /\ x \in Int
    BY <2>1
  <2>5. ((y * Width) + x) + ((q * Width) - (y * Width)) + (i - x) = (q * Width) + i
    BY <2>4
  <2> QED
    BY <1>0, <1>1, <2>2, <2>3, <2>5
<1>3. ASSUME NEW p \in Pixel
      PROVE  ReadBacking(resources[c.res].backing,
               c.offset + (p \div Width - c.rect[2]) * Width
                 + ((p % Width) - c.rect[1]),
               resources[c.res].buf[p]) = View[c.res][p]
  BY <1>0, <1>2, BackingRead DEF View
<1>4. \A p \in Pixel : InRect(c, p) <=> p \in Area(c)
  BY <1>0, InRectIs
<1> DEFINE read(p) == ReadBacking(resources[c.res].backing,
               c.offset + (p \div Width - c.rect[2]) * Width
                 + ((p % Width) - c.rect[1]),
               resources[c.res].buf[p])
<1>5. Transferred(c) = [p \in Pixel |-> IF InRect(c, p) THEN read(p)
                                        ELSE resources[c.res].buf[p]]
  BY DEF Transferred
<1>6. \A p \in Pixel : read(p) = View[c.res][p]
  BY <1>3
<1> HIDE DEF read
<1> QED
  BY <1>4, <1>5, <1>6

-----------------------------------------------------------------------------
(* The device implements Display.                                          *)

Order == [op : Ops, res : {0} \cup Res, area : SUBSET Pixel]
OrderOf(c) == [op |-> c.op, res |-> c.res, area |-> Area(c)]
Orders(q) == [i \in DOMAIN q |-> OrderOf(q[i])]

LEMMA OrdersAre ==
  ASSUME NEW q \in Seq(Cmd)
  PROVE  /\ Orders(q) \in Seq(Order) /\ Len(Orders(q)) = Len(q)
         /\ \A i \in 1 .. Len(q) : Orders(q)[i] = OrderOf(q[i])
<1>1. Len(q) \in Nat /\ DOMAIN q = 1 .. Len(q)
  BY LenProperties
<1>2. ASSUME NEW i \in 1 .. Len(q) PROVE OrderOf(q[i]) \in Order
  <2>1. PICK c \in Cmd : c = q[i]
    BY ElementOfSeq
  <2>2. c.op \in Ops /\ c.res \in {0} \cup Res
    BY DEF Cmd
  <2>3. Area(c) \in SUBSET Pixel
    BY DEF Area
  <2> QED
    BY <2>1, <2>2, <2>3 DEF OrderOf, Order
<1>3. Orders(q) \in [1 .. Len(q) -> Order]
  BY <1>1, <1>2 DEF Orders
<1> QED
  BY <1>1, <1>3 DEF Orders

LEMMA OrdersShrink ==
  ASSUME NEW q \in Seq(Cmd), q # <<>>
  PROVE  /\ Orders(q) # <<>> /\ Head(Orders(q)) = OrderOf(Head(q))
         /\ Orders(Tail(q)) = Tail(Orders(q))
<1>1. Len(q) \in Nat \ {0} /\ Tail(q) \in Seq(Cmd) /\ Len(Tail(q)) = Len(q) - 1
  BY Nonempty
<1>2. /\ Orders(q) \in Seq(Order) /\ Len(Orders(q)) = Len(q)
      /\ \A i \in 1 .. Len(q) : Orders(q)[i] = OrderOf(q[i])
  BY OrdersAre
<1>3. /\ Orders(Tail(q)) \in Seq(Order) /\ Len(Orders(Tail(q))) = Len(q) - 1
      /\ \A i \in 1 .. Len(q) - 1 : Orders(Tail(q))[i] = OrderOf(Tail(q)[i])
  BY <1>1, OrdersAre
<1>4. Orders(q) # <<>>
  BY <1>1, <1>2, EmptySeq
<1>5. PICK o \in Seq(Order) : o = Orders(q)
  BY <1>2
<1>6. Tail(o) \in Seq(Order) /\ Len(Tail(o)) = Len(q) - 1 /\ Head(o) = o[1]
      /\ \A i \in 1 .. Len(q) - 1 : Tail(o)[i] = o[i + 1]
  BY <1>1, <1>2, <1>4, <1>5
<1>7. Head(Orders(q)) = OrderOf(Head(q))
  BY <1>1, <1>2, <1>5, <1>6
<1>8. ASSUME NEW i \in 1 .. Len(q) - 1 PROVE Orders(Tail(q))[i] = Tail(o)[i]
  <2>1. i + 1 \in 1 .. Len(q) /\ Tail(q)[i] = q[i + 1]
    BY <1>1
  <2> QED
    BY <1>2, <1>3, <1>5, <1>6, <2>1
<1>9. Orders(Tail(q)) = Tail(o)
  BY <1>3, <1>6, <1>8, SeqEqual
<1> QED
  BY <1>4, <1>5, <1>7, <1>9

LEMMA OrdersGrow ==
  ASSUME NEW q \in Seq(Cmd), NEW c \in Cmd
  PROVE  /\ Len(Orders(Append(q, c))) = Len(Orders(q)) + 1
         /\ SubSeq(Orders(Append(q, c)), 1, Len(Orders(q))) = Orders(q)
<1>1. PICK t \in Seq(Cmd) : t = Append(q, c)
  BY AppendProperties
<1>2. Len(q) \in Nat /\ Len(t) = Len(q) + 1 /\ \A i \in 1 .. Len(q) : t[i] = q[i]
  BY <1>1, AppendProperties, LenProperties
<1>3. PICK o \in Seq(Order) : o = Orders(q)
  BY OrdersAre
<1>4. PICK u \in Seq(Order) : u = Orders(t)
  BY OrdersAre
<1>5. /\ Len(o) = Len(q) /\ Len(u) = Len(q) + 1
      /\ \A i \in 1 .. Len(q) : o[i] = OrderOf(q[i])
      /\ \A i \in 1 .. Len(q) + 1 : u[i] = OrderOf(t[i])
  BY <1>2, <1>3, <1>4, OrdersAre
<1>6. \A i \in 1 .. Len(q) : u[i] = o[i] /\ u[i] \in Order
  <2>1. \A i \in 1 .. Len(q) : i \in 1 .. Len(u)
    BY <1>2, <1>5
  <2> QED
    BY <1>2, <1>5, <2>1, ElementOfSeq
<1>7. SubSeq(u, 1, Len(q)) = o
  <2>1. PICK n \in Nat : n = Len(q)
    BY <1>2
  <2>2. /\ SubSeq(u, 1, n) \in Seq(Order) /\ Len(SubSeq(u, 1, n)) = n
        /\ \A i \in 1 .. n : SubSeq(u, 1, n)[i] = u[i]
    BY <1>5, <1>6, <2>1
  <2> QED
    BY <1>5, <1>6, <2>1, <2>2, SeqEqual
<1> QED
  BY <1>1, <1>3, <1>4, <1>5, <1>7

\* What a sequence holds.
LEMMA Holds ==
  ASSUME NEW T, NEW s \in Seq(T)
  PROVE  /\ RangeOf(<<>>) = {}
         /\ \A e \in T : RangeOf(Append(s, e)) = RangeOf(s) \cup {e}
         /\ s # <<>> => Head(s) \in T /\ RangeOf(s) = {Head(s)} \cup RangeOf(Tail(s))
<1>1. RangeOf(<<>>) = {}
  BY DEF RangeOf
<1>2. ASSUME NEW e \in T PROVE RangeOf(Append(s, e)) = RangeOf(s) \cup {e}
  <2>1. PICK t \in Seq(T) : t = Append(s, e)
    BY AppendProperties
  <2>2. /\ Len(s) \in Nat /\ DOMAIN s = 1 .. Len(s) /\ DOMAIN t = 1 .. Len(s) + 1
        /\ \A i \in 1 .. Len(s) : t[i] = s[i]
        /\ t[Len(s) + 1] = e
    BY <2>1, AppendProperties, LenProperties
  <2>3. \A i \in 1 .. Len(s) + 1 : i \in 1 .. Len(s) \/ i = Len(s) + 1
    BY <2>2
  <2>4. Len(s) + 1 \in 1 .. Len(s) + 1 /\ \A i \in 1 .. Len(s) : i \in 1 .. Len(s) + 1
    BY <2>2
  <2> QED
    BY <2>1, <2>2, <2>3, <2>4 DEF RangeOf
<1>3. ASSUME s # <<>>
      PROVE  Head(s) \in T /\ RangeOf(s) = {Head(s)} \cup RangeOf(Tail(s))
  <2>1. PICK t \in Seq(T) : t = Tail(s)
    BY <1>3, Nonempty
  <2>2. /\ Len(s) \in Nat \ {0} /\ DOMAIN s = 1 .. Len(s) /\ Head(s) = s[1]
        /\ Len(t) = Len(s) - 1
    BY <1>3, <2>1, Nonempty, LenProperties
  <2>3. /\ DOMAIN t = 1 .. Len(s) - 1
        /\ \A i \in 1 .. Len(s) - 1 : t[i] = s[i + 1]
    BY <1>3, <2>1, <2>2, LenProperties
  <2>4. \A i \in 1 .. Len(s) : i = 1 \/ (i - 1 \in 1 .. Len(s) - 1 /\ (i - 1) + 1 = i)
    BY <2>2
  <2>5. 1 \in 1 .. Len(s) /\ \A i \in 1 .. Len(s) - 1 : i + 1 \in 1 .. Len(s)
    BY <2>2
  <2>6. s[1] \in T
    BY <2>5, ElementOfSeq
  <2>7. ASSUME NEW i \in 1 .. Len(s) PROVE s[i] = s[1] \/ s[i] \in RangeOf(t)
    <3>1. CASE i = 1
      BY <3>1
    <3>2. CASE i # 1
      <4>1. i - 1 \in DOMAIN t /\ t[i - 1] = s[i]
        <5>1. PICK j \in 1 .. Len(s) - 1 : j = i - 1 /\ j + 1 = i
          BY <2>4, <3>2
        <5> QED
          BY <2>3, <5>1
      <4> QED
        BY <4>1 DEF RangeOf
    <3> QED
      BY <3>1, <3>2
  <2>8. {s[1]} \cup RangeOf(t) \subseteq RangeOf(s)
    BY <2>2, <2>3, <2>5 DEF RangeOf
  <2> QED
    BY <2>1, <2>2, <2>6, <2>7, <2>8 DEF RangeOf
<1> QED
  BY <1>1, <1>2, <1>3

LEMMA TodoIs == Todo = Orders(cmdq) /\ Todo' = Orders(cmdq')
  BY DEF Todo, Orders, OrderOf

LEMMA ShownInit == Init => Shown!Init
<1> SUFFICES ASSUME Init PROVE Shown!Init
  OBVIOUS
<1>1. mem \in [Memory -> Nat]
  BY Colours DEF Init
<1>2. View \in [Res -> [Pixel -> Nat]]
  <2>1. \A r \in Res, p \in Pixel : mem[Cells[r][p + 1]] \in Nat
    BY <1>1, PagesCover
  <2> QED
    BY <2>1 DEF View
<1>3. Todo = <<>>
  BY DEF Init, Todo
<1>4. Pictures = [r \in Res |-> <<>>]
  BY DEF Init, Pictures, NoRes
<1>5. Owed = {}
  <2>1. RangeOf(<<>>) = {}
    BY DEF RangeOf
  <2> QED
    BY <2>1 DEF Init, Owed
<1> QED
  BY <1>2, <1>3, <1>4, <1>5 DEF Shown!Init, Shown!Gone, Init

\* What the abstraction is made of, where a step leaves it.
LEMMA Stays ==
  /\ UNCHANGED mem => View' = View
  /\ UNCHANGED cmdq => Todo' = Todo
  /\ UNCHANGED resources => Pictures' = Pictures
  /\ UNCHANGED <<pending, frames>> => Owed' = Owed
  BY DEF View, Todo, Pictures, Owed

LEMMA ShownDraw == ASSUME Draw PROVE [Shown!Next]_(Shown!vars)
<1>1. Todo' = Todo /\ Pictures' = Pictures /\ Owed' = Owed /\ UNCHANGED <<scanout, flushes>>
  BY Stays DEF Draw, device
<1>2. CASE View' = View
  BY <1>1, <1>2 DEF Shown!vars
<1>3. CASE View' # View
  BY <1>1, <1>3 DEF Shown!Next, Shown!Draw
<1> QED
  BY <1>2, <1>3

LEMMA ShownSubmit == ASSUME GpuInv, NEW v \in Vcpu, Publish(v) PROVE Shown!Submit
<1>1. /\ View' = View /\ Pictures' = Pictures /\ Owed' = Owed
      /\ UNCHANGED <<scanout, flushes>>
  BY Stays DEF Publish, device
<1>2. PICK c \in Command : cmdq' = Append(cmdq, c)
  BY DEF Publish
<1>3. c \in Cmd
  <2>1. c \in Legal(drv)
    BY <1>2 DEF Command, Legal, Info
  <2> QED
    BY <2>1, LegalIs DEF GpuInv, Protocol
<1>4. Len(Todo') = Len(Todo) + 1 /\ SubSeq(Todo', 1, Len(Todo)) = Todo
  <2>1. cmdq \in Seq(Cmd)
    BY DEF GpuInv, Control
  <2> QED
    BY <1>2, <1>3, <2>1, TodoIs, OrdersGrow
<1> QED
  BY <1>1, <1>4 DEF Shown!Submit

LEMMA PictureSet ==
  ASSUME resources \in [Res -> Stored], NEW r \in Res, NEW x, SetResource(r, x)
  PROVE  Pictures' = [Pictures EXCEPT ![r] = x.buf]
  BY DEF Pictures, SetResource

LEMMA BackingSet ==
  ASSUME resources \in [Res -> Stored], NEW r \in Res, NEW b,
         SetResource(r, [resources[r] EXCEPT !.backing = b])
  PROVE  Pictures' = Pictures
<1>1. [resources[r] EXCEPT !.backing = b].buf = resources[r].buf
  BY DEF Stored
<1>2. Pictures' = [Pictures EXCEPT ![r] = resources[r].buf]
  BY <1>1, PictureSet
<1>3. Pictures[r] = resources[r].buf /\ Pictures = [s \in Res |-> Pictures[s]]
  BY DEF Pictures
<1> QED
  BY <1>2, <1>3

LEMMA ShownTake == ASSUME GpuInv, NEW v \in Vcpu, Serve(v) PROVE Shown!Take
<1>1. PICK d \in Record : Fit(d) /\ Head(cmdq) \in Legal(d)
  BY HeadIsLegal DEF Serve, GpuInv
<1>2. PICK c \in Legal(d) : c = Head(cmdq)
  BY <1>1
<1>3. HandleCommand(c) /\ cmdq # <<>> /\ cmdq' = Tail(cmdq) /\ mem' = mem /\ frames' = frames
  BY <1>2 DEF Serve
<1> DEFINE o == Head(Todo)
<1>4. /\ Todo # <<>> /\ Todo' = Tail(Todo)
      /\ o = OrderOf(c)
  <2>1. cmdq \in Seq(Cmd)
    BY DEF GpuInv, Control
  <2> QED
    BY <1>2, <1>3, <2>1, TodoIs, OrdersShrink
<1>5. o.op = c.op /\ o.res = c.res /\ o.area = Area(c)
  BY <1>4 DEF OrderOf
<1>6. View' = View
  BY <1>3, Stays
<1> HIDE DEF o
<1>0. resources \in [Res -> Stored] /\ 0 \notin Res
  BY Bounds DEF GpuInv, Store
<1>7. \/ Shown!Create(o) \/ Shown!Unref(o) \/ Shown!Bind(o)
      \/ Shown!Transfer(o) \/ Shown!Flush(o) \/ Shown!NoEffect(o)
  <2>1. CASE c.op \in {"info", "attach", "detach"}
    <3>1. UNCHANGED <<scanout, pending, flushes>>
      BY <2>1, <1>3, CommandIs DEF DisplayInfo, AttachBacking, DetachBacking
    <3>2. Pictures' = Pictures
      <4>1. CASE c.op = "info"
        BY <4>1, <1>3, CommandIs, Stays DEF DisplayInfo
      <4>2. CASE c.op = "attach"
        <5>1. AttachBacking(c) /\ c.res \in Res
          BY <4>2, <1>3, CommandIs, LegalIs
        <5>2. \/ UNCHANGED resources
              \/ \E b : SetResource(c.res, [resources[c.res] EXCEPT !.backing = b])
          BY <5>1 DEF AttachBacking
        <5> QED
          BY <1>0, <5>1, <5>2, BackingSet, Stays
      <4>3. CASE c.op = "detach"
        <5>1. DetachBacking(c) /\ c.res \in Res
          BY <4>3, <1>3, CommandIs, LegalIs
        <5>2. \/ UNCHANGED resources
              \/ \E b : SetResource(c.res, [resources[c.res] EXCEPT !.backing = b])
          BY <5>1 DEF DetachBacking
        <5> QED
          BY <1>0, <5>1, <5>2, BackingSet, Stays
      <4> QED
        BY <2>1, <4>1, <4>2, <4>3
    <3>3. Owed' = Owed
      BY <3>1, <1>3, Stays
    <3> QED
      BY <1>5, <2>1, <3>1, <3>2, <3>3 DEF Shown!NoEffect
  <2>2. CASE c.op = "create"
    <3>1. /\ c.res \in Res
          /\ SetResource(c.res, [buf |-> [p \in Pixel |-> 0], backing |-> <<>>])
          /\ UNCHANGED <<scanout, pending, flushes>>
      BY <2>2, <1>3, CommandIs, LegalIs DEF Create2d
    <3>2. Pictures' = [Pictures EXCEPT ![c.res] = [p \in Pixel |-> 0]]
      BY <1>0, <3>1, PictureSet
    <3>3. Owed' = Owed
      BY <3>1, <1>3, Stays
    <3> QED
      BY <1>5, <2>2, <3>1, <3>2, <3>3 DEF Shown!Create, Shown!Black
  <2>3. CASE c.op = "unref"
    <3>1. /\ c.res \in Res /\ SetResource(c.res, NoRes)
          /\ scanout' = IF scanout = c.res THEN 0 ELSE scanout
          /\ UNCHANGED <<pending, flushes>>
      BY <2>3, <1>3, CommandIs, LegalIs DEF Unref
    <3>2. Pictures' = [Pictures EXCEPT ![c.res] = <<>>]
      BY <1>0, <3>1, PictureSet DEF NoRes
    <3>3. Owed' = Owed
      BY <3>1, <1>3, Stays
    <3> QED
      BY <1>5, <2>3, <3>1, <3>2, <3>3 DEF Shown!Unref, Shown!Gone
  <2>4. CASE c.op = "scanout"
    <3>1. scanout' = c.res /\ UNCHANGED <<resources, pending, flushes>>
      BY <2>4, <1>3, CommandIs DEF SetScanout
    <3>2. Pictures' = Pictures /\ Owed' = Owed
      BY <3>1, <1>3, Stays
    <3> QED
      BY <1>5, <2>4, <3>1, <3>2 DEF Shown!Bind
  <2>5. CASE c.op = "transfer"
    <3>1. c.res \in Res /\ Exists(c.res) /\ UNCHANGED <<scanout, pending, flushes>>
      BY <2>5, <1>1, <1>3, CommandIs, LegalIs, ExistsIs DEF Transfer
    <3>2. SetResource(c.res, [resources[c.res] EXCEPT !.buf = Transferred(c)])
      BY <2>5, <1>3, <3>1, CommandIs DEF Transfer
    <3>3. Pictures' = [Pictures EXCEPT ![c.res] = Transferred(c)]
      <4>1. [resources[c.res] EXCEPT !.buf = Transferred(c)].buf = Transferred(c)
        BY <1>0, <3>1 DEF Stored
      <4> QED
        BY <1>0, <3>1, <3>2, <4>1, PictureSet
    <3>4. Transferred(c) = [p \in Pixel |-> IF p \in Area(c) THEN View[c.res][p]
                                            ELSE resources[c.res].buf[p]]
      BY <1>1, <2>5, TransferShows
    <3>5. Pictures[c.res] = resources[c.res].buf
      BY <3>1 DEF Pictures
    <3>6. Pictures' = [Pictures EXCEPT ![o.res] =
             [p \in Pixel |-> IF p \in o.area THEN View[o.res][p] ELSE Pictures[o.res][p]]]
      BY <1>5, <3>3, <3>4, <3>5
    <3>7. Owed' = Owed
      BY <3>1, <1>3, Stays
    <3>8. DOMAIN Pictures = Res /\ o.res \in Res
      BY <1>5, <3>1 DEF Pictures
    <3> QED
      BY <1>5, <2>5, <3>1, <3>6, <3>7, <3>8 DEF Shown!Transfer
  <2>6. CASE c.op = "flush"
    <3> DEFINE f == [n |-> flushes + 1, picture |-> resources[c.res].buf]
    <3>1. c.res \in Res /\ Exists(c.res) /\ UNCHANGED <<resources, scanout>>
      BY <2>6, <1>1, <1>3, CommandIs, LegalIs, ExistsIs DEF Flush
    <3>2. /\ flushes' = IF c.res = scanout THEN flushes + 1 ELSE flushes
          /\ pending' = IF c.res = scanout THEN Append(pending, f) ELSE pending
      BY <2>6, <1>3, <3>1, CommandIs DEF Flush
    <3>3. Pictures' = Pictures /\ Pictures[c.res] = resources[c.res].buf
      BY <3>1, Stays DEF Pictures
    <3>4. CASE c.res # scanout
      <4>1. UNCHANGED flushes /\ Owed' = Owed
        BY <1>3, <3>2, <3>4, Stays
      <4> QED
        BY <1>5, <2>6, <3>1, <3>3, <3>4, <4>1 DEF Shown!Flush
    <3>5. CASE c.res = scanout
      <4>1. f \in Frame /\ pending \in Seq(Frame)
        <5>1. d[c.res] = "attached"
          BY <2>6, LegalIs
        <5> QED
          BY <1>1, <3>1, <5>1 DEF GpuInv, Frames, Fit, Suits, Frame
      <4>2. f = [n |-> flushes', picture |-> Pictures[o.res]]
        BY <1>5, <3>2, <3>3, <3>5
      <4> HIDE DEF f
      <4>3. RangeOf(pending') = RangeOf(pending) \cup {f}
        BY <3>2, <3>5, <4>1, Holds
      <4>4. Owed' = Owed \cup {f}
        BY <1>3, <4>3 DEF Owed
      <4>5. flushes' = flushes + 1 /\ o.res = scanout /\ o.op = "flush"
        BY <1>5, <2>6, <3>2, <3>5
      <4> QED
        BY <3>1, <3>3, <4>2, <4>4, <4>5 DEF Shown!Flush
    <3> QED
      BY <3>4, <3>5
  <2> QED
    BY <2>1, <2>2, <2>3, <2>4, <2>5, <2>6, LegalIs
<1> QED
  BY <1>4, <1>6, <1>7 DEF Shown!Take, o

LEMMA ShownFrame == ASSUME GpuInv, NEW v \in Vcpu, Show(v) PROVE [Shown!Next]_(Shown!vars)
<1>1. /\ View' = View /\ Todo' = Todo /\ Pictures' = Pictures
      /\ UNCHANGED <<scanout, flushes, pending>>
  BY Stays DEF Show, device
<1>2. /\ frames \in [Vcpu -> Seq(Frame)] /\ frames[v] # <<>>
      /\ frames' = [frames EXCEPT ![v] = Tail(frames[v])]
  BY DEF GpuInv, Frames, Show
<1> DEFINE f == Head(frames[v])
<1>3. RangeOf(frames[v]) = {f} \cup RangeOf(frames'[v])
  <2>1. RangeOf(frames[v]) = {f} \cup RangeOf(Tail(frames[v]))
    BY <1>2, Holds
  <2> QED
    BY <1>2, <2>1
<1> HIDE DEF f
<1>4. \A w \in Vcpu : w # v => frames'[w] = frames[w]
  BY <1>2
<1>5. \A w \in Vcpu : RangeOf(frames[w]) \subseteq {f} \cup RangeOf(frames'[w])
                      /\ RangeOf(frames'[w]) \subseteq RangeOf(frames[w])
  BY <1>3, <1>4
<1>6. /\ Owed = RangeOf(pending) \cup UNION {RangeOf(frames[w]) : w \in Vcpu}
      /\ Owed' = RangeOf(pending) \cup UNION {RangeOf(frames'[w]) : w \in Vcpu}
  BY <1>1 DEF Owed
<1>7. f \in Owed /\ Owed' \subseteq Owed /\ Owed \subseteq {f} \cup Owed'
  BY <1>3, <1>5, <1>6
<1>8. CASE f \in Owed'
  BY <1>1, <1>7, <1>8 DEF Shown!vars
<1>9. CASE f \notin Owed'
  <2>1. Owed' = Owed \ {f}
    BY <1>7, <1>9
  <2> QED
    BY <1>1, <1>7, <2>1 DEF Shown!Next, Shown!Show
<1> QED
  BY <1>8, <1>9

\* The frames staged go from the device to the thread that shows them.
LEMMA ShownRaise == ASSUME GpuInv, NEW v \in Vcpu, Raise(v) PROVE UNCHANGED Shown!vars
<1>1. /\ View' = View /\ Todo' = Todo /\ Pictures' = Pictures
      /\ UNCHANGED <<scanout, flushes>>
  BY Stays DEF Raise, driver
<1>2. /\ frames \in [Vcpu -> Seq(Frame)] /\ frames[v] = <<>>
      /\ frames' = [frames EXCEPT ![v] = pending] /\ pending' = <<>>
  BY DEF GpuInv, Frames, Raise, Goto
<1>3. RangeOf(<<>>) = {}
  BY DEF RangeOf
<1>4. /\ RangeOf(frames[v]) = {} /\ RangeOf(frames'[v]) = RangeOf(pending)
      /\ RangeOf(pending') = {}
      /\ \A w \in Vcpu : w # v => RangeOf(frames'[w]) = RangeOf(frames[w])
  BY <1>2, <1>3
<1>5. /\ Owed = RangeOf(pending) \cup UNION {RangeOf(frames[w]) : w \in Vcpu}
      /\ Owed' = RangeOf(pending') \cup UNION {RangeOf(frames'[w]) : w \in Vcpu}
  BY DEF Owed
<1>6. Owed' = Owed
  <2>1. Owed' \subseteq Owed
    BY <1>4, <1>5
  <2>2. Owed \subseteq Owed'
    BY <1>4, <1>5
  <2> QED
    BY <2>1, <2>2
<1> QED
  BY <1>1, <1>6 DEF Shown!vars

LEMMA ShownReset == ASSUME GpuInv, NEW v \in Vcpu, Reset(v) PROVE Shown!Reset
<1>1. /\ View' = View /\ UNCHANGED <<frames, flushes>>
      /\ scanout' = 0 /\ cmdq' = <<>> /\ pending' = pending
      /\ resources' = [r \in Res |-> NoRes]
  BY Stays DEF Reset, GpuInv, Frames
<1>2. Owed' = Owed
  BY <1>1, Stays
<1>3. Todo' = <<>>
  BY <1>1 DEF Todo
<1>4. Pictures' = [r \in Res |-> <<>>]
  BY <1>1 DEF Pictures, NoRes
<1> QED
  BY <1>1, <1>2, <1>3, <1>4 DEF Shown!Reset, Shown!Gone

(* The device implements Display: commands take effect one by one and in   *)
(* order, a transfer copies the rectangle from where the scatter list puts *)
(* it to where it belongs, and every flush of the resource on the scanout  *)
(* is shown, as the picture was then - for any display, memory, scatter    *)
(* lists that cover it, rectangles and vCPUs.                              *)
THEOREM DisplayImplemented == Spec => ImplementsDisplay
<1>1. GpuInv /\ [Next]_vars => [Shown!Next]_(Shown!vars)
  <2> SUFFICES ASSUME GpuInv, [Next]_vars PROVE [Shown!Next]_(Shown!vars)
    OBVIOUS
  <2>1. CASE UNCHANGED vars
    BY <2>1, Stays DEF vars, device, driver, Shown!vars
  <2>2. CASE Draw
    BY <2>2, ShownDraw
  <2>3. ASSUME NEW v \in Vcpu, Publish(v) PROVE Shown!Next
    BY <2>3, ShownSubmit DEF Shown!Next
  <2>4. ASSUME NEW v \in Vcpu, Serve(v) PROVE Shown!Next
    BY <2>4, ShownTake DEF Shown!Next
  <2>5. ASSUME NEW v \in Vcpu, Show(v) PROVE [Shown!Next]_(Shown!vars)
    BY <2>5, ShownFrame
  <2>6. ASSUME NEW v \in Vcpu, Raise(v) PROVE UNCHANGED Shown!vars
    BY <2>6, ShownRaise
  <2>7. ASSUME NEW v \in Vcpu, Reset(v) PROVE Shown!Next
    BY <2>7, ShownReset DEF Shown!Next
  <2>8. ASSUME NEW v \in Vcpu,
               \/ Notify(v) \/ Drained(v)
               \/ Probe(v) \/ TakeIrq(v) \/ AckIrq(v) \/ Collect(v)
        PROVE  UNCHANGED Shown!vars
    <3>1. UNCHANGED <<mem, cmdq, resources, pending, frames, scanout, flushes>>
      BY <2>8 DEF Notify, Drained, Probe, TakeIrq, AckIrq, Collect, device, driver
    <3> QED
      BY <3>1, Stays DEF Shown!vars
  <2> QED
    BY <2>1, <2>2, <2>3, <2>4, <2>5, <2>6, <2>7, <2>8 DEF Next, Device, Driver
<1> QED
  BY <1>1, ShownInit, GpuInvariant, PTL DEF Spec, ImplementsDisplay, Shown!Spec

=============================================================================
