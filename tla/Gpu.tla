--------------------------------- MODULE Gpu ---------------------------------
(***************************************************************************)
(* The virtio-gpu device (virtio/gpu.cpp) in its 2D mode, with the guest   *)
(* driver: the control queue, the resources with their scattered backing   *)
(* pages, the scanout, and the frames that write() hands to the            *)
(* application's callback on the vCPU thread after it has released mtx_.   *)
(*                                                                         *)
(* Memory, offsets and lengths are counted in pixels, and a pixel is a     *)
(* number.  The control queue is a sequence: VirtioBlock lays out a ring.  *)
(* All resources have the size of the display.  The driver is external: it *)
(* pipelines commands, in an order virtio-gpu allows, with no wait for the *)
(* answers, and draws whenever it likes.                                   *)
(***************************************************************************)
EXTENDS Integers, Sequences, FiniteSets

CONSTANTS
  Vcpu,        \* the guest's vCPUs
  Res,         \* resource ids the driver uses
  Width, Height,
  Memory,      \* guest memory the resources may live in
  Pages,       \* the scatter list the driver attaches to each resource
  Rects,       \* rectangles <<x, y, width, height>> the driver transfers
  Ring,        \* kQueueSize: commands the control queue holds
  MaxCmds,     \* bound on the commands issued
  MaxDraws,    \* bound on the pictures drawn
  MaxResets    \* bound on the driver's device resets

ASSUME GpuAssumption ==
  /\ Width \in Nat \ {0} /\ Height \in Nat \ {0}
  /\ {Ring, MaxCmds, MaxDraws, MaxResets} \subseteq Nat
  /\ Rects \subseteq Nat \X Nat \X Nat \X Nat
  /\ Res \subseteq Nat \ {0} /\ Memory \subseteq Nat /\ IsFiniteSet(Memory)
  /\ Pages \in [Res -> Seq([gpa : Nat, len : Nat])]
  /\ "nobody" \notin Vcpu

VARIABLES
  mem,                         \* guest memory
  (* device *)
  mtx, irqStatus, resources, scanout, pending,
  frames,                      \* write()'s local: the frames it took out
  (* the control queue: published and not taken; is it set up? *)
  cmdq, ready,
  (* interrupt controller *)
  spi,
  (* driver *)
  pc, drv, issued, draws, resets,
  used,                        \* answers in the used ring not looked at
  refused,                     \* has an answer been an error?
  (* history: frames staged so far *)
  flushes

device  == <<mtx, irqStatus, resources, scanout, pending>>
driver  == <<drv, issued, draws, resets, used>>
vars == <<mem, device, frames, cmdq, ready, spi, pc, driver, refused, flushes>>

Nobody == "nobody"
Pixel  == 0 .. Width * Height - 1
NoRes  == [buf |-> <<>>, backing |-> <<>>]
NoCmd  == [op |-> "none", res |-> 0, rect |-> <<0, 0, 0, 0>>, offset |-> 0]

Goto(v, from, to) == pc[v] = from /\ pc' = [pc EXCEPT ![v] = to]

\* The d-th picture has a colour of its own for every pixel; 0 is black.
Last == CHOOSE m \in Memory : \A n \in Memory : n <= m
Colour(d, a) == 1 + d * (1 + Last) + a

Init ==
  /\ mem = [a \in Memory |-> Colour(0, a)]
  /\ mtx = Nobody /\ irqStatus = 0
  /\ resources = [r \in Res |-> NoRes]
  /\ scanout = 0 /\ pending = <<>>
  /\ frames = [v \in Vcpu |-> <<>>]
  /\ cmdq = <<>> /\ ready = FALSE /\ spi = FALSE
  /\ pc = [v \in Vcpu |-> "idle"]
  /\ drv = [r \in Res |-> "none"]
  /\ issued = 0 /\ draws = 0 /\ resets = 0 /\ used = 0 /\ refused = FALSE
  /\ flushes = 0

-----------------------------------------------------------------------------
(* The driver. *)

\* Probe: features accepted, queues set up.
Probe(v) ==
  /\ ~ready /\ mtx = Nobody
  /\ pc[v] = "idle"
  /\ ready' = TRUE
  /\ UNCHANGED <<mem, device, frames, cmdq, spi, pc, driver, refused, flushes>>

\* The guest draws another picture.
Draw ==
  /\ draws < MaxDraws
  /\ mem' = [a \in Memory |-> Colour(draws + 1, a)]
  /\ draws' = draws + 1
  /\ UNCHANGED <<device, frames, cmdq, ready, spi, pc, drv, issued, resets,
                 used, refused, flushes>>

Ask(op, r) == [NoCmd EXCEPT !.op = op, !.res = r]
AskTransfer(r, c) ==
  [op |-> "transfer", res |-> r, rect |-> c, offset |-> c[2] * Width + c[1]]

\* What the driver may ask once its commands have brought it to d, and where
\* a command brings it.
Asks(d) ==
  LET In(state) == {r \in Res : d[r] = state}
  IN {Ask("scanout", 0)}
     \cup {Ask("create", r) : r \in In("none")}
     \cup {Ask("attach", r) : r \in In("created")}
     \cup {Ask(op, r) : op \in {"flush", "scanout", "unref", "detach"},
                        r \in In("attached")}
     \cup {AskTransfer(r, c) : r \in In("attached"), c \in Rects}

After(d, c) ==
  CASE c.op \in {"create", "detach"} -> [d EXCEPT ![c.res] = "created"]
    [] c.op = "attach" -> [d EXCEPT ![c.res] = "attached"]
    [] c.op = "unref"  -> [d EXCEPT ![c.res] = "none"]
    [] OTHER -> d

\* It asks for the display's size before anything else.
Command == Asks(drv) \cup {Ask("info", 0) : i \in {0} \cap {issued}}

Publish(v) ==
  /\ ready
  /\ issued < MaxCmds /\ Len(cmdq) + used < Ring
  /\ Goto(v, "idle", "kick")
  /\ \E c \in Command : cmdq' = Append(cmdq, c) /\ drv' = After(drv, c)
  /\ issued' = issued + 1
  /\ UNCHANGED <<mem, device, frames, ready, spi, draws, resets, used, refused,
                 flushes>>

-----------------------------------------------------------------------------
(* Gpu::write(QueueNotify): it takes mtx_ and drains the control queue. *)

Notify(v) ==
  /\ mtx = Nobody
  /\ Goto(v, "kick", IF ready THEN "drain" ELSE "idle")
  /\ mtx' = IF ready THEN v ELSE Nobody
  /\ UNCHANGED <<mem, irqStatus, resources, scanout, pending, frames, cmdq,
                 ready, spi, driver, refused, flushes>>

Exists(r) == r \in Res /\ resources[r].buf # <<>>

\* read_backing: where each entry of the scatter list begins in it.
LinBase(backing) ==
  LET base[i \in 1 .. Len(backing)] ==
        IF i = 1 THEN 0 ELSE base[i - 1] + backing[i - 1].len
  IN base

\* read_backing at one position: the entry that covers it says where the
\* pixel is; unmapped memory reads zero; beyond the list `old` stays.
ReadBacking(backing, off, old) ==
  LET base  == LinBase(backing)
      Cover == {i \in DOMAIN backing :
                  base[i] <= off /\ off < base[i] + backing[i].len}
  IN IF Cover = {} THEN old
     ELSE LET i == CHOOSE i \in Cover : TRUE
              a == backing[i].gpa + (off - base[i])
          IN IF a \in Memory THEN mem[a] ELSE 0

MinOf(a, b) == IF a < b THEN a ELSE b

\* The rectangle, cut at the edges of the resource.
InRect(c, p) ==
  /\ c.rect[1] <= p % Width
  /\ p % Width < MinOf(c.rect[1] + c.rect[3], Width)
  /\ c.rect[2] <= p \div Width
  /\ p \div Width < MinOf(c.rect[2] + c.rect[4], Height)

\* Mutation: the rows are taken to follow one another in the backing.
TransferredPacked(c) ==
  LET res == resources[c.res]
  IN [p \in Pixel |->
        IF InRect(c, p)
          THEN ReadBacking(res.backing,
                 c.offset + (p \div Width - c.rect[2]) * c.rect[3]
                   + ((p % Width) - c.rect[1]),
                 res.buf[p])
          ELSE res.buf[p]]

\* TRANSFER_TO_HOST_2D, row by row: row k of the rectangle is read at
\* offset + k * stride.
Transferred(c) ==
  LET res == resources[c.res]
  IN [p \in Pixel |->
        IF InRect(c, p)
          THEN ReadBacking(res.backing,
                 c.offset + (p \div Width - c.rect[2]) * Width
                   + ((p % Width) - c.rect[1]),
                 res.buf[p])
          ELSE res.buf[p]]

Answer(ok) == refused' = (refused \/ ~ok)
SetResource(r, value) == resources' = [resources EXCEPT ![r] = value]

DisplayInfo(c) ==
  /\ c.op = "info"
  /\ Answer(TRUE)
  /\ UNCHANGED <<resources, scanout, pending, flushes>>

\* An id that is in use is taken over.
Create2d(c) ==
  /\ c.op = "create"
  /\ SetResource(c.res, [buf |-> [p \in Pixel |-> 0], backing |-> <<>>])
  /\ Answer(TRUE)
  /\ UNCHANGED <<scanout, pending, flushes>>

\* Mutation: the scanout keeps the id.
UnrefKeepsScanout(c) ==
  /\ c.op = "unref"
  /\ SetResource(c.res, NoRes)
  /\ Answer(TRUE)
  /\ UNCHANGED <<scanout, pending, flushes>>

Unref(c) ==
  /\ c.op = "unref"
  /\ SetResource(c.res, NoRes)
  /\ scanout' = IF scanout = c.res THEN 0 ELSE scanout
  /\ Answer(TRUE)
  /\ UNCHANGED <<pending, flushes>>

SetScanout(c) ==
  /\ c.op = "scanout"
  /\ scanout' = c.res
  /\ Answer(TRUE)
  /\ UNCHANGED <<resources, pending, flushes>>

\* A copy of the resource is staged if it is on the scanout.
Flush(c) ==
  /\ c.op = "flush"
  /\ Answer(Exists(c.res))
  /\ LET shows == Exists(c.res) /\ c.res = scanout
     IN /\ flushes' = IF shows THEN flushes + 1 ELSE flushes
        /\ pending' = IF shows
             THEN Append(pending, [n |-> flushes + 1,
                                   picture |-> resources[c.res].buf])
             ELSE pending
  /\ UNCHANGED <<resources, scanout>>

Transfer(c) ==
  /\ c.op = "transfer"
  /\ Answer(Exists(c.res))
  /\ IF Exists(c.res)
       THEN SetResource(c.res, [resources[c.res] EXCEPT !.buf = Transferred(c)])
       ELSE UNCHANGED resources
  /\ UNCHANGED <<scanout, pending, flushes>>

\* The entries are added to those the resource has.
AttachBacking(c) ==
  /\ c.op = "attach"
  /\ Answer(Exists(c.res))
  /\ IF Exists(c.res)
       THEN SetResource(c.res,
              [resources[c.res] EXCEPT !.backing = @ \o Pages[c.res]])
       ELSE UNCHANGED resources
  /\ UNCHANGED <<scanout, pending, flushes>>

DetachBacking(c) ==
  /\ c.op = "detach"
  /\ Answer(TRUE)
  /\ IF Exists(c.res)
       THEN SetResource(c.res, [resources[c.res] EXCEPT !.backing = <<>>])
       ELSE UNCHANGED resources
  /\ UNCHANGED <<scanout, pending, flushes>>

HandleCommand(c) ==
  \/ DisplayInfo(c) \/ Create2d(c) \/ Unref(c) \/ SetScanout(c)
  \/ Flush(c) \/ Transfer(c) \/ AttachBacking(c) \/ DetachBacking(c)

\* Mutation: the newest command is taken first.
ServeNewest(v) ==
  /\ pc[v] = "drain"
  /\ cmdq # <<>>
  /\ HandleCommand(cmdq[Len(cmdq)])
  /\ cmdq' = SubSeq(cmdq, 1, Len(cmdq) - 1)
  /\ used' = used + 1
  /\ UNCHANGED <<mem, mtx, irqStatus, frames, ready, spi, pc, drv, issued,
                 draws, resets>>

\* One turn of process_controlq: the command is handled, its answer written,
\* and the used index moves on.
Serve(v) ==
  /\ pc[v] = "drain"
  /\ cmdq # <<>>
  /\ HandleCommand(Head(cmdq))
  /\ cmdq' = Tail(cmdq)
  /\ used' = used + 1
  /\ UNCHANGED <<mem, mtx, irqStatus, frames, ready, spi, pc, drv, issued,
                 draws, resets>>

\* The loop sees an empty queue.
Drained(v) ==
  /\ cmdq = <<>>
  /\ Goto(v, "drain", "raise")
  /\ UNCHANGED <<mem, device, frames, cmdq, ready, spi, driver, refused, flushes>>

\* Mutation: the bit is set, but the SPI is not pulsed.
RaiseQuietly(v) ==
  /\ Goto(v, "raise", IF pending = <<>> THEN "idle" ELSE "show")
  /\ irqStatus' = 1
  /\ frames' = [frames EXCEPT ![v] = pending]
  /\ pending' = <<>>
  /\ mtx' = Nobody
  /\ UNCHANGED <<mem, resources, scanout, cmdq, ready, spi, driver, refused,
                 flushes>>

\* The interrupt is raised, the staged frames move to a local of write(), and
\* mtx_ is released.
Raise(v) ==
  /\ Goto(v, "raise", IF pending = <<>> THEN "idle" ELSE "show")
  /\ irqStatus' = 1 /\ spi' = TRUE
  /\ frames' = [frames EXCEPT ![v] = pending]
  /\ pending' = <<>>
  /\ mtx' = Nobody
  /\ UNCHANGED <<mem, resources, scanout, cmdq, ready, driver, refused, flushes>>

\* frame_cb_ with the next frame, without mtx_.
Show(v) ==
  /\ frames[v] # <<>>
  /\ Goto(v, "show", IF Len(frames[v]) = 1 THEN "idle" ELSE "show")
  /\ frames' = [frames EXCEPT ![v] = Tail(@)]
  /\ UNCHANGED <<mem, device, cmdq, ready, spi, driver, refused, flushes>>

-----------------------------------------------------------------------------
(* The driver's interrupt handler, and its reset of the device. *)

TakeIrq(v) ==
  /\ spi
  /\ \A w \in Vcpu : pc[w] \notin {"irq", "scan"}
  /\ Goto(v, "idle", "irq")
  /\ spi' = FALSE
  /\ UNCHANGED <<mem, device, frames, cmdq, ready, driver, refused, flushes>>

\* IrqStatus is read and acknowledged.
AckIrq(v) ==
  /\ mtx = Nobody
  /\ Goto(v, "irq", IF irqStatus = 0 THEN "idle" ELSE "scan")
  /\ irqStatus' = 0
  /\ UNCHANGED <<mem, mtx, resources, scanout, pending, frames, cmdq, ready,
                 spi, driver, refused, flushes>>

\* The driver takes the answers it finds.
Collect(v) ==
  /\ Goto(v, "scan", "idle")
  /\ used' = 0
  /\ UNCHANGED <<mem, device, frames, cmdq, ready, spi, drv, issued, draws,
                 resets, refused, flushes>>

\* Status = 0.  The driver has stopped using the device, but write() may not
\* have returned from the callback yet.
Reset(v) ==
  /\ ready /\ resets < MaxResets
  /\ mtx = Nobody
  /\ pc[v] = "idle"
  /\ \A w \in Vcpu : pc[w] \in {"idle", "show"}
  /\ ready' = FALSE /\ cmdq' = <<>> /\ used' = 0
  /\ irqStatus' = 0 /\ scanout' = 0
  /\ resources' = [r \in Res |-> NoRes]
  /\ pending' = <<>>
  /\ drv' = [r \in Res |-> "none"]
  /\ resets' = resets + 1
  /\ UNCHANGED <<mem, mtx, frames, spi, pc, issued, draws, refused, flushes>>

-----------------------------------------------------------------------------
Device(v) == Notify(v) \/ Serve(v) \/ Drained(v) \/ Raise(v) \/ Show(v)
Driver(v) == Probe(v) \/ Publish(v) \/ TakeIrq(v) \/ AckIrq(v) \/ Collect(v)
               \/ Reset(v)

Next == Draw \/ \E v \in Vcpu : Device(v) \/ Driver(v)

Spec == Init /\ [][Next]_vars

(* Each vCPU thread keeps running, gets mtx_ in the end, and its callback  *)
(* returns; a pending interrupt is taken.                                  *)
FairSpec ==
  /\ Spec
  /\ WF_vars(\E v \in Vcpu : TakeIrq(v))
  /\ \A v \in Vcpu :
       /\ SF_vars(Notify(v) \/ AckIrq(v))
       /\ WF_vars(Serve(v) \/ Drained(v) \/ Raise(v) \/ Show(v) \/ Collect(v))

-----------------------------------------------------------------------------
Buffer == [Pixel -> Nat]
Frame  == [n : Nat, picture : Buffer]

(* Types; frames are staged only while write() holds mtx_, and taken out   *)
(* of it only by the vCPU that shows them; what is on the scanout exists,  *)
(* since a driver shows only what it has created.                          *)
TypeOK ==
  /\ mem \in [Memory -> Nat]
  /\ mtx \in Vcpu \cup {Nobody} /\ irqStatus \in {0, 1}
  /\ \A r \in Res : \/ resources[r] = NoRes
                    \/ /\ resources[r].buf \in Buffer
                       /\ resources[r].backing \in {<<>>, Pages[r]}
  /\ scanout \in Res \cup {0} /\ (scanout # 0 => Exists(scanout))
  /\ pending \in Seq(Frame) /\ (mtx = Nobody => pending = <<>>)
  /\ \A v \in Vcpu : /\ frames[v] \in Seq(Frame)
                     /\ frames[v] # <<>> <=> pc[v] = "show"
                     /\ pc[v] \in {"drain", "raise"} <=> mtx = v
  /\ ready \in BOOLEAN /\ spi \in BOOLEAN /\ refused \in BOOLEAN
  /\ pc \in [Vcpu -> {"idle", "kick", "drain", "raise", "show", "irq", "scan"}]
  /\ drv \in [Res -> {"none", "created", "attached"}]
  /\ issued \in 0 .. MaxCmds /\ draws \in 0 .. MaxDraws
  /\ resets \in 0 .. MaxResets /\ used \in 0 .. Ring
  /\ flushes \in Nat

(* A driver that keeps to the protocol is never refused, however far its   *)
(* commands run ahead of the device and whatever a reset cut off.  It has  *)
(* to hold: an error answer carries no fence, and a driver waits for it.   *)
LegalNeverRefused == ~refused

RangeOf(f) == {f[x] : x \in DOMAIN f}

\* Frames that are staged, or taken out of the device, and not yet shown.
Owed == RangeOf(pending) \cup UNION {RangeOf(frames[v]) : v \in Vcpu}

(* Every command published is answered, or forgotten in a reset, and every *)
(* answer is looked at; every frame flushed reaches the callback, and none *)
(* waits for a later command.                                              *)
EverythingIsServed ==
  /\ []<>(cmdq = <<>> /\ used = 0)
  /\ []<>(Owed = {})

\* The pages of a scatter list in a row, up to its i-th entry.
InARow(list) ==
  LET upto[i \in 0 .. Len(list)] ==
        IF i = 0 THEN <<>>
        ELSE upto[i - 1] \o [k \in 1 .. list[i].len |-> list[i].gpa + k - 1]
  IN upto

\* Where the guest keeps its picture of a resource.
Cells == [r \in Res |-> InARow(Pages[r])[Len(Pages[r])]]

\* What a driver attaches is its own memory, and all of the picture.
ASSUME PagesCover ==
  \A r \in Res, p \in Pixel :
    p + 1 \in DOMAIN Cells[r] /\ Cells[r][p + 1] \in Memory

Area(c) == {p \in Pixel :
              \E i \in 0 .. c.rect[3] - 1, j \in 0 .. c.rect[4] - 1 :
                /\ c.rect[1] + i < Width
                /\ p = (c.rect[2] + j) * Width + c.rect[1] + i}

View     == [r \in Res |-> [p \in Pixel |-> mem[Cells[r][p + 1]]]]
Todo     == [i \in DOMAIN cmdq |->
               [op |-> cmdq[i].op, res |-> cmdq[i].res, area |-> Area(cmdq[i])]]
Pictures == [r \in Res |-> resources[r].buf]

Shown == INSTANCE Display WITH
  view <- View, todo <- Todo, picture <- Pictures, bound <- scanout, owed <- Owed
ImplementsDisplay == Shown!Spec
=============================================================================
