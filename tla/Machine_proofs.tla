---------------------------- MODULE Machine_proofs ----------------------------
(***************************************************************************)
(* What Machine's run checks on four machines, proved for any number of    *)
(* processes and machines and any configurations.                          *)
(***************************************************************************)
EXTENDS Machine, TLAPS

USE MachineAssumption, ConfigAssumption

\* Each machine has its own memory, and only in some places.
Own == \A m \in Machine :
  /\ fd[m] \in {None, m}
  /\ at[m] \in {"map", "built"} \cup WithGuest => ram[m] = m
  /\ at[m] \in Ending => ram[m] \in {None, m}
  /\ at[m] \in {"none", "vm", "gone", "crashed"} \cup NoRamYet => ram[m] = None

\* The application of a process has one thread.
OneAtATime == \A m, k \in Machine :
  m # k /\ Home[m] = Home[k] => at[m] \in Resting \/ at[k] \in Resting

\* A process that dies takes all its machines.
DieTogether == \A m, k \in Machine :
  Home[m] = Home[k] /\ at[m] = "crashed" => at[k] = "crashed"

\* Who may have created the VM a process has.
VmKnown ==
  /\ \A p \in Proc : hv[p] # None =>
       /\ Home[hv[p]] = p
       /\ at[hv[p]] \notin {"none", "vm", "crashed"}
       /\ at[hv[p]] \in Ending \cup {"gone"} => failed[hv[p]]
  /\ \A m \in Machine :
       /\ at[m] \in {"map", "built"} \cup NoRamYet \cup WithGuest
            => hv[Home[m]] = m
       /\ at[m] \in Ending /\ ram[m] # None => hv[Home[m]] \in {None, m}

\* What it maps.
GuestKnown ==
  /\ \A p \in Proc : guestRam[p] # None =>
       guestRam[p] = hv[p] /\ ram[guestRam[p]] # None
  /\ \A m \in Machine :
       at[m] \in {"built"} \cup WithGuest => guestRam[Home[m]] = m

\* Where a machine may have devices and threads.
Parts == \A m \in Machine :
  /\ at[m] \in WithConsole \cup {"built"} =>
       /\ "console" \in devs[m] /\ "rx" \in threads[m]
       /\ "flush" \in threads[m] <=> "net" \in devs[m]
  /\ devs[m] # {} \/ threads[m] # {} =>
       /\ at[m] \in {"built", "drop_net", "drop_console"} \cup WithConsole
       /\ ram[m] = m
  /\ at[m] = "drop_console" => "flush" \notin threads[m]

\* What the name may stand for.
NameKnown == name # None =>
  /\ at[name] \in {"size", "mmap", "map", "built", "crashed"}
                    \cup WithGuest \cup Ending
  /\ at[name] \in Ending => ram[name] # None

\* Who may have changed the terminal, and what it was before.
TerminalKnown ==
  /\ \A m \in Machine : "console" \in devs[m] => ~saved[m]
  /\ \A p \in Proc : raw[p] =>
       \E m \in Machine :
         Home[m] = p /\ ("console" \in devs[m] \/ at[m] = "crashed")

Inv == /\ Own /\ OneAtATime /\ DieTogether /\ VmKnown /\ GuestKnown
       /\ Parts /\ NameKnown /\ TerminalKnown

-----------------------------------------------------------------------------
(* The shared memory is open only until it is mapped, and every variable   *)
(* keeps its type, whatever the configurations.                            *)
THEOREM MachineTypeCorrect == Spec => []TypeOK
<1> USE DEF TypeOK, Machines, Places, Building, Ending, Resting, NoRamYet,
            WithGuest, WithConsole, host, own
<1>1. Init => TypeOK
  BY DEF Init, Blank
<1>2. TypeOK /\ [Next]_vars => TypeOK'
  <2> SUFFICES ASSUME TypeOK, [Next]_vars PROVE TypeOK'
    OBVIOUS
  <2>1. ASSUME NEW m \in Machine, Begin(m)
        PROVE TypeOK'
    BY <2>1 DEF Begin, ThreadFree, Goto
  <2>2. ASSUME NEW m \in Machine, Fails(m)
        PROVE TypeOK'
    BY <2>2 DEF Fails, Throw
  <2>3. ASSUME NEW m \in Machine, CreateVm(m)
        PROVE TypeOK'
    BY <2>3 DEF CreateVm, Goto
  <2>4. ASSUME NEW m \in Machine, UnlinkName(m)
        PROVE TypeOK'
    BY <2>4 DEF UnlinkName, Goto
  <2>5. ASSUME NEW m \in Machine, Open(m)
        PROVE TypeOK'
    BY <2>5 DEF Open, Goto
  <2>6. ASSUME NEW m \in Machine, Resize(m)
        PROVE TypeOK'
    BY <2>6 DEF Resize, Goto
  <2>7. ASSUME NEW m \in Machine, ResizeOrMmapFails(m)
        PROVE TypeOK'
    BY <2>7 DEF ResizeOrMmapFails, Throw
  <2>8. ASSUME NEW m \in Machine, Mmap(m)
        PROVE TypeOK'
    BY <2>8 DEF Mmap, Goto
  <2>9. ASSUME NEW m \in Machine, MapGuest(m)
        PROVE TypeOK'
    BY <2>9 DEF MapGuest, Goto
  <2>10. ASSUME NEW m \in Machine, CreateGic(m)
        PROVE TypeOK'
    BY <2>10 DEF CreateGic, Goto
  <2>11. ASSUME NEW m \in Machine, CreateConsole(m)
        PROVE TypeOK'
    BY <2>11 DEF CreateConsole, Goto, Virtio
  <2>12. ASSUME NEW m \in Machine, NEW d \in DOMAIN AfterDevice,
                CreateDevice(m, d)
        PROVE TypeOK'
    BY <2>12 DEF CreateDevice, Goto, AfterDevice, Virtio
  <2>13. ASSUME NEW m \in Machine, LoadKernel(m)
        PROVE TypeOK'
    BY <2>13, ZenonT(40) DEF LoadKernel, Goto
  <2>14. ASSUME NEW m \in Machine, LoadInitrd(m)
        PROVE TypeOK'
    BY <2>14, ZenonT(40) DEF LoadInitrd, Goto
  <2>15. ASSUME NEW m \in Machine, GenerateDtb(m)
        PROVE TypeOK'
    BY <2>15, ZenonT(40) DEF GenerateDtb, Goto
  <2>16. ASSUME NEW m \in Machine, Destroy(m)
        PROVE TypeOK'
    BY <2>16 DEF Destroy, ThreadFree, Goto
  <2>17. ASSUME NEW m \in Machine, DropNet(m)
        PROVE TypeOK'
    BY <2>17 DEF DropNet, Goto, Virtio
  <2>18. ASSUME NEW m \in Machine, DropConsole(m)
        PROVE TypeOK'
    BY <2>18 DEF DropConsole, Goto, Virtio
  <2>19. ASSUME NEW m \in Machine, Release(m)
        PROVE TypeOK'
    BY <2>19 DEF Release, Goto
  <2>20. ASSUME NEW p \in Proc, Crash(p)
        PROVE TypeOK'
    BY <2>20 DEF Crash, Blank
  <2>21. CASE UNCHANGED vars
    BY <2>21 DEF vars
  <2> QED
    BY <2>1, <2>2, <2>3, <2>4, <2>5, <2>6, <2>7, <2>8, <2>9, <2>10, <2>11,
       <2>12, <2>13, <2>14, <2>15, <2>16, <2>17, <2>18, <2>19, <2>20, <2>21
    DEF Next, Construct, Destruct
<1> QED
  BY <1>1, <1>2, PTL DEF Spec

(* The strengthening the theorems below rest on.                           *)
LEMMA InvHolds == Spec => []Inv
<1> USE DEF Inv, Own, OneAtATime, DieTogether, VmKnown, GuestKnown, Parts,
            NameKnown, TerminalKnown, TypeOK, Machines, Places, Building,
            Ending, Resting, NoRamYet, WithGuest, WithConsole, host, own
<1>1. Init => Inv
  BY DEF Init
<1>2. TypeOK /\ TypeOK' /\ Inv /\ [Next]_vars => Inv'
  <2> SUFFICES ASSUME TypeOK, TypeOK', Inv, [Next]_vars PROVE Inv'
    OBVIOUS
  <2>1. ASSUME NEW m \in Machine, Begin(m)
        PROVE Inv'
    BY <2>1 DEF Begin, ThreadFree, Goto
  <2>2. ASSUME NEW m \in Machine, Fails(m)
        PROVE Inv'
    BY <2>2 DEF Fails, Throw
  <2>3. ASSUME NEW m \in Machine, CreateVm(m)
        PROVE Inv'
    BY <2>3 DEF CreateVm, Goto
  <2>4. ASSUME NEW m \in Machine, UnlinkName(m)
        PROVE Inv'
    BY <2>4 DEF UnlinkName, Goto
  <2>5. ASSUME NEW m \in Machine, Open(m)
        PROVE Inv'
    BY <2>5 DEF Open, Goto
  <2>6. ASSUME NEW m \in Machine, Resize(m)
        PROVE Inv'
    BY <2>6 DEF Resize, Goto
  <2>7. ASSUME NEW m \in Machine, ResizeOrMmapFails(m)
        PROVE Inv'
    BY <2>7 DEF ResizeOrMmapFails, Throw
  <2>8. ASSUME NEW m \in Machine, Mmap(m)
        PROVE Inv'
    BY <2>8 DEF Mmap, Goto
  <2>9. ASSUME NEW m \in Machine, MapGuest(m)
        PROVE Inv'
    BY <2>9 DEF MapGuest, Goto
  <2>10. ASSUME NEW m \in Machine, CreateGic(m)
        PROVE Inv'
    BY <2>10 DEF CreateGic, Goto
  <2>11. ASSUME NEW m \in Machine, CreateConsole(m)
        PROVE Inv'
    <3>1. ASSUME NEW k \in Machine, Home[k] = Home[m], "console" \in devs[k]
          PROVE FALSE
      <4>1. at[m] = "console" /\ hv[Home[m]] = m
        BY <2>11 DEF CreateConsole, Goto
      <4>2. k # m /\ at[k] \in {"built", "drop_net", "drop_console"} \cup WithConsole
        BY <3>1, <4>1
      <4>3. at[k] = "built"
        BY <3>1, <4>1, <4>2, ZenonT(40)
      <4> QED
        BY <3>1, <4>1, <4>2, <4>3
    <3>2. \A k \in Machine : Home[k] = Home[m] => at[k] # "crashed"
      BY <2>11 DEF CreateConsole, Goto
    <3>3. ~raw[Home[m]]
      BY <3>1, <3>2
    <3>4. TerminalKnown'
      BY <2>11, <3>3 DEF CreateConsole, Goto
    <3>5. Parts'
      BY <2>11 DEF CreateConsole, Goto
    <3>6. (Own /\ OneAtATime /\ DieTogether /\ VmKnown /\ GuestKnown
             /\ NameKnown)'
      BY <2>11 DEF CreateConsole, Goto
    <3> QED
      BY <3>4, <3>5, <3>6
  <2>12. ASSUME NEW m \in Machine, NEW d \in DOMAIN AfterDevice,
                CreateDevice(m, d)
        PROVE Inv'
    BY <2>12 DEF CreateDevice, Goto, AfterDevice
  <2>13. ASSUME NEW m \in Machine, LoadKernel(m)
        PROVE Inv'
    BY <2>13 DEF LoadKernel, Goto
  <2>14. ASSUME NEW m \in Machine, LoadInitrd(m)
        PROVE Inv'
    BY <2>14 DEF LoadInitrd, Goto
  <2>15. ASSUME NEW m \in Machine, GenerateDtb(m)
        PROVE Inv'
    BY <2>15 DEF GenerateDtb, Goto
  <2>16. ASSUME NEW m \in Machine, Destroy(m)
        PROVE Inv'
    BY <2>16 DEF Destroy, ThreadFree, Goto
  <2>17. ASSUME NEW m \in Machine, DropNet(m)
        PROVE Inv'
    BY <2>17 DEF DropNet, Goto
  <2>18. ASSUME NEW m \in Machine, DropConsole(m)
        PROVE Inv'
    BY <2>18 DEF DropConsole, Goto
  <2>19. ASSUME NEW m \in Machine, Release(m)
        PROVE Inv'
    <3> USE <2>19 DEF Release, Goto
    <3>1. (Own /\ OneAtATime /\ DieTogether)'
      OBVIOUS
    <3>2. ASSUME ram[m] # None, NEW k \in Machine, Home[k] = Home[m],
                 at[k] \in {"built"} \cup WithGuest
          PROVE FALSE
      <4>1. at[m] = "release" /\ k # m
        BY <3>2
      <4>2. hv[Home[m]] = k
        BY <3>2
      <4>3. hv[Home[m]] \in {None, m}
        BY <3>2, <4>1
      <4> QED
        BY <4>1, <4>2, <4>3
    <3>3. VmKnown'
      OBVIOUS
    <3>4. GuestKnown'
      <4>1. ASSUME NEW p \in Proc, guestRam'[p] # None
            PROVE guestRam'[p] = hv'[p] /\ ram'[guestRam'[p]] # None
        <5>1. CASE ram[m] = None
          BY <4>1, <5>1
        <5>2. CASE ram[m] # None
          <6>1. p # Home[m] /\ guestRam'[p] = guestRam[p] /\ hv' = hv
            BY <4>1, <5>2
          <6>2. guestRam[p] = hv[p] /\ hv[p] \in Machine /\ Home[hv[p]] = p
            BY <4>1, <6>1
          <6>3. guestRam[p] # m /\ ram[guestRam[p]] # None
            BY <4>1, <6>1, <6>2
          <6>4. ram'[guestRam[p]] = ram[guestRam[p]]
            BY <6>2, <6>3
          <6> QED
            BY <6>1, <6>2, <6>3, <6>4
        <5> QED
          BY <5>1, <5>2
      <4>2. ASSUME NEW k \in Machine, at'[k] \in {"built"} \cup WithGuest
            PROVE guestRam'[Home[k]] = k
        <5>1. k # m /\ at'[k] = at[k]
          BY <4>2
        <5> QED
          BY <3>2, <4>2, <5>1
      <4> QED
        BY <4>1, <4>2
    <3>5. (Parts /\ NameKnown)'
      OBVIOUS
    <3>6. TerminalKnown'
      <4>1. ASSUME NEW p \in Proc, raw'[p]
            PROVE \E k \in Machine :
                    Home[k] = p /\ ("console" \in devs'[k] \/ at'[k] = "crashed")
        <5>1. PICK k \in Machine :
                Home[k] = p /\ ("console" \in devs[k] \/ at[k] = "crashed")
          BY <4>1
        <5>2. "console" \in devs'[k] \/ at'[k] = "crashed"
          BY <5>1
        <5> QED
          BY <5>1, <5>2
      <4> QED
        BY <4>1
    <3> QED
      BY <3>1, <3>3, <3>4, <3>5, <3>6
  <2>20. ASSUME NEW p \in Proc, Crash(p)
        PROVE Inv'
    BY <2>20 DEF Crash
  <2>21. CASE UNCHANGED vars
    BY <2>21 DEF vars
  <2> QED
    BY <2>1, <2>2, <2>3, <2>4, <2>5, <2>6, <2>7, <2>8, <2>9, <2>10, <2>11, ZenonT(40),
       <2>12, <2>13, <2>14, <2>15, <2>16, <2>17, <2>18, <2>19, <2>20, <2>21
    DEF Next, Construct, Destruct
<1> QED
  BY <1>1, <1>2, MachineTypeCorrect, PTL DEF Spec

-----------------------------------------------------------------------------
(* No two machines, of any number of processes, share their RAM.           *)
THEOREM PrivateRam == Spec => []RamIsPrivate
<1>1. TypeOK /\ Inv => RamIsPrivate
  BY DEF TypeOK, Inv, Own, RamIsPrivate, Places, Building, Ending, Resting,
         NoRamYet, WithGuest, WithConsole
<1> QED
  BY <1>1, MachineTypeCorrect, InvHolds, PTL

(* Whatever other machines are built, fail or are destroyed, and whatever  *)
(* processes die, a machine that was built keeps its VM, RAM and threads.  *)
THEOREM WholeUntilDestroyed == Spec => []BuiltStaysWhole
<1>1. TypeOK /\ Inv => BuiltStaysWhole
  BY DEF TypeOK, Inv, Own, VmKnown, GuestKnown, Parts, BuiltStaysWhole
<1> QED
  BY <1>1, MachineTypeCorrect, InvHolds, PTL

(* Neither a VM nor a device thread ever outlives the RAM it uses.         *)
THEOREM Dangling == Spec => []NothingDangles
<1>1. TypeOK /\ Inv => NothingDangles
  BY DEF TypeOK, Inv, Own, VmKnown, GuestKnown, Parts, NothingDangles,
         Machines, WithConsole, WithGuest, Ending
<1> QED
  BY <1>1, MachineTypeCorrect, InvHolds, PTL

(* A machine that is gone has given everything back, however far its       *)
(* constructor had come, but for the VM of one that threw.                 *)
THEOREM GivenBack == Spec => []GoneLeavesNothing
<1>1. TypeOK /\ Inv => GoneLeavesNothing
  <2> SUFFICES ASSUME TypeOK, Inv PROVE GoneLeavesNothing
    OBVIOUS
  <2> USE DEF TypeOK, Inv, WithConsole, WithGuest, Ending
  <2>1. ASSUME NEW m \in Machine, at[m] = "gone"
        PROVE /\ ram[m] = None /\ name # m /\ threads[m] = {}
              /\ hv[Home[m]] = m => failed[m]
    <3>1. ram[m] = None
      BY <2>1 DEF Own
    <3>2. name # m
      BY <2>1 DEF NameKnown
    <3>3. threads[m] = {}
      BY <2>1 DEF Parts
    <3>4. hv[Home[m]] = m => failed[m]
      BY <2>1 DEF VmKnown
    <3> QED
      BY <3>1, <3>2, <3>3, <3>4
  <2>2. ASSUME NEW p \in Proc,
               \A m \in Machine : Home[m] = p => at[m] \in {"none", "gone"}
        PROVE ~raw[p]
    BY <2>2, SMTT(30) DEF TerminalKnown, Parts
  <2> QED
    BY <2>1, <2>2 DEF GoneLeavesNothing
<1> QED
  BY <1>1, MachineTypeCorrect, InvHolds, PTL
-----------------------------------------------------------------------------
(* The windows of the virtio devices lie one after another, apart from     *)
(* each other and from every other.                                        *)
LEMMA VirtioAlone ==
  ASSUME NEW d \in Virtio, NEW ipa \in Int, Inside(ipa, VirtioWindow(d))
  PROVE  /\ ~Inside(ipa, Uart) /\ ~Inside(ipa, Rtc)
         /\ ~Inside(ipa, GicDist) /\ ~Inside(ipa, GicRedist)
         /\ \A e \in Virtio : Inside(ipa, VirtioWindow(e)) => e = d
  BY DEF Inside, VirtioWindow, Window, VirtioBase, VirtioStride, Slot, Virtio,
         Uart, Rtc, GicDist, GicRedist

(* What an access in the window of a virtio device reaches.                *)
LEMMA VirtioReached ==
  ASSUME NEW d \in Virtio, NEW ipa \in Int, Inside(ipa, VirtioWindow(d)), NEW there
  PROVE  Target(ipa, there) = IF d \in there THEN d ELSE "zero"
<1>1. (CHOOSE e \in Virtio : Inside(ipa, VirtioWindow(e))) = d
  BY VirtioAlone
<1> QED
  BY <1>1, VirtioAlone DEF Target

(* The UART and the clock are reached in their windows.                    *)
LEMMA UartAndRtcReached ==
  ASSUME NEW ipa \in Int, NEW there
  PROVE  /\ Inside(ipa, Uart) => Target(ipa, there) = "uart"
         /\ Inside(ipa, Rtc)  => Target(ipa, there) = "rtc"
<1>1. \A d \in Virtio : ~(/\ Inside(ipa, VirtioWindow(d))
                          /\ Inside(ipa, Uart) \/ Inside(ipa, Rtc))
  BY VirtioAlone
<1>2. /\ ~(Inside(ipa, Uart) /\ Inside(ipa, Rtc))
      /\ Inside(ipa, Uart) \/ Inside(ipa, Rtc) =>
           ~Inside(ipa, GicDist) /\ ~Inside(ipa, GicRedist)
  BY DEF Inside, Window, Uart, Rtc, GicDist, GicRedist
<1> QED
  BY <1>1, <1>2 DEF Target

(* Whatever devices a machine has, its device tree, the dispatch of        *)
(* accesses and the numbering of interrupts agree.                         *)
LEMMA AgreeForAnyDevices ==
  ASSUME NEW ds \in SUBSET Virtio, "console" \in ds
  PROVE  LET N == Nodes(ds) IN
         /\ \A d \in ds : \E n \in N : n.dev = d /\ n.spi = Spi(d)
         /\ \A n \in N :
              \A ipa \in {n.window.base, n.window.base + n.window.size - 1} :
                Target(ipa, ds) =
                  IF n.dev \in ds \cup {"uart", "rtc"} THEN n.dev ELSE "zero"
         /\ \A n, o \in N : n # o => n.spi # o.spi
<1> DEFINE N == Nodes(ds)
           Has == {"console", "block", "net"}
                    \cup ({"gpu", "keyboard", "tablet"} \cap ds)
<1>1. ds \subseteq Has /\ Has \subseteq Virtio
  BY DEF Virtio
<1>2. N = {Node("uart", Uart, 1), Node("rtc", Rtc, 2)}
            \cup {Node(d, VirtioWindow(d), Spi(d)) : d \in Has}
  BY DEF Nodes
<1> HIDE DEF N, Has
<1>3. \A d \in ds : \E n \in N : n.dev = d /\ n.spi = Spi(d)
  <2>1. \A d \in ds : Node(d, VirtioWindow(d), Spi(d)) \in N
    BY <1>1, <1>2
  <2> QED
    BY <2>1 DEF Node
<1>4. ASSUME NEW n \in N,
             NEW ipa \in {n.window.base, n.window.base + n.window.size - 1}
      PROVE  Target(ipa, ds) =
               IF n.dev \in ds \cup {"uart", "rtc"} THEN n.dev ELSE "zero"
  <2>1. CASE n = Node("uart", Uart, 1)
    <3>1. ipa \in Int /\ Inside(ipa, Uart) /\ n.dev = "uart"
      BY <1>4, <2>1 DEF Node, Uart, Window, Inside
    <3> QED
      BY <3>1, UartAndRtcReached
  <2>2. CASE n = Node("rtc", Rtc, 2)
    <3>1. ipa \in Int /\ Inside(ipa, Rtc) /\ n.dev = "rtc"
      BY <1>4, <2>2 DEF Node, Rtc, Window, Inside
    <3> QED
      BY <3>1, UartAndRtcReached
  <2>3. ASSUME NEW d \in Has, n = Node(d, VirtioWindow(d), Spi(d))
        PROVE  Target(ipa, ds) =
                 IF n.dev \in ds \cup {"uart", "rtc"} THEN n.dev ELSE "zero"
    <3>1. d \in Virtio /\ d \notin {"uart", "rtc"}
      BY <1>1 DEF Virtio
    <3>2. ipa \in Int /\ Inside(ipa, VirtioWindow(d)) /\ n.dev = d
      BY <1>4, <2>3, <3>1 DEF Node, VirtioWindow, Window, Inside, VirtioBase,
         VirtioStride, Slot, Virtio
    <3> QED
      BY <3>1, <3>2, VirtioReached
  <2> QED
    BY <1>2, <2>1, <2>2, <2>3
<1>5. ASSUME NEW n \in N, NEW o \in N, n # o
      PROVE  n.spi # o.spi
  <2>1. \A d, e \in Has : Spi(d) \notin {1, 2} /\ (Spi(d) = Spi(e) => d = e)
    BY <1>1 DEF Spi, Virtio
  <2> QED
    BY <1>2, <1>5, <2>1 DEF Node
<1> QED
  BY <1>3, <1>4, <1>5 DEF N

(* So it holds of every machine that is built.                             *)
THEOREM NodesReached == Spec => []NodesAgree
<1>1. TypeOK /\ Inv => NodesAgree
  <2> SUFFICES ASSUME TypeOK, Inv, NEW m \in Machine, at[m] = "built"
               PROVE  LET N == Nodes(devs[m]) IN
                      /\ \A d \in devs[m] : \E n \in N : n.dev = d /\ n.spi = Spi(d)
                      /\ \A n \in N :
                           \A ipa \in {n.window.base,
                                       n.window.base + n.window.size - 1} :
                             Target(ipa, devs[m]) =
                               IF n.dev \in devs[m] \cup {"uart", "rtc"}
                                 THEN n.dev ELSE "zero"
                      /\ \A n, o \in N : n # o => n.spi # o.spi
    BY DEF NodesAgree
  <2>1. devs[m] \in SUBSET Virtio /\ "console" \in devs[m]
    BY DEF TypeOK, Inv, Parts
  <2> QED
    BY <2>1, AgreeForAnyDevices, Zenon
<1> QED
  BY <1>1, MachineTypeCorrect, InvHolds, PTL
=============================================================================
