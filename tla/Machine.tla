------------------------------- MODULE Machine -------------------------------
(***************************************************************************)
(* How machines are built and torn down (vm.cpp: the constructor of Impl,  *)
(* ~Impl, ~VMContext; memory.cpp; loader.cpp; dtb.cpp), by several         *)
(* processes of one host.  What they share is one name for shared memory,  *)
(* "/virtualization-ram"; what the machines of one process share is the    *)
(* hypervisor's VM, of which a process has at most one, and the terminal.  *)
(* Every step of a constructor may fail, and a process may die anywhere.   *)
(*                                                                         *)
(* A machine stands for one call of the constructor; its shared-memory     *)
(* object, if it creates one, is named after it.  The application of each  *)
(* process builds and destroys its machines from one thread.  The run of a *)
(* machine that is built is the subject of VirtualMachine: here its vCPU   *)
(* threads have been joined when ~Impl goes on.                            *)
(***************************************************************************)
EXTENDS Platform, FiniteSets

CONSTANTS
  Proc, Machine, None,
  Home,      \* the process of each machine
  Config     \* the configuration of each machine

ASSUME MachineAssumption ==
  /\ None \notin Machine
  /\ Home \in [Machine -> Proc]
ASSUME ConfigAssumption ==
  Config \in [Machine -> [ram : Nat, kernel : Nat, initrd : Nat, dtb : Nat,
                          devices : SUBSET (Virtio \ {"console"})]]

VARIABLES
  name,      \* the object the shared-memory name stands for
  (* each process *)
  hv,        \* the machine that created its VM
  guestRam,  \* the machine whose RAM is mapped in that VM
  raw,       \* is its terminal in raw mode?
  (* each machine *)
  at,        \* where its constructor or destructor is
  fd, ram,   \* the object it has open, and the one it has mapped
  devs, threads,
  saved,     \* saved_termios_
  image,     \* sizes of what has been loaded
  failed     \* has the constructor thrown?

host == <<name, hv, guestRam, raw>>
own  == <<fd, ram, devs, threads, saved, image, failed>>
vars == <<host, at, own>>

\* The order of the constructor's optional devices.
AfterDevice == [block |-> "net", net |-> "keyboard", keyboard |-> "tablet",
                tablet |-> "gpu", gpu |-> "kernel"]

\* Where a constructor, before its next call, has no RAM, has mapped it, has
\* mapped it in the VM, and has a console.
NoRamYet    == {"unlink", "open", "size", "mmap"}
WithConsole == {"block", "net", "keyboard", "tablet", "gpu",
                "kernel", "initrd", "dtb"}
WithGuest   == {"gic", "console"} \cup WithConsole
Building    == {"vm", "map"} \cup NoRamYet \cup WithGuest
Ending      == {"drop_net", "drop_console", "release"}
Resting     == {"none", "built", "gone", "crashed"}

Blank == [kernel |-> 0, initrd |-> 0, dtb |-> 0]

Init ==
  /\ name = None
  /\ hv = [p \in Proc |-> None] /\ guestRam = [p \in Proc |-> None]
  /\ raw = [p \in Proc |-> FALSE]
  /\ at = [m \in Machine |-> "none"]
  /\ fd = [m \in Machine |-> None] /\ ram = [m \in Machine |-> None]
  /\ devs = [m \in Machine |-> {}] /\ threads = [m \in Machine |-> {}]
  /\ saved = [m \in Machine |-> FALSE]
  /\ image = [m \in Machine |-> Blank]
  /\ failed = [m \in Machine |-> FALSE]

Goto(m, from, to) == at[m] = from /\ at' = [at EXCEPT ![m] = to]

\* The constructor throws, and what it has built of VMContext is destroyed.
Throw(m) ==
  /\ at' = [at EXCEPT ![m] = "drop_net"]
  /\ failed' = [failed EXCEPT ![m] = TRUE]

\* The application's thread is in no other machine's constructor or destructor.
ThreadFree(m) == \A k \in Machine : Home[k] = Home[m] => at[k] \in Resting

-----------------------------------------------------------------------------
(* The constructor. *)

Begin(m) ==
  /\ ThreadFree(m)
  /\ Goto(m, "none", "vm")
  /\ UNCHANGED <<host, own>>

\* Any of these calls may fail by itself; hv_vm_create fails if the process
\* has a VM, shm_open if the name is taken, and the loaders and the device
\* tree if something does not fit.
Fails(m) ==
  /\ at[m] \in {"vm", "open", "map", "gic", "kernel", "initrd", "dtb"}
  /\ Throw(m)
  /\ UNCHANGED <<host, fd, ram, devs, threads, saved, image>>

\* Mutation: that the process has a VM already is not looked at.
CreateVmAgain(m) ==
  /\ Goto(m, "vm", "unlink")
  /\ hv' = [hv EXCEPT ![Home[m]] = m]
  /\ UNCHANGED <<name, guestRam, raw, own>>

CreateVm(m) ==
  /\ hv[Home[m]] = None
  /\ Goto(m, "vm", "unlink")
  /\ hv' = [hv EXCEPT ![Home[m]] = m]
  /\ UNCHANGED <<name, guestRam, raw, own>>

(* Memory::init. *)

UnlinkName(m) ==
  /\ Goto(m, "unlink", "open")
  /\ name' = None
  /\ UNCHANGED <<hv, guestRam, raw, own>>

\* Mutation: without O_EXCL.
OpenExisting(m) ==
  /\ Goto(m, "open", "size")
  /\ name' = IF name = None THEN m ELSE name
  /\ fd' = [fd EXCEPT ![m] = name']
  /\ UNCHANGED <<hv, guestRam, raw, ram, devs, threads, saved, image, failed>>

\* shm_open(O_CREAT | O_EXCL).
Open(m) ==
  /\ name = None
  /\ Goto(m, "open", "size")
  /\ name' = m
  /\ fd' = [fd EXCEPT ![m] = m]
  /\ UNCHANGED <<hv, guestRam, raw, ram, devs, threads, saved, image, failed>>

Resize(m) ==
  /\ Goto(m, "size", "mmap")
  /\ UNCHANGED <<host, own>>

\* Mutation: the name is left behind.
ResizeOrMmapFailsNamed(m) ==
  /\ at[m] \in {"size", "mmap"}
  /\ Throw(m)
  /\ fd' = [fd EXCEPT ![m] = None]
  /\ UNCHANGED <<host, ram, devs, threads, saved, image>>

\* ftruncate or mmap fails.
ResizeOrMmapFails(m) ==
  /\ at[m] \in {"size", "mmap"}
  /\ Throw(m)
  /\ fd' = [fd EXCEPT ![m] = None]
  /\ name' = None
  /\ UNCHANGED <<hv, guestRam, raw, ram, devs, threads, saved, image>>

\* Mutation: the descriptor stays open.
MmapNotClosed(m) ==
  /\ Goto(m, "mmap", "map")
  /\ ram' = [ram EXCEPT ![m] = fd[m]]
  /\ UNCHANGED <<host, fd, devs, threads, saved, image, failed>>

\* mmap, close and set_ram.
Mmap(m) ==
  /\ Goto(m, "mmap", "map")
  /\ ram' = [ram EXCEPT ![m] = fd[m]]
  /\ fd' = [fd EXCEPT ![m] = None]
  /\ UNCHANGED <<host, devs, threads, saved, image, failed>>

MapGuest(m) ==
  /\ Goto(m, "map", "gic")
  /\ guestRam' = [guestRam EXCEPT ![Home[m]] = m]
  /\ UNCHANGED <<name, hv, raw, own>>

CreateGic(m) ==
  /\ Goto(m, "gic", "console")
  /\ UNCHANGED <<host, own>>

(* The devices. *)

\* Every machine has a console; its thread starts here, and the terminal is
\* put in raw mode.
CreateConsole(m) ==
  /\ Goto(m, "console", "block")
  /\ devs' = [devs EXCEPT ![m] = @ \cup {"console"}]
  /\ threads' = [threads EXCEPT ![m] = @ \cup {"rx"}]
  /\ saved' = [saved EXCEPT ![m] = raw[Home[m]]]
  /\ raw' = [raw EXCEPT ![Home[m]] = TRUE]
  /\ UNCHANGED <<name, hv, guestRam, fd, ram, image, failed>>

\* The others as configured; the network's flush thread starts here.
CreateDevice(m, d) ==
  /\ Goto(m, d, AfterDevice[d])
  /\ LET made == {d} \cap Config[m].devices IN
       /\ devs' = [devs EXCEPT ![m] = @ \cup made]
       /\ threads' = [threads EXCEPT
                        ![m] = IF "net" \in made THEN @ \cup {"flush"} ELSE @]
  /\ UNCHANGED <<host, fd, ram, saved, image, failed>>

(* The images. *)

LoadKernel(m) ==
  /\ KernelFits(Config[m].kernel, Config[m].ram)
  /\ Goto(m, "kernel", "initrd")
  /\ image' = [image EXCEPT ![m].kernel = Config[m].kernel]
  /\ UNCHANGED <<host, fd, ram, devs, threads, saved, failed>>

\* The initrd is optional: size 0 stands for none configured.  An accepted
\* one may reach beyond the RAM: fread then writes to whatever is mapped there,
\* or fails (Fails), or the process dies (Crash).
LoadInitrd(m) ==
  /\ Config[m].initrd = 0 \/ InitrdFits(Config[m].initrd, Config[m].ram)
  /\ Goto(m, "initrd", "dtb")
  /\ image' = [image EXCEPT ![m].initrd = Config[m].initrd]
  /\ UNCHANGED <<host, fd, ram, devs, threads, saved, failed>>

GenerateDtb(m) ==
  /\ DtbFits(Config[m].dtb, Config[m].ram)
  /\ Goto(m, "dtb", "built")
  /\ image' = [image EXCEPT ![m].dtb = Config[m].dtb]
  /\ UNCHANGED <<host, fd, ram, devs, threads, saved, failed>>

-----------------------------------------------------------------------------
(* The destructors. *)

\* ~Impl: hv_vm_destroy, whatever VM the process has.
Destroy(m) ==
  /\ ThreadFree(m)
  /\ Goto(m, "built", "drop_net")
  /\ hv' = [hv EXCEPT ![Home[m]] = None]
  /\ guestRam' = [guestRam EXCEPT ![Home[m]] = None]
  /\ UNCHANGED <<name, raw, own>>

(* ~VMContext. *)

\* ~Net joins the flush thread; the devices without threads go too.
DropNet(m) ==
  /\ Goto(m, "drop_net", "drop_console")
  /\ threads' = [threads EXCEPT ![m] = @ \ {"flush"}]
  /\ devs' = [devs EXCEPT ![m] = @ \cap {"console"}]
  /\ UNCHANGED <<host, fd, ram, saved, image, failed>>

\* Mutation: the thread is not joined.
DropConsoleDetached(m) ==
  /\ Goto(m, "drop_console", "release")
  /\ devs' = [devs EXCEPT ![m] = {}]
  /\ raw' = IF "console" \in devs[m]
              THEN [raw EXCEPT ![Home[m]] = saved[m]] ELSE raw
  /\ UNCHANGED <<name, hv, guestRam, fd, ram, threads, saved, image, failed>>

\* ~Console joins the RX thread and restores the terminal.
DropConsole(m) ==
  /\ Goto(m, "drop_console", "release")
  /\ threads' = [threads EXCEPT ![m] = @ \ {"rx"}]
  /\ devs' = [devs EXCEPT ![m] = {}]
  /\ raw' = IF "console" \in devs[m]
              THEN [raw EXCEPT ![Home[m]] = saved[m]] ELSE raw
  /\ UNCHANGED <<name, hv, guestRam, fd, ram, saved, image, failed>>

\* Mutation: the VM keeps the mapping.
ReleaseStillMapped(m) ==
  /\ Goto(m, "release", "gone")
  /\ IF ram[m] = None
       THEN UNCHANGED <<name, ram>>
       ELSE ram' = [ram EXCEPT ![m] = None] /\ name' = None
  /\ UNCHANGED <<hv, guestRam, raw, fd, devs, threads, saved, image, failed>>

\* With RAM: hv_vm_unmap, which acts on the VM the process has now, if any;
\* munmap; and shm_unlink of the name.
Release(m) ==
  /\ Goto(m, "release", "gone")
  /\ IF ram[m] = None
       THEN UNCHANGED <<name, guestRam, ram>>
       ELSE /\ guestRam' = [guestRam EXCEPT ![Home[m]] = None]
            /\ ram' = [ram EXCEPT ![m] = None]
            /\ name' = None
  /\ UNCHANGED <<hv, raw, fd, devs, threads, saved, image, failed>>

-----------------------------------------------------------------------------
\* A process dies: its memory, threads and VM go, the name stays, and so does
\* the mode of the terminal.
Crash(p) ==
  LET Of(f, none) == [m \in Machine |-> IF Home[m] = p THEN none ELSE f[m]]
  IN /\ \E m \in Machine : Home[m] = p /\ at[m] \notin {"none", "gone", "crashed"}
     /\ at' = Of(at, "crashed")
     /\ fd' = Of(fd, None) /\ ram' = Of(ram, None)
     /\ devs' = Of(devs, {}) /\ threads' = Of(threads, {})
     /\ image' = Of(image, Blank)
     /\ hv' = [hv EXCEPT ![p] = None]
     /\ guestRam' = [guestRam EXCEPT ![p] = None]
     /\ UNCHANGED <<name, raw, saved, failed>>

Construct(m) ==
  \/ Begin(m) \/ Fails(m) \/ CreateVm(m)
  \/ UnlinkName(m) \/ Open(m) \/ Resize(m) \/ ResizeOrMmapFails(m) \/ Mmap(m)
  \/ MapGuest(m) \/ CreateGic(m)
  \/ CreateConsole(m) \/ \E d \in DOMAIN AfterDevice : CreateDevice(m, d)
  \/ LoadKernel(m) \/ LoadInitrd(m) \/ GenerateDtb(m)
Destruct(m) == Destroy(m) \/ DropNet(m) \/ DropConsole(m) \/ Release(m)

Next == \/ \E m \in Machine : Construct(m) \/ Destruct(m)
        \/ \E p \in Proc : Crash(p)

Spec == Init /\ [][Next]_vars

-----------------------------------------------------------------------------
Machines == Machine \cup {None}
Places == Building \cup Ending \cup Resting

(* Types; the shared memory is open only until it is mapped.               *)
TypeOK ==
  /\ name \in Machines
  /\ hv \in [Proc -> Machines] /\ guestRam \in [Proc -> Machines]
  /\ raw \in [Proc -> BOOLEAN]
  /\ at \in [Machine -> Places]
  /\ fd \in [Machine -> Machines] /\ ram \in [Machine -> Machines]
  /\ devs \in [Machine -> SUBSET Virtio]
  /\ threads \in [Machine -> SUBSET {"rx", "flush"}]
  /\ saved \in [Machine -> BOOLEAN] /\ failed \in [Machine -> BOOLEAN]
  /\ image \in [Machine -> [kernel : Nat, initrd : Nat, dtb : Nat]]
  /\ \A m \in Machine : fd[m] # None <=> at[m] \in {"size", "mmap"}

(* No two machines of the host have the same memory as RAM, though all     *)
(* create theirs under one name and remove each other's.                   *)
RamIsPrivate ==
  \A m, k \in Machine : m # k /\ ram[m] # None => ram[m] # ram[k]

(* A machine that has been built stays whole: it has the process's VM, its *)
(* RAM and no other is mapped there, and its threads run; whatever other   *)
(* machines try to do, of this process or another.                         *)
BuiltStaysWhole ==
  \A m \in Machine : at[m] = "built" =>
    /\ hv[Home[m]] = m /\ guestRam[Home[m]] = m /\ ram[m] = m
    /\ "rx" \in threads[m] /\ ("flush" \in threads[m] <=> "net" \in devs[m])

(* The VM maps only memory that is still mapped in the process, and a      *)
(* device thread, which writes to RAM and raises interrupts, runs only     *)
(* with its machine's RAM and never beside another machine's VM.           *)
NothingDangles ==
  /\ \A p \in Proc : guestRam[p] # None => ram[guestRam[p]] # None
  /\ \A m \in Machine : threads[m] # {} =>
       ram[m] # None /\ hv[Home[m]] \in {None, m}

(* A machine that is gone, destroyed or given up half way, leaves nothing  *)
(* behind: no memory, no name, no thread, and a terminal as it was.  The   *)
(* one exception is the VM of a constructor that threw.                    *)
GoneLeavesNothing ==
  /\ \A m \in Machine : at[m] = "gone" =>
       /\ ram[m] = None /\ name # m /\ threads[m] = {}
       /\ hv[Home[m]] = m => failed[m]
  /\ \A p \in Proc :
       (\A m \in Machine : Home[m] = p => at[m] \in {"none", "gone"}) => ~raw[p]

(* A driver finds the device of each node where the node says, and the     *)
(* device's interrupt is that node's and nobody else's; a node without a   *)
(* device reads zero, and a device without a node there is none.           *)
NodesAgree ==
  \A m \in Machine : at[m] = "built" =>
    LET N == Nodes(devs[m]) IN
    /\ \A d \in devs[m] : \E n \in N : n.dev = d /\ n.spi = Spi(d)
    /\ \A n \in N :
         \A ipa \in {n.window.base, n.window.base + n.window.size - 1} :
           Target(ipa, devs[m]) =
             IF n.dev \in devs[m] \cup {"uart", "rtc"} THEN n.dev ELSE "zero"
    /\ \A n, o \in N : n # o => n.spi # o.spi
=============================================================================
