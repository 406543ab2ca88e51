------------------------------ MODULE Platform ------------------------------
(***************************************************************************)
(* The guest's view of the machine that the code fixes at compile time or  *)
(* derives from the configuration: the physical address map                *)
(* (vm_context.hpp, gic.hpp), which device an access reaches               *)
(* (exit_handler.cpp), which nodes the device tree has (dtb.cpp), and      *)
(* where kernel, initrd and device tree are put in RAM (loader.cpp).       *)
(*                                                                         *)
(* Device addresses are in bytes.  RAM is counted in MiB from its base.    *)
(***************************************************************************)
EXTENDS Integers

Virtio == {"console", "block", "net", "gpu", "keyboard", "tablet"}

VirtioBase   == 167772160    \* 0x0A000000
VirtioStride == 512

Slot == [console |-> 0, block |-> 1, net |-> 2,
         gpu |-> 3, keyboard |-> 4, tablet |-> 5]

\* Mutation: the interrupt is numbered by the slot.
SpiBySlot(d) == IF d \in {"keyboard", "tablet"}
                  THEN 16 + Slot[d]
                  ELSE CASE d = "console" -> 16 [] d = "block" -> 17
                         [] d = "net" -> 19     [] d = "gpu" -> 20

Spi(d) == CASE d = "console" -> 16 [] d = "block" -> 17
            [] d = "net" -> 19     [] d = "gpu" -> 20
            [] d = "keyboard" -> 21 [] d = "tablet" -> 22

Window(base, size) == [base |-> base, size |-> size]
Inside(ipa, w) == w.base <= ipa /\ ipa < w.base + w.size

Uart     == Window(150994944, 4096)          \* 0x09000000
Rtc      == Window(151060480, 4096)          \* 0x09010000
GicDist  == Window(134217728, 65536)         \* 0x08000000
GicRedist == Window(134873088, 8 * 131072)   \* 0x080A0000, kVcpuMax frames
VirtioWindow(d) == Window(VirtioBase + Slot[d] * VirtioStride, VirtioStride)

\* handle_mmio: what an access at ipa reaches, if the machine has `devs`.
\* The window of a virtio device that is not there reads zero.
Target(ipa, devs) ==
  CASE Inside(ipa, Uart) -> "uart"
    [] Inside(ipa, Rtc)  -> "rtc"
    [] \E d \in Virtio : Inside(ipa, VirtioWindow(d)) ->
         LET d == CHOOSE d \in Virtio : Inside(ipa, VirtioWindow(d))
         IN IF d \in devs THEN d ELSE "zero"
    [] Inside(ipa, GicDist) \/ Inside(ipa, GicRedist) -> "gic"
    [] OTHER -> "unhandled"

Node(d, w, spi) == [dev |-> d, window |-> w, spi |-> spi]

\* DTB::generate: console, block and net have a node whether or not the
\* machine has them.
Nodes(devs) ==
  {Node("uart", Uart, 1), Node("rtc", Rtc, 2)}
  \cup {Node(d, VirtioWindow(d), Spi(d)) :
          d \in {"console", "block", "net"}
                 \cup ({"gpu", "keyboard", "tablet"} \cap devs)}

-----------------------------------------------------------------------------
(* RAM. *)

DtbLoad    == 0
KernelLoad == 4
InitrdLoad == 128

\* gpa_to_hva looks at the first byte only.
Mapped(at, ram) == at < ram

\* load_kernel, load_initrd: the sizes they accept.
KernelFits(size, ram) == Mapped(KernelLoad, ram) /\ size \in 1 .. ram \div 2
InitrdFits(size, ram) == Mapped(InitrdLoad, ram) /\ size \in 1 .. ram \div 4
\* The blob has the room below the kernel.
DtbFits(size, ram) == Mapped(DtbLoad, ram) /\ size <= KernelLoad - DtbLoad
=============================================================================
