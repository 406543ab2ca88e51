------------------------------ MODULE MCMachine ------------------------------
(* Two machines of one process, and one each of two others: a crash of one  *)
(* is followed by starts of the others.                                     *)
EXTENDS Machine

Machines4 == {"a1", "a2", "b1", "c1"}
Homes == [a1 |-> "a", a2 |-> "a", b1 |-> "b", c1 |-> "c"]

Sizes(ramMiB, kernel, initrd, dtb, devices) ==
  [ram |-> ramMiB, kernel |-> kernel, initrd |-> initrd, dtb |-> dtb,
   devices |-> devices]

\* Everything; an initrd that lies beyond the RAM; images at their limits; an
\* initrd that is too large.
Configs ==
  [a1 |-> Sizes(512, 124, 128, 4, {"block", "net", "gpu", "keyboard", "tablet"}),
   a2 |-> Sizes(128, 30, 20, 1, {"net"}),
   b1 |-> Sizes(172, 86, 43, 1, {"net", "gpu"}),
   c1 |-> Sizes(172, 30, 50, 1, {"block"})]
=============================================================================
