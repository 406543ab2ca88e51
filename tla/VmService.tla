------------------------------ MODULE VmService ------------------------------
(***************************************************************************)
(* What a VirtualMachine promises the program that owns it, without the    *)
(* threads and flags that keep the promise: hypervisor vCPUs come and go   *)
(* only while the machine runs, a run ends only when none is left, and the *)
(* machine is destroyed only when no run is in progress.                   *)
(***************************************************************************)
CONSTANT Cpu

VARIABLES phase, live

Init == phase = "idle" /\ live = {}

Launch == phase \in {"idle", "ended"} /\ phase' = "running" /\ UNCHANGED live

Enter(i) == phase = "running" /\ live' = live \cup {i} /\ UNCHANGED phase

Leave(i) == phase = "running" /\ live' = live \ {i} /\ UNCHANGED phase

End == phase = "running" /\ live = {} /\ phase' = "ended" /\ UNCHANGED live

Destroy ==
  phase \in {"idle", "ended"} /\ live = {} /\ phase' = "destroyed"
  /\ UNCHANGED live

Next ==
  \/ Launch \/ End \/ Destroy
  \/ \E i \in Cpu : Enter(i) \/ Leave(i)

Spec == Init /\ [][Next]_<<phase, live>>
=============================================================================
