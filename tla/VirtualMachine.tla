--------------------------- MODULE VirtualMachine ---------------------------
(***************************************************************************)
(* The life of one VirtualMachine object: the application's thread that    *)
(* builds, starts, waits for and destroys it, any thread (or the sample's  *)
(* signal handler) that calls stop(), the run thread start() creates, and  *)
(* one thread per vCPU with the PSCI calls its guest makes                 *)
(* (core/vm.cpp, backend/hvf/vcpu.cpp, firmware/arm64/psci.cpp).           *)
(*                                                                         *)
(* Threads interleave at every access to shared state: the flag running_,  *)
(* the three atomics of the CPU_ON handshake, thread creation and join.    *)
(* The atomics are sequentially consistent here; the code's orders give    *)
(* the same outcomes, because boot_pc and boot_x0 are published by the     *)
(* release store of boot_pending and running_ guards no other data.        *)
(***************************************************************************)
EXTENDS Integers

CONSTANTS
  NCpu,         \* VirtualMachineConfiguration::cpuCount
  MaxOn,        \* bound on the CPU_ON calls of all guests together
  MaxStarts,    \* bound on the calls of start()
  HvFails,      \* may a Hypervisor.framework call fail?
  MayOff,       \* does the guest ever call CPU_OFF?
  Disciplined   \* does the guest call CPU_ON only for a CPU it holds off?

ASSUME NCpuAssumption == NCpu \in Nat \ {0}
ASSUME BoundsAssumption == MaxOn \in Nat /\ MaxStarts \in Nat
ASSUME FlagsAssumption ==
  HvFails \in BOOLEAN /\ MayOff \in BOOLEAN /\ Disciplined \in BOOLEAN

Cpu == 0 .. NCpu - 1

(* The k-th CPU_ON call carries entry k and context k, so that a torn pair *)
(* is visible; 0 is the initial value of the atomics and registers.        *)
Request == 1 .. MaxOn
Value == {0} \cup Request

\* The value that marks the kernel entry point and the DTB's address.
Kernel == -1
KernelPair == [pc |-> Kernel, x0 |-> Kernel]

VARIABLES
  running,      \* VMContext::running_
  caller,       \* where the thread that owns the VirtualMachine is
  runner,       \* where run_thread is
  next,         \* the index of run_all's two loops over vcpus_
  vpc,          \* where each vCPU thread is
  bootPc, bootX0, bootPending,   \* VCpu::boot_pc, boot_x0, boot_pending
  regs,         \* the pair each vCPU thread passes to setup_regs
  call,         \* the CPU_ON call a vCPU thread is serving
  outcome,      \* what the completion handler was given
  (* History and environment state, read by no line of the code. *)
  guestOn,      \* the CPUs the guest believes on, or coming up
  issued,       \* the CPU_ON calls made for each CPU
  starts,       \* calls of start()
  stopAsked     \* stop() was called since the last start()

vmVars    == <<running, caller, runner, next, outcome>>
bootVars  == <<bootPc, bootX0, bootPending, regs, call>>
ghostVars == <<guestOn, issued, starts, stopAsked>>
vars == <<vmVars, vpc, bootVars, ghostVars>>

CallerStates == {"built", "started", "waiting", "stopped", "dtor", "destroyed"}
RunnerStates == {"none", "enter", "spawn", "poll", "join", "complete",
                 "finished"}
OnSteps == {"on_pc", "on_x0", "on_flag"}
\* A vCPU thread that is past the boot wait of thread_func.
Booted == {"setup", "loop", "guest"} \cup OnSteps
VcpuStates == {"unspawned", "create", "spin", "read_pc", "read_x0", "clear",
               "destroy", "exited"} \cup Booted

NoCall == [target |-> 0, req |-> 0]

Init ==
  /\ running = FALSE
  /\ caller = "built"
  /\ runner = "none"
  /\ next = 0
  /\ vpc = [i \in Cpu |-> "unspawned"]
  /\ bootPc = [i \in Cpu |-> 0]
  /\ bootX0 = [i \in Cpu |-> 0]
  /\ bootPending = [i \in Cpu |-> FALSE]
  /\ regs = [i \in Cpu |-> [pc |-> 0, x0 |-> 0]]
  /\ call = [i \in Cpu |-> NoCall]
  /\ outcome = "none"
  /\ guestOn = {0}
  /\ issued = [i \in Cpu |-> {}]
  /\ starts = 0
  /\ stopAsked = FALSE

-----------------------------------------------------------------------------
(* The application's thread. *)

\* start(): stores the handler, creates run_thread and returns.
Start ==
  /\ caller \in {"built", "stopped"}
  /\ starts < MaxStarts
  /\ caller' = "started"
  /\ runner' = "enter"
  /\ outcome' = "none"
  /\ starts' = starts + 1
  /\ stopAsked' = FALSE
  /\ UNCHANGED <<running, next, vpc, bootVars, guestOn, issued>>

\* stop(), from any thread while the object lives.
Stop ==
  /\ caller \in {"built", "started", "waiting", "stopped"}
  /\ running' = FALSE
  /\ stopAsked' = TRUE
  /\ UNCHANGED <<caller, runner, next, outcome, vpc, bootVars,
                 guestOn, issued, starts>>

\* waitUntilStopped() enters run_thread.join() ...
Wait ==
  /\ caller = "started"
  /\ caller' = "waiting"
  /\ UNCHANGED <<running, runner, next, outcome, vpc, bootVars, ghostVars>>

\* ... and returns once run_thread has ended.
WaitReturns ==
  /\ caller = "waiting"
  /\ runner = "finished"
  /\ caller' = "stopped"
  /\ UNCHANGED <<running, runner, next, outcome, vpc, bootVars, ghostVars>>

\* ~Impl with no joinable run_thread goes straight to hv_vm_destroy().
DestroyIdle ==
  /\ caller \in {"built", "stopped"}
  /\ caller' = "destroyed"
  /\ UNCHANGED <<running, runner, next, outcome, vpc, bootVars, ghostVars>>

\* Mutation: ~Impl destroys the hypervisor VM without joining run_thread.
DestroyRunningUnjoined ==
  /\ caller = "started"
  /\ caller' = "destroyed"
  /\ running' = FALSE
  /\ stopAsked' = TRUE
  /\ UNCHANGED <<runner, next, outcome, vpc, bootVars,
                 guestOn, issued, starts>>

\* ~Impl with a joinable run_thread stops the context first ...
DestroyRunning ==
  /\ caller = "started"
  /\ caller' = "dtor"
  /\ running' = FALSE
  /\ stopAsked' = TRUE
  /\ UNCHANGED <<runner, next, outcome, vpc, bootVars,
                 guestOn, issued, starts>>

\* ... and joins it before hv_vm_destroy().
DestroyJoins ==
  /\ caller = "dtor"
  /\ runner = "finished"
  /\ caller' = "destroyed"
  /\ UNCHANGED <<running, runner, next, outcome, vpc, bootVars, ghostVars>>

-----------------------------------------------------------------------------
(* run_thread: VMContext::run_all, then the completion handler. *)

RunEnter ==
  /\ runner = "enter"
  /\ running' = TRUE
  /\ runner' = "spawn"
  /\ next' = 0
  /\ guestOn' = {0}
  /\ UNCHANGED <<caller, outcome, vpc, bootVars, issued, starts, stopAsked>>

\* Mutation: the index runs past the last vCPU.
SpawnVcpuPastLast ==
  /\ runner = "spawn"
  /\ next \in Cpu
  /\ vpc' = [vpc EXCEPT ![next] = "create"]
  /\ next' = next + 1
  /\ UNCHANGED <<running, caller, runner, outcome, bootVars, ghostVars>>

SpawnVcpu ==
  /\ runner = "spawn"
  /\ vpc' = [vpc EXCEPT ![next] = "create"]
  /\ IF next + 1 = NCpu
       THEN runner' = "poll" /\ UNCHANGED next
       ELSE next' = next + 1 /\ UNCHANGED runner
  /\ UNCHANGED <<running, caller, outcome, bootVars, ghostVars>>

\* The poll loop looks at running_ every millisecond.
PollSeesStop ==
  /\ runner = "poll"
  /\ ~running
  /\ runner' = "join"
  /\ next' = 0
  /\ UNCHANGED <<running, caller, outcome, vpc, bootVars, ghostVars>>

\* Mutation: the threads are not joined.
JoinVcpuSkipped ==
  /\ runner = "join"
  /\ runner' = "complete"
  /\ running' = FALSE
  /\ UNCHANGED <<caller, next, outcome, vpc, bootVars, ghostVars>>

JoinVcpu ==
  /\ runner = "join"
  /\ vpc[next] = "exited"
  /\ IF next + 1 = NCpu
       THEN runner' = "complete" /\ running' = FALSE /\ UNCHANGED next
       ELSE next' = next + 1 /\ UNCHANGED <<runner, running>>
  /\ UNCHANGED <<caller, outcome, vpc, bootVars, ghostVars>>

\* The handler is always given std::error_code{}.
Complete ==
  /\ runner = "complete"
  /\ outcome' = "ok"
  /\ runner' = "finished"
  /\ UNCHANGED <<running, caller, next, vpc, bootVars, ghostVars>>

-----------------------------------------------------------------------------
(* A vCPU thread: VCpu::thread_func. *)

Goto(i, from, to) == vpc[i] = from /\ vpc' = [vpc EXCEPT ![i] = to]

\* hv_vcpu_create; the primary goes on to setup_regs, the others wait.
Create(i) ==
  /\ Goto(i, "create", IF i = 0 THEN "setup" ELSE "spin")
  /\ regs' = IF i = 0 THEN [regs EXCEPT ![i] = KernelPair] ELSE regs
  /\ UNCHANGED <<vmVars, bootPc, bootX0, bootPending, call, ghostVars>>

CreateFails(i) ==
  /\ HvFails
  /\ Goto(i, "create", "exited")
  /\ running' = FALSE
  /\ UNCHANGED <<caller, runner, next, outcome, bootVars, ghostVars>>

\* Mutation: the boot wait also ends when running_ is false, and boots.
SpinEndsOnStop(i) ==
  /\ bootPending[i] \/ ~running
  /\ Goto(i, "spin", "read_pc")
  /\ UNCHANGED <<vmVars, bootVars, ghostVars>>

\* The boot wait looks at boot_pending only, never at running_.
SpinEnds(i) ==
  /\ bootPending[i]
  /\ Goto(i, "spin", "read_pc")
  /\ UNCHANGED <<vmVars, bootVars, ghostVars>>

ReadPc(i) ==
  /\ Goto(i, "read_pc", "read_x0")
  /\ regs' = [regs EXCEPT ![i].pc = bootPc[i]]
  /\ UNCHANGED <<vmVars, bootPc, bootX0, bootPending, call, ghostVars>>

ReadX0(i) ==
  /\ Goto(i, "read_x0", "clear")
  /\ regs' = [regs EXCEPT ![i].x0 = bootX0[i]]
  /\ UNCHANGED <<vmVars, bootPc, bootX0, bootPending, call, ghostVars>>

\* Mutation: boot_pending is left set.
ClearPendingForgotten(i) ==
  /\ Goto(i, "clear", "setup")
  /\ UNCHANGED <<vmVars, bootVars, ghostVars>>

ClearPending(i) ==
  /\ Goto(i, "clear", "setup")
  /\ bootPending' = [bootPending EXCEPT ![i] = FALSE]
  /\ UNCHANGED <<vmVars, bootPc, bootX0, regs, call, ghostVars>>

Setup(i) ==
  /\ Goto(i, "setup", "loop")
  /\ UNCHANGED <<vmVars, bootVars, ghostVars>>

SetupFails(i) ==
  /\ HvFails
  /\ Goto(i, "setup", "destroy")
  /\ running' = FALSE
  /\ UNCHANGED <<caller, runner, next, outcome, bootVars, ghostVars>>

\* Mutation: the run loop never looks at running_.
LoopForever(i) ==
  /\ Goto(i, "loop", "guest")
  /\ UNCHANGED <<vmVars, bootVars, ghostVars>>

LoopChecks(i) ==
  /\ Goto(i, "loop", IF running THEN "guest" ELSE "destroy")
  /\ UNCHANGED <<vmVars, bootVars, ghostVars>>

\* An exit the handler serves without touching this module's state: MMIO,
\* WFI, a timer, VERSION, CPU_SUSPEND, CPU_ON of an invalid target, ...
ExitServed(i) ==
  /\ Goto(i, "guest", "loop")
  /\ UNCHANGED <<vmVars, bootVars, ghostVars>>

\* hv_vcpu_run fails, or the exit reason is unknown: the loop is left, and
\* running_ stays as it is.
RunFails(i) ==
  /\ HvFails
  /\ Goto(i, "guest", "destroy")
  /\ UNCHANGED <<vmVars, bootVars, ghostVars>>

DestroyVcpu(i) ==
  /\ Goto(i, "destroy", "exited")
  /\ UNCHANGED <<vmVars, bootVars, ghostVars>>

-----------------------------------------------------------------------------
(* The PSCI calls of psci_dispatch that change state. *)

CpuOff(i) ==
  /\ MayOff
  /\ Goto(i, "guest", "destroy")
  /\ guestOn' = guestOn \ {i}
  /\ UNCHANGED <<vmVars, bootVars, issued, starts, stopAsked>>

\* SYSTEM_OFF and SYSTEM_RESET.
SystemOff(i) ==
  /\ Goto(i, "guest", "destroy")
  /\ running' = FALSE
  /\ UNCHANGED <<caller, runner, next, outcome, bootVars, ghostVars>>

Calls == Request \ UNION {issued[t] : t \in Cpu}

\* CPU_ON of a valid target: three stores, then SUCCESS, whatever the
\* target's state is.
CpuOn(i) ==
  \E t \in Cpu, r \in Calls :
    /\ \A q \in Calls : r <= q
    /\ Disciplined => t \notin guestOn
    /\ Goto(i, "guest", "on_pc")
    /\ call' = [call EXCEPT ![i] = [target |-> t, req |-> r]]
    /\ guestOn' = guestOn \cup {t}
    /\ issued' = [issued EXCEPT ![t] = @ \cup {r}]
    /\ UNCHANGED <<vmVars, bootPc, bootX0, bootPending, regs, starts,
                   stopAsked>>

\* Mutation: boot_pending is stored before boot_x0.
StorePcAndFlag(i) ==
  /\ Goto(i, "on_pc", "on_x0")
  /\ bootPc' = [bootPc EXCEPT ![call[i].target] = call[i].req]
  /\ bootPending' = [bootPending EXCEPT ![call[i].target] = TRUE]
  /\ UNCHANGED <<vmVars, bootX0, regs, call, ghostVars>>

StorePc(i) ==
  /\ Goto(i, "on_pc", "on_x0")
  /\ bootPc' = [bootPc EXCEPT ![call[i].target] = call[i].req]
  /\ UNCHANGED <<vmVars, bootX0, bootPending, regs, call, ghostVars>>

StoreX0(i) ==
  /\ Goto(i, "on_x0", "on_flag")
  /\ bootX0' = [bootX0 EXCEPT ![call[i].target] = call[i].req]
  /\ UNCHANGED <<vmVars, bootPc, bootPending, regs, call, ghostVars>>

SetPending(i) ==
  /\ Goto(i, "on_flag", "loop")
  /\ bootPending' = [bootPending EXCEPT ![call[i].target] = TRUE]
  /\ call' = [call EXCEPT ![i] = NoCall]
  /\ UNCHANGED <<vmVars, bootPc, bootX0, regs, ghostVars>>

-----------------------------------------------------------------------------
(* The process may go on after the object is gone. *)
Terminated == caller = "destroyed" /\ UNCHANGED vars

Application ==
  \/ Start \/ Stop \/ Wait \/ WaitReturns
  \/ DestroyIdle \/ DestroyRunning \/ DestroyJoins

RunThread == RunEnter \/ SpawnVcpu \/ PollSeesStop \/ JoinVcpu \/ Complete

\* What thread_func does between two entries into the guest.
Host(i) ==
  \/ Create(i) \/ CreateFails(i) \/ SpinEnds(i) \/ ReadPc(i) \/ ReadX0(i)
  \/ ClearPending(i) \/ Setup(i) \/ SetupFails(i) \/ LoopChecks(i)
  \/ DestroyVcpu(i) \/ StorePc(i) \/ StoreX0(i) \/ SetPending(i)

\* How hv_vcpu_run may return.
Guest(i) ==
  \/ ExitServed(i) \/ RunFails(i) \/ CpuOff(i) \/ SystemOff(i) \/ CpuOn(i)

Next ==
  \/ Application
  \/ RunThread
  \/ \E i \in Cpu : Host(i) \/ Guest(i)
  \/ Terminated

Spec == Init /\ [][Next]_vars

(***************************************************************************)
(* The scheduler runs every ready thread, a join wakes when its thread     *)
(* ended, and hv_vcpu_run returns after some time (the guest's timer; the  *)
(* code never calls hv_vcpus_exit).  The application promises nothing: it  *)
(* need not start, stop, wait for or destroy the machine.                  *)
(***************************************************************************)
Fairness ==
  /\ WF_vars(WaitReturns)
  /\ WF_vars(DestroyJoins)
  /\ WF_vars(RunThread)
  /\ \A i \in Cpu : WF_vars(Host(i)) /\ WF_vars(Guest(i))

FairSpec == Spec /\ Fairness

-----------------------------------------------------------------------------
VmTypes ==
  /\ running \in BOOLEAN
  /\ caller \in CallerStates
  /\ runner \in RunnerStates
  /\ next \in Cpu
  /\ vpc \in [Cpu -> VcpuStates]
  /\ outcome \in {"none", "ok"}

BootTypes ==
  /\ bootPc \in [Cpu -> Value]
  /\ bootX0 \in [Cpu -> Value]
  /\ bootPending \in [Cpu -> BOOLEAN]
  /\ regs \in [Cpu -> [pc : Value \cup {Kernel}, x0 : Value \cup {Kernel}]]
  /\ call \in [Cpu -> [target : Cpu, req : Value]]

GhostTypes ==
  /\ guestOn \subseteq Cpu
  /\ issued \in [Cpu -> SUBSET Request]
  /\ starts \in 0 .. MaxStarts
  /\ stopAsked \in BOOLEAN

(* Every variable has its type. *)
TypeOK == VmTypes /\ BootTypes /\ GhostTypes

Quiet == \A i \in Cpu : vpc[i] \in {"unspawned", "exited"}

(* Once the application is told the machine ended, by the completion       *)
(* handler, by waitUntilStopped() or by the destructor reaching            *)
(* hv_vm_destroy(), no vCPU thread is left that could run the guest or     *)
(* hold a hypervisor vCPU.                                                 *)
EndedMeansQuiet ==
  (runner \in {"none", "complete", "finished"}
     \/ caller \in {"stopped", "destroyed"}) => Quiet

(* A secondary enters the guest with the entry point and the context of    *)
(* one CPU_ON call made for it, never with halves of two calls or with the *)
(* initial zeros (the boot_pc / boot_x0 / boot_pending handshake).         *)
BootPairMatches ==
  \A i \in Cpu \ {0} : vpc[i] \in Booted =>
    /\ regs[i].pc = regs[i].x0
    /\ regs[i].pc \in issued[i]

(* A secondary runs guest code only if the guest that is booted now asked  *)
(* for it with CPU_ON (thread_func: "spin until PSCI CPU_ON").             *)
BootNeedsCpuOn == \A i \in Cpu : vpc[i] \in Booted => i \in guestOn

(* A stop that run_all's loop can see is never undone: from the spawn loop *)
(* on, running_ does not become true again before the run has ended.       *)
StopSticks == [][runner # "enter" /\ ~running => ~running']_vars

AllBooted == \A i \in Cpu : vpc[i] \in Booted \cup {"destroy", "exited"}

(* With every vCPU past its boot wait, a stop that reached the run loop    *)
(* ends the run: all threads leave and the completion handler is called.   *)
StopEnds ==
  (runner \in {"poll", "join"} /\ ~running /\ AllBooted) ~> runner = "finished"

(* A CPU_ON made for a CPU whose thread is still to take it reaches it:     *)
(* the flag is consumed, unless the thread leaves on a failure first.       *)
CpuOnReachesThread ==
  \A i \in Cpu :
    bootPending[i] ~> (~bootPending[i] \/ vpc[i] \in {"destroy", "exited"})

(* stop() ends a started machine (virtualization.hpp: "Requests an         *)
(* immediate stop").                                                       *)
StopHonoured == (stopAsked /\ runner # "none") ~> runner = "finished"

(* After SYSTEM_OFF or a seen stop the run thread ends, and with it        *)
(* waitUntilStopped().                                                     *)
ShutdownEnds == (runner = "join") ~> runner = "finished"

-----------------------------------------------------------------------------
(* What the object promises its user, as VmService states it. *)
Live == {i \in Cpu : vpc[i] \notin {"unspawned", "create", "exited"}}
Phase ==
  IF caller = "destroyed" THEN "destroyed"
  ELSE IF runner = "none" THEN "idle"
  ELSE IF runner = "finished" THEN "ended"
  ELSE "running"

Service == INSTANCE VmService WITH Cpu <- Cpu, phase <- Phase, live <- Live
ImplementsService == Service!Spec
=============================================================================
