------------------------ MODULE VirtualMachine_proofs ------------------------
(***************************************************************************)
(* What VirtualMachine's runs check on a few vCPUs, proved for every       *)
(* number of vCPUs, requests and starts.                                   *)
(***************************************************************************)
EXTENDS VirtualMachine, TLAPS

USE NCpuAssumption, BoundsAssumption, FlagsAssumption

LEMMA ZeroIsCpu == 0 \in Cpu
  BY DEF Cpu

(* The three kinds of variables change independently of each other.        *)
LEMMA VmTypesKept == TypeOK /\ [Next]_vars => VmTypes'
<1> SUFFICES ASSUME VmTypes, [Next]_vars PROVE VmTypes'
  BY DEF TypeOK
<1> USE DEF VmTypes, vmVars
<1>1. CASE Application
  BY <1>1 DEF Application, Start, Stop, Wait, WaitReturns, DestroyIdle,
              DestroyRunning, DestroyJoins, CallerStates, RunnerStates
<1>2. CASE RunThread
  <2> USE DEF RunnerStates
  <2>1. CASE RunEnter \/ PollSeesStop \/ Complete
    BY <2>1, ZeroIsCpu DEF RunEnter, PollSeesStop, Complete
  <2>2. CASE SpawnVcpu
    BY <2>2, ZeroIsCpu DEF SpawnVcpu, VcpuStates, Cpu
  <2>3. CASE JoinVcpu
    <3>1. running' \in BOOLEAN /\ runner' \in RunnerStates
      BY <2>3, Zenon DEF JoinVcpu
    <3>2. next' \in Cpu
      BY <2>3 DEF JoinVcpu, Cpu
    <3> QED
      BY <2>3, <3>1, <3>2 DEF JoinVcpu
  <2> QED
    BY <1>2, <2>1, <2>2, <2>3 DEF RunThread
<1>3. ASSUME NEW i \in Cpu, Host(i) PROVE VmTypes'
  BY <1>3 DEF Host, Create, CreateFails, SpinEnds, ReadPc, ReadX0,
              ClearPending, Setup, SetupFails, LoopChecks, DestroyVcpu,
              StorePc, StoreX0, SetPending, Goto, VcpuStates, Booted, OnSteps
<1>4. ASSUME NEW i \in Cpu, Guest(i) PROVE VmTypes'
  BY <1>4 DEF Guest, ExitServed, RunFails, CpuOff, SystemOff, CpuOn, Goto,
              VcpuStates, Booted, OnSteps
<1>5. CASE UNCHANGED vars
  BY <1>5 DEF vars
<1> QED
  BY <1>1, <1>2, <1>3, <1>4, <1>5 DEF Next, Terminated

LEMMA BootTypesKept == TypeOK /\ [Next]_vars => BootTypes'
<1> SUFFICES ASSUME BootTypes, [Next]_vars PROVE BootTypes'
  BY DEF TypeOK
<1> USE DEF BootTypes
<1>1. CASE UNCHANGED bootVars
  BY <1>1 DEF bootVars
<1>2. CASE Application \/ RunThread \/ UNCHANGED vars
  BY <1>1, <1>2 DEF Application, Start, Stop, Wait, WaitReturns, DestroyIdle,
     DestroyRunning, DestroyJoins, RunThread, RunEnter, SpawnVcpu,
     PollSeesStop, JoinVcpu, Complete, vars
<1>3. ASSUME NEW i \in Cpu, Host(i) PROVE BootTypes'
  <2>1. CASE Create(i)
    BY <2>1 DEF Create, KernelPair
  <2>2. CASE ReadPc(i)
    BY <2>2 DEF ReadPc
  <2>3. CASE ReadX0(i)
    BY <2>3 DEF ReadX0
  <2>4. CASE ClearPending(i)
    BY <2>4 DEF ClearPending
  <2>5. CASE StorePc(i)
    BY <2>5 DEF StorePc
  <2>6. CASE StoreX0(i)
    BY <2>6 DEF StoreX0
  <2>7. CASE SetPending(i)
    BY <2>7, ZeroIsCpu DEF SetPending, NoCall, Value
  <2> QED
    BY <1>1, <1>3, <2>1, <2>2, <2>3, <2>4, <2>5, <2>6, <2>7
    DEF Host, CreateFails, SpinEnds, Setup, SetupFails, LoopChecks,
        DestroyVcpu
<1>4. ASSUME NEW i \in Cpu, Guest(i) PROVE BootTypes'
  <2>1. CASE CpuOn(i)
    BY <2>1 DEF CpuOn, Calls, Value
  <2> QED
    BY <1>1, <1>4, <2>1 DEF Guest, ExitServed, RunFails, CpuOff, SystemOff
<1> QED
  BY <1>2, <1>3, <1>4 DEF Next, Terminated

LEMMA GhostTypesKept == TypeOK /\ [Next]_vars => GhostTypes'
<1> SUFFICES ASSUME GhostTypes, [Next]_vars PROVE GhostTypes'
  BY DEF TypeOK
<1> USE DEF GhostTypes
<1>1. CASE UNCHANGED ghostVars
  BY <1>1 DEF ghostVars
<1>2. CASE Application
  <2>1. CASE Start
    <3>1. starts' \in 0 .. MaxStarts
      BY <2>1 DEF Start
    <3> QED
      BY <2>1, <3>1, Zenon DEF Start
  <2> QED
    BY <1>1, <1>2, <2>1 DEF Application, Stop, Wait, WaitReturns, DestroyIdle,
       DestroyRunning, DestroyJoins
<1>3. CASE RunThread
  BY <1>1, <1>3, ZeroIsCpu DEF RunThread, RunEnter, SpawnVcpu, PollSeesStop,
     JoinVcpu, Complete
<1>4. ASSUME NEW i \in Cpu, Host(i) PROVE GhostTypes'
  BY <1>1, <1>4 DEF Host, Create, CreateFails, SpinEnds, ReadPc, ReadX0,
     ClearPending, Setup, SetupFails, LoopChecks, DestroyVcpu, StorePc,
     StoreX0, SetPending
<1>5. ASSUME NEW i \in Cpu, Guest(i) PROVE GhostTypes'
  <2>1. CASE CpuOn(i)
    BY <2>1 DEF CpuOn, Calls
  <2> QED
    BY <1>1, <1>5, <2>1 DEF Guest, ExitServed, RunFails, CpuOff, SystemOff
<1>6. CASE UNCHANGED vars
  BY <1>1, <1>6 DEF vars
<1> QED
  BY <1>2, <1>3, <1>4, <1>5, <1>6 DEF Next, Terminated

(* Every reachable state is well typed, whatever the guest does.           *)
THEOREM TypeCorrect == Spec => []TypeOK
<1>1. Init => TypeOK
  <2> SUFFICES ASSUME Init PROVE TypeOK
    OBVIOUS
  <2> USE ZeroIsCpu DEF Init
  <2>1. VmTypes
    BY DEF VmTypes, CallerStates, RunnerStates, VcpuStates
  <2>2. BootTypes
    BY DEF BootTypes, Value, NoCall
  <2>3. GhostTypes
    <3>1. 0 \in 0 .. MaxStarts
      OBVIOUS
    <3> QED
      BY <3>1 DEF GhostTypes
  <2> QED
    BY <2>1, <2>2, <2>3 DEF TypeOK
<1>2. TypeOK /\ [Next]_vars => TypeOK'
  BY VmTypesKept, BootTypesKept, GhostTypesKept DEF TypeOK
<1> QED
  BY <1>1, <1>2, PTL DEF Spec

-----------------------------------------------------------------------------
(* The owner's state and the run thread's state go together. *)
Paired ==
  /\ caller = "built" => runner = "none"
  /\ caller = "stopped" => runner = "finished"
  /\ caller = "destroyed" => runner \in {"none", "finished"}
  /\ caller \in {"started", "waiting", "dtor"} => runner # "none"

(* Which vCPU threads exist at each place of run_all. *)
SpawnedBy ==
  /\ runner \in {"none", "enter", "complete", "finished"} => Quiet
  /\ runner = "spawn" =>
       \A i \in Cpu : i >= next => vpc[i] \in {"unspawned", "exited"}
  /\ runner = "join" => \A i \in Cpu : i < next => vpc[i] = "exited"

QInv == TypeOK /\ Paired /\ SpawnedBy

(* A vCPU thread moves only itself, never before it is spawned and never   *)
(* again once it has returned.                                             *)
LEMMA VcpuMoves ==
  ASSUME TypeOK, NEW i \in Cpu, Host(i) \/ Guest(i)
  PROVE  /\ vpc[i] \notin {"unspawned", "exited"}
         /\ vpc' = [vpc EXCEPT ![i] = vpc'[i]]
         /\ UNCHANGED <<caller, runner, next>>
<1> USE DEF TypeOK, VmTypes, Goto, vmVars
<1>1. CASE Host(i)
  BY <1>1 DEF Host, Create, CreateFails, SpinEnds, ReadPc, ReadX0,
              ClearPending, Setup, SetupFails, LoopChecks, DestroyVcpu,
              StorePc, StoreX0, SetPending
<1>2. CASE Guest(i)
  BY <1>2 DEF Guest, ExitServed, RunFails, CpuOff, SystemOff, CpuOn
<1> QED
  BY <1>1, <1>2

LEMMA QInvInductive == Spec => []QInv
<1>1. Init => Paired /\ SpawnedBy
  BY DEF Init, Paired, SpawnedBy, Quiet
<1>2. TypeOK /\ TypeOK' /\ Paired /\ SpawnedBy /\ [Next]_vars
        => (Paired /\ SpawnedBy)'
  <2> SUFFICES ASSUME TypeOK, TypeOK', Paired, SpawnedBy, [Next]_vars
               PROVE  (Paired /\ SpawnedBy)'
    OBVIOUS
  <2> USE DEF Paired, SpawnedBy, Quiet
  <2>1. CASE Application
    BY <2>1 DEF Application, Start, Stop, Wait, WaitReturns, DestroyIdle,
                DestroyRunning, DestroyJoins
  <2>2. CASE RunEnter \/ PollSeesStop \/ Complete
    <3>1. CASE RunEnter
      BY <2>2, <3>1 DEF RunEnter
    <3>2. CASE PollSeesStop
      BY <2>2, <3>2 DEF PollSeesStop, Cpu, TypeOK, VmTypes
    <3>3. CASE Complete
      BY <2>2, <3>3 DEF Complete
    <3> QED
      BY <2>2, <3>1, <3>2, <3>3
  <2>3. CASE SpawnVcpu
    BY <2>3 DEF SpawnVcpu, Cpu, TypeOK, VmTypes
  <2>4. CASE JoinVcpu
    BY <2>4 DEF JoinVcpu, Cpu, TypeOK, VmTypes
  <2>5. ASSUME NEW i \in Cpu, Host(i) \/ Guest(i)
        PROVE  (Paired /\ SpawnedBy)'
    BY <2>5, VcpuMoves DEF TypeOK, VmTypes
  <2>6. CASE UNCHANGED vars
    BY <2>6 DEF vars, vmVars
  <2> QED
    BY <2>1, <2>2, <2>3, <2>4, <2>5, <2>6 DEF Next, RunThread, Terminated
<1> QED
  BY <1>1, <1>2, TypeCorrect, PTL DEF Spec, QInv

(* The end of a run, as the handler, waitUntilStopped() or the destructor  *)
(* shows it, leaves no vCPU thread behind.                                 *)
THEOREM EndedIsQuiet == Spec => []EndedMeansQuiet
<1>1. QInv => EndedMeansQuiet
  BY DEF QInv, Paired, SpawnedBy, EndedMeansQuiet, TypeOK, VmTypes, CallerStates,
         RunnerStates
<1> QED
  BY <1>1, QInvInductive, PTL

(* A stop the run loop can see is never undone before the run has ended.   *)
THEOREM StopIsFinal == Spec => StopSticks
<1>1. [Next]_vars => [runner # "enter" /\ ~running => ~running']_vars
  <2> SUFFICES ASSUME [Next]_vars
               PROVE  runner # "enter" /\ ~running => ~running'
    BY DEF vars
  <2> USE DEF vmVars
  <2>1. CASE Application
    BY <2>1 DEF Application, Start, Stop, Wait, WaitReturns, DestroyIdle,
                DestroyRunning, DestroyJoins
  <2>2. CASE RunThread
    BY <2>2 DEF RunThread, RunEnter, SpawnVcpu, PollSeesStop, JoinVcpu,
                Complete
  <2>3. ASSUME NEW i \in Cpu, Host(i)
        PROVE  runner # "enter" /\ ~running => ~running'
    BY <2>3 DEF Host, Create, CreateFails, SpinEnds, ReadPc, ReadX0,
                ClearPending, Setup, SetupFails, LoopChecks, DestroyVcpu,
                StorePc, StoreX0, SetPending
  <2>4. ASSUME NEW i \in Cpu, Guest(i)
        PROVE  runner # "enter" /\ ~running => ~running'
    BY <2>4 DEF Guest, ExitServed, RunFails, CpuOff, SystemOff, CpuOn
  <2>5. CASE UNCHANGED vars
    BY <2>5 DEF vars
  <2> QED
    BY <2>1, <2>2, <2>3, <2>4, <2>5 DEF Next, Terminated
<1> QED
  BY <1>1, PTL DEF Spec, StopSticks

-----------------------------------------------------------------------------
(* The threads and flags keep the promise VmService states: every step of  *)
(* the machine is a step of the service or leaves it as it is.             *)
THEOREM Implementation == Spec => ImplementsService
<1>1. Init => Service!Init
  BY DEF Init, Service!Init, Phase, Live
<1>2. QInv /\ [Next]_vars => [Service!Next]_<<Phase, Live>>
  <2> SUFFICES ASSUME QInv, [Next]_vars
               PROVE  [Service!Next]_<<Phase, Live>>
    OBVIOUS
  <2> USE DEF QInv, Paired
  <2>a. runner \in {"none", "finished"} => Live = {}
    BY DEF SpawnedBy, Quiet, Live
  <2>1. CASE Start
    <3>1. Live' = Live
      BY <2>1 DEF Start, Live
    <3>2. Phase \in {"idle", "ended"} /\ Phase' = "running"
      BY <2>1 DEF Start, Phase
    <3> QED
      BY <3>1, <3>2 DEF Service!Next, Service!Launch
  <2>2. CASE DestroyIdle \/ DestroyJoins
    <3>1. Live' = Live /\ Live = {}
      BY <2>2, <2>a DEF DestroyIdle, DestroyJoins, Live
    <3>2. Phase \in {"idle", "ended"} /\ Phase' = "destroyed"
      BY <2>2 DEF DestroyIdle, DestroyJoins, Phase
    <3> QED
      BY <3>1, <3>2 DEF Service!Next, Service!Destroy
  <2>3. CASE Stop \/ Wait \/ WaitReturns \/ DestroyRunning
    BY <2>3 DEF Stop, Wait, WaitReturns, DestroyRunning, Phase, Live
  <2>4. CASE RunEnter \/ PollSeesStop \/ JoinVcpu
    BY <2>4 DEF RunEnter, PollSeesStop, JoinVcpu, Phase, Live
  <2>5. CASE SpawnVcpu
    <3>1. Phase' = Phase
      BY <2>5 DEF SpawnVcpu, Phase
    <3>2. Live' = Live
      BY <2>5 DEF SpawnVcpu, Live, SpawnedBy, TypeOK, VmTypes, Cpu
    <3> QED
      BY <3>1, <3>2
  <2>6. CASE Complete
    <3>1. Live' = Live /\ Live = {}
      BY <2>6 DEF Complete, Live, SpawnedBy, Quiet
    <3>2. Phase = "running" /\ Phase' = "ended"
      BY <2>6 DEF Complete, Phase
    <3> QED
      BY <3>1, <3>2 DEF Service!Next, Service!End
  <2>7. ASSUME NEW i \in Cpu, Host(i) \/ Guest(i)
        PROVE  [Service!Next]_<<Phase, Live>>
    <3>1. /\ vpc[i] \notin {"unspawned", "exited"}
          /\ vpc' = [vpc EXCEPT ![i] = vpc'[i]]
          /\ UNCHANGED <<caller, runner, next>>
      BY <2>7, VcpuMoves
    <3>2. Phase = "running" /\ Phase' = "running"
      BY <3>1 DEF Phase, SpawnedBy, Quiet
    <3>3. Live' = Live \cup {i} \/ Live' = Live \ {i}
      BY <3>1 DEF Live, TypeOK, VmTypes
    <3> QED
      BY <3>2, <3>3 DEF Service!Next, Service!Enter, Service!Leave
  <2>8. CASE UNCHANGED vars
    BY <2>8 DEF vars, vmVars, Phase, Live
  <2> QED
    BY <2>1, <2>2, <2>3, <2>4, <2>5, <2>6, <2>7, <2>8
    DEF Next, Application, RunThread, Terminated
<1> QED
  BY <1>1, <1>2, QInvInductive, PTL DEF Spec, ImplementsService, Service!Spec

-----------------------------------------------------------------------------
(***************************************************************************)
(* The boot handshake.  It is safe for one start() of a guest that calls   *)
(* CPU_ON only for a CPU it holds off; PSCI asks that of the guest, and    *)
(* nothing in psci_dispatch would catch a guest that breaks it.            *)
(***************************************************************************)
Serves(r, t) == vpc[r] \in OnSteps /\ call[r].target = t

\* No CPU_ON of t is under way.
Unasked(t) == ~bootPending[t] /\ \A r \in Cpu : ~Serves(r, t)

\* Nothing has happened before run_all spawns the first thread.
Fresh ==
  /\ runner # "none" => starts = 1
  /\ runner \in {"none", "enter"} => \A i \in Cpu :
       vpc[i] = "unspawned" /\ ~bootPending[i]
  /\ runner = "spawn" => \A i \in Cpu : i >= next => vpc[i] = "unspawned"

\* A CPU that runs, or is about to without being asked, is on and unasked.
RunsUnasked ==
  \A t \in Cpu :
    (vpc[t] \in Booted \/ (t = 0 /\ vpc[t] \in {"unspawned", "create"}))
    => t \in guestOn /\ Unasked(t)

\* What a vCPU serving a CPU_ON has stored so far is its own request.
ServesAlone ==
  \A r, t \in Cpu : Serves(r, t) =>
    /\ t \in guestOn
    /\ ~bootPending[t]
    /\ \A q \in Cpu : Serves(q, t) => q = r
    /\ call[r].req \in issued[t]
    /\ vpc[r] \in {"on_x0", "on_flag"} => bootPc[t] = call[r].req
    /\ vpc[r] = "on_flag" => bootX0[t] = call[r].req

\* A published pair is one request.
Published ==
  \A t \in Cpu : bootPending[t] =>
    t \in guestOn /\ bootPc[t] = bootX0[t] /\ bootPc[t] \in issued[t]

\* What a secondary has read so far is what is published.
Reads ==
  \A t \in Cpu :
    /\ vpc[t] \in {"read_pc", "read_x0", "clear"} => bootPending[t]
    /\ vpc[t] \in {"read_x0", "clear"} => regs[t].pc = bootPc[t]
    /\ vpc[t] = "clear" => regs[t].x0 = bootX0[t]

BInv ==
  /\ Fresh
  /\ vpc[0] \notin {"spin", "read_pc", "read_x0", "clear"}
  /\ RunsUnasked
  /\ ServesAlone
  /\ Published
  /\ Reads
  /\ BootPairMatches

LEMMA BInvInitially == MaxStarts = 1 /\ Init => BInv
  BY ZeroIsCpu DEF Init, BInv, Fresh, RunsUnasked, Unasked, Serves,
     ServesAlone, Published, Reads, BootPairMatches, OnSteps, Booted

LEMMA BInvStep ==
  ASSUME Disciplined, MaxStarts = 1, TypeOK, QInv, BInv, [Next]_vars
  PROVE  BInv'
<1> USE ZeroIsCpu DEF TypeOK, VmTypes, BootTypes, BInv
<1>1. CASE Application
  <2>1. UNCHANGED <<vpc, bootVars, guestOn, issued>>
    BY <1>1 DEF Application, Start, Stop, Wait, WaitReturns, DestroyIdle,
                DestroyRunning, DestroyJoins, ghostVars
  <2>2. Fresh'
    BY <1>1, <2>1 DEF Application, Start, Stop, Wait, WaitReturns,
       DestroyIdle, DestroyRunning, DestroyJoins, Fresh, bootVars, ghostVars,
       GhostTypes, QInv, Paired
  <2> QED
    BY <2>1, <2>2 DEF bootVars, RunsUnasked, Unasked, Serves, ServesAlone,
       Published, Reads, BootPairMatches
<1>2. CASE RunEnter
  <2>1. UNCHANGED <<vpc, bootVars, issued>>
    BY <1>2 DEF RunEnter
  <2>2. \A i \in Cpu : vpc[i] = "unspawned" /\ ~bootPending[i]
    BY <1>2 DEF RunEnter, Fresh
  <2>3. guestOn' = {0} /\ runner' = "spawn" /\ starts' = starts
    BY <1>2 DEF RunEnter
  <2> QED
    BY <1>2, <2>1, <2>2, <2>3 DEF RunEnter, bootVars, RunsUnasked, Unasked,
       Serves, ServesAlone, Published, Reads, BootPairMatches, Fresh,
       OnSteps, Booted
<1>3. CASE SpawnVcpu
  <2>1. UNCHANGED <<bootVars, guestOn, issued, starts>>
    BY <1>3 DEF SpawnVcpu, ghostVars
  <2>2. /\ vpc[next] = "unspawned"
        /\ vpc' = [vpc EXCEPT ![next] = "create"]
        /\ runner' \in {"spawn", "poll"}
        /\ runner = "spawn"
    BY <1>3 DEF SpawnVcpu, Fresh, Cpu
  <2> QED
    <3>1. \A t \in Cpu : vpc'[t] = IF t = next THEN "create" ELSE vpc[t]
      BY <2>2
    <3>2. Published' /\ Reads' /\ BootPairMatches'
      BY <2>1, <2>2, <3>1 DEF bootVars, Published, Reads, BootPairMatches,
         OnSteps, Booted
    <3>7. Fresh'
      BY <1>3, <2>1, <2>2, <3>1 DEF SpawnVcpu, Fresh, Cpu
    <3>3. \A r, t \in Cpu : Serves(r, t)' => Serves(r, t)
      BY <2>1, <3>1 DEF bootVars, Serves, OnSteps
    <3>4. \A t \in Cpu : Unasked(t) => Unasked(t)'
      BY <2>1, <3>3 DEF bootVars, Unasked
    <3>5. RunsUnasked'
      BY <2>1, <2>2, <3>1, <3>4 DEF RunsUnasked, Booted, OnSteps
    <3>6. ServesAlone'
      BY <2>1, <3>1, <3>3 DEF bootVars, ServesAlone, Serves, OnSteps
    <3> QED
      BY <2>2, <3>1, <3>2, <3>5, <3>6, <3>7
<1>4. CASE PollSeesStop \/ JoinVcpu \/ Complete
  <2>1. UNCHANGED <<vpc, bootVars, ghostVars>>
    BY <1>4 DEF PollSeesStop, JoinVcpu, Complete
  <2>2. /\ runner \in {"poll", "join", "complete"}
        /\ runner' \notin {"none", "enter", "spawn"}
    BY <1>4 DEF PollSeesStop, JoinVcpu, Complete
  <2> QED
    BY <2>1, <2>2 DEF bootVars, ghostVars, RunsUnasked, Unasked, Serves,
       ServesAlone, Published, Reads, BootPairMatches, Fresh
<1>5. ASSUME NEW i \in Cpu, Host(i) \/ Guest(i) PROVE Fresh' /\ runner \notin {"none", "enter"}
  <2>1. starts' = starts
    BY <1>5 DEF Host, Create, CreateFails, SpinEnds, ReadPc, ReadX0,
       ClearPending, Setup, SetupFails, LoopChecks, DestroyVcpu, StorePc,
       StoreX0, SetPending, Guest, ExitServed, RunFails, CpuOff, SystemOff,
       CpuOn, ghostVars
  <2>2. /\ vpc[i] # "unspawned"
        /\ vpc' = [vpc EXCEPT ![i] = vpc'[i]]
        /\ UNCHANGED <<runner, next>>
    BY <1>5, VcpuMoves
  <2> QED
    BY <2>1, <2>2 DEF Fresh
<1> DEFINE Parts == RunsUnasked /\ ServesAlone /\ Published /\ Reads /\ BootPairMatches /\ vpc[0] \notin {"spin", "read_pc", "read_x0", "clear"}
<1>6. ASSUME NEW i \in Cpu, Host(i) PROVE Parts'
  <2> USE DEF Goto, RunsUnasked, Unasked, Serves, ServesAlone, Published,
              Reads, BootPairMatches, Booted, OnSteps
  <2>1. CASE Create(i)
    BY <2>1 DEF Create, ghostVars
  <2>2. CASE CreateFails(i)
    BY <2>2 DEF CreateFails, bootVars, ghostVars
  <2>3. CASE SpinEnds(i)
    BY <2>3 DEF SpinEnds, bootVars, ghostVars
  <2>4. CASE ReadPc(i)
    BY <2>4 DEF ReadPc, ghostVars
  <2>5. CASE ReadX0(i)
    BY <2>5 DEF ReadX0, ghostVars
  <2>6. CASE ClearPending(i)
    <3>1. bootPending[i] /\ bootPending' = [bootPending EXCEPT ![i] = FALSE]
      BY <2>6 DEF ClearPending
    <3>2. vpc[i] = "clear" /\ vpc' = [vpc EXCEPT ![i] = "setup"]
      BY <2>6 DEF ClearPending
    <3>3. UNCHANGED <<bootPc, bootX0, regs, call, guestOn, issued>>
      BY <2>6 DEF ClearPending, ghostVars
    <3>4. \A r \in Cpu : ~Serves(r, i)
      BY <3>1
    <3>5. \A r, t \in Cpu : Serves(r, t)' <=> Serves(r, t)
      BY <3>2, <3>3
    <3>6. RunsUnasked'
      BY <3>1, <3>2, <3>3, <3>4, <3>5
    <3>7. ServesAlone'
      BY <3>1, <3>2, <3>3, <3>5
    <3> QED
      BY <3>1, <3>2, <3>3, <3>6, <3>7
  <2>7. CASE Setup(i)
    BY <2>7 DEF Setup, bootVars, ghostVars
  <2>8. CASE SetupFails(i)
    BY <2>8 DEF SetupFails, bootVars, ghostVars
  <2>9. CASE LoopChecks(i)
    BY <2>9 DEF LoopChecks, bootVars, ghostVars
  <2>10. CASE DestroyVcpu(i)
    BY <2>10 DEF DestroyVcpu, bootVars, ghostVars
  <2>11. CASE StorePc(i)
    BY <2>11 DEF StorePc, ghostVars
  <2>12. CASE StoreX0(i)
    BY <2>12 DEF StoreX0, ghostVars
  <2>13. CASE SetPending(i)
    BY <2>13 DEF SetPending, ghostVars
  <2> QED
    BY <1>6, <2>1, <2>2, <2>3, <2>4, <2>5, <2>6, <2>7, <2>8, <2>9, <2>10,
       <2>11, <2>12, <2>13 DEF Host
<1>7. ASSUME NEW i \in Cpu, Guest(i) PROVE Parts'
  <2> USE DEF Goto, RunsUnasked, Unasked, Serves, ServesAlone, Published,
              Reads, BootPairMatches, Booted, OnSteps
  <2>1. CASE ExitServed(i)
    BY <2>1 DEF ExitServed, bootVars, ghostVars
  <2>2. CASE RunFails(i)
    BY <2>2 DEF RunFails, bootVars, ghostVars
  <2>3. CASE CpuOff(i)
    BY <2>3 DEF CpuOff, bootVars
  <2>4. CASE SystemOff(i)
    BY <2>4 DEF SystemOff, bootVars, ghostVars
  <2>5. CASE CpuOn(i)
    <3>1. PICK t \in Cpu, r \in Request :
             /\ t \notin guestOn
             /\ vpc[i] = "guest"
             /\ vpc' = [vpc EXCEPT ![i] = "on_pc"]
             /\ call' = [call EXCEPT ![i] = [target |-> t, req |-> r]]
             /\ guestOn' = guestOn \cup {t}
             /\ issued' = [issued EXCEPT ![t] = @ \cup {r}]
             /\ UNCHANGED <<bootPc, bootX0, bootPending, regs>>
      BY <2>5 DEF CpuOn, Calls
    <3>2. ~bootPending[t] /\ t # i /\ vpc[t] \notin Booted
          /\ vpc[t] \notin {"read_pc", "read_x0", "clear"}
          /\ \A q \in Cpu : ~Serves(q, t)
      BY <3>1
    <3>3. \A q, u \in Cpu :
            Serves(q, u)' <=> (IF q = i THEN u = t ELSE Serves(q, u))
      BY <3>1
    <3>4. \A u \in Cpu : issued[u] \subseteq issued'[u]
      BY <3>1 DEF GhostTypes
    <3>5. RunsUnasked'
      BY <3>1, <3>2, <3>3
    <3>6. ServesAlone'
      <4>1. r \in issued'[t]
        BY <3>1 DEF GhostTypes
      <4> QED
        BY <3>1, <3>2, <3>3, <3>4, <4>1
    <3>7. Published' /\ Reads' /\ BootPairMatches'
      BY <3>1, <3>2, <3>4
    <3> QED
      BY <3>1, <3>5, <3>6, <3>7
  <2> QED
    BY <1>7, <2>1, <2>2, <2>3, <2>4, <2>5 DEF Guest
<1>8. CASE UNCHANGED vars
  BY <1>8 DEF vars, vmVars, bootVars, ghostVars, RunsUnasked, Unasked, Serves,
     ServesAlone, Published, Reads, BootPairMatches, Fresh
<1> QED
  BY <1>1, <1>2, <1>3, <1>4, <1>5, <1>6, <1>7, <1>8
  DEF Next, RunThread, Terminated

LEMMA BInvHolds ==
  ASSUME Disciplined, MaxStarts = 1 PROVE Spec => []BInv
<1>1. TypeOK /\ QInv /\ BInv /\ [Next]_vars => BInv'
  BY BInvStep
<1>2. Init => BInv
  BY BInvInitially
<1> QED
  BY <1>1, <1>2, TypeCorrect, QInvInductive, PTL DEF Spec

(* No secondary enters the guest with a torn pair or one nobody asked for. *)
THEOREM BootIsWhole ==
  ASSUME Disciplined, MaxStarts = 1 PROVE Spec => []BootPairMatches
<1>1. BInv => BootPairMatches
  BY DEF BInv
<1> QED
  BY <1>1, BInvHolds, PTL

(* No vCPU runs a guest that has it off.                                   *)
THEOREM BootIsAsked ==
  ASSUME Disciplined, MaxStarts = 1 PROVE Spec => []BootNeedsCpuOn
<1>1. BInv => BootNeedsCpuOn
  BY DEF BInv, RunsUnasked, BootNeedsCpuOn
<1> QED
  BY <1>1, BInvHolds, PTL
=============================================================================
