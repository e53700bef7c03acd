----------------------------- MODULE NoobRuntime -----------------------------
(***************************************************************************)
(* The cooperative loop of every ESP Noob (esp/common/src/core/            *)
(* noob_runtime_core.cpp): one tick of the VM, one tick of each service,   *)
(* here the self test and a thread program, then at most one frame of a    *)
(* transport, answered by the command dispatcher (commands/                *)
(* noob_command_dispatcher.cpp).  The sequencer, a service of its own      *)
(* module, appears as the busy bit that a change detector looks at.        *)
(*                                                                         *)
(* The families keep the state space small: a behaviour boots, or runs VM  *)
(* programs with a sampler, or drives a detector from a host.              *)
(***************************************************************************)
EXTENDS NoobVm, SelfTest

CONSTANTS
  BUDGET,    \* 32: VM instructions of one tick
  Families,
  Calls      \* <<id, arguments, text>> of CALL and CALL_MIXED, text <<>> for CALL

ASSUME BudgetAssumption == BUDGET \in Nat

VARIABLES
  family,
  phase,    \* what the loop does next
  budget,   \* instructions left in this tick
  inbox     \* a transport holds a frame; nothing looks at it before dispatch

runtimeVars == <<threadVars, machineVars, testVars, family, phase, budget, inbox>>

Frame(command, p, id, args, ascii) ==
  [command |-> command, program |-> p, id |-> id, args |-> args, ascii |-> ascii]

\* Frames that change nothing: malformed ones, PING, INFO, CAPS, STATUS.
Plain == Frame("STATUS", <<>>, 0, <<>>, <<>>)

\* Frames a host sends to VM and thread; LOAD of <<>> is one with bad hex.
Frames ==
  {Plain}
  \cup {Frame("CALL", <<>>, c[1], c[2], c[3]) : c \in Calls}
  \cup IF family # "machine" THEN {}
       ELSE {Frame(c, <<>>, 0, <<>>, <<>>) : c \in {"RUN", "STOP", "RESET_VM"}}
            \cup {Frame("LOAD", p, 0, <<>>, <<>>) : p \in Programs \cup {<<>>}}

RuntimeInit ==
  /\ ThreadInit /\ vmInit /\ testInit
  /\ family \in Families
  /\ (family = "detector") = (kind # "sample")
  /\ family # "boot" => plan = <<>>
  /\ phase = "vm" /\ budget = BUDGET /\ inbox = FALSE

-----------------------------------------------------------------------------
Become(p) == phase' = p /\ UNCHANGED <<family, inbox>>

\* Faulty variant of tick: the instructions of a tick are not counted.
tickUnbounded ==
  /\ phase = "vm"
  /\ IF vmState = "RUNNING"
       THEN executeOne /\ UNCHANGED <<phase, family, inbox, budget>>
       ELSE /\ Become("services") /\ budget' = BUDGET
            /\ UNCHANGED <<threadVars, machineVars>>
  /\ UNCHANGED testVars

\* NoobVm::tick, one instruction at a time; a wait is looked at on entry only.
tick ==
  /\ phase = "vm"
  /\ \/ /\ vmState = "WAITING" /\ budget = BUDGET
        /\ vmState' = "RUNNING"
        /\ UNCHANGED <<threadVars, program, pc, registers, memory, returnStack, phase, family, inbox, budget>>
     \/ /\ vmState = "RUNNING" /\ budget > 0
        /\ executeOne /\ budget' = budget - 1
        /\ UNCHANGED <<phase, family, inbox>>
     \/ /\ vmState # "RUNNING" \/ budget = 0
        /\ Become("services") /\ budget' = BUDGET
        /\ UNCHANGED <<threadVars, machineVars>>
  /\ UNCHANGED testVars

\* Boot registers the plan before the loop runs.
boot ==
  /\ addProbe \/ finish
  /\ UNCHANGED <<threadVars, machineVars, family, phase, budget, inbox>>

\* The tick of the self test, whose next probe may not be due.
testTick == testProbe \/ testReport \/ ((probing \/ finished) /\ UNCHANGED testVars)

\* The ticks of the services, the thread's when its interval has passed.
services(due) ==
  /\ phase = "services"
  /\ testTick
  /\ IF due THEN threadTick ELSE UNCHANGED threadVars
  /\ Become("transport") /\ UNCHANGED <<machineVars, budget>>

\* CommandDispatcher::dispatch
dispatch(f) ==
  CASE f.command = "LOAD" ->
         /\ IF f.program = <<>> THEN UNCHANGED machineVars ELSE load(f.program)
         /\ UNCHANGED threadVars
    [] f.command = "RUN" -> runVm /\ UNCHANGED threadVars
    [] f.command = "STOP" -> stopVm /\ UNCHANGED threadVars
    [] f.command = "RESET_VM" -> reset /\ UNCHANGED threadVars
    [] f.command = "CALL" /\ f.id \in Natives /\ succeeds(f.id, f.args, f.ascii) ->
         perform(f.id, f.args) /\ UNCHANGED machineVars
    [] OTHER -> UNCHANGED <<threadVars, machineVars>>

\* receive, parse, dispatch, send
transport ==
  /\ phase = "transport"
  /\ IF inbox THEN \E f \in Frames : dispatch(f) ELSE UNCHANGED <<threadVars, machineVars>>
  /\ inbox' = FALSE
  /\ phase' = "vm"
  /\ UNCHANGED <<testVars, family, budget>>

\* A frame arrives; the start of a round is the longest it may have to wait.
arrive ==
  /\ phase = "vm" /\ budget = BUDGET
  /\ family # "boot" /\ planReady /\ ~inbox
  /\ inbox' = TRUE
  /\ UNCHANGED <<threadVars, machineVars, testVars, family, phase, budget>>

\* The duration of a sampler has passed.
elapse ==
  /\ kind = "sample" /\ running /\ conf.duration # 0 /\ ~expired
  /\ expired' = TRUE
  /\ UNCHANGED <<vars, kind, conf, running, lastPopped, changeVars, riseVars, run, apart>>
  /\ UNCHANGED <<machineVars, testVars, family, phase, budget, inbox>>

loop == planReady /\ (tick \/ (\E due \in BOOLEAN : services(due)) \/ transport)

RuntimeNext == boot \/ loop \/ arrive \/ elapse

RuntimeSpec == RuntimeInit /\ [][RuntimeNext]_runtimeVars

\* Boot and loop go on; time passes, so that in some round an interval is over.
Fairness ==
  /\ WF_runtimeVars(boot) /\ WF_runtimeVars(loop)
  /\ SF_runtimeVars(family = "machine" /\ expired /\ services(TRUE))
  /\ SF_runtimeVars(family = "boot" /\ services(FALSE) /\ (testProbe \/ testReport))
LiveRuntimeSpec == RuntimeSpec /\ Fairness

-----------------------------------------------------------------------------
\* The type of every variable: queue, machine, thread and loop.
RuntimeTypeOK ==
  /\ TypeOK /\ MachineOK
  /\ kind \in Kinds /\ running \in BOOLEAN
  /\ lastPopped \in Record \cup {Blank} /\ previous \in Levels[kind] \cup {None}
  /\ armed \in BOOLEAN /\ stable \in 0 .. REARM-1
  /\ writeIndex \in DOMAIN NoBuckets /\ filledBuckets \in 0 .. BUCKET_COUNT
  /\ nextProbe \in 1 .. Len(probes) + 1 /\ Len(probes) <= MAX_PROBES
  /\ phase \in {"vm", "services", "transport"} /\ budget \in 0 .. BUDGET

(***************************************************************************)
(* No VM program keeps a host from being served: a frame that has arrived  *)
(* is taken, also while the VM loops without a WAIT, because tick executes *)
(* a bounded number of instructions before the transports have their turn. *)
(***************************************************************************)
FramesServed == inbox ~> ~inbox

(***************************************************************************)
(* A sampler with a duration ends by itself: once the time is over it      *)
(* stops or is started anew, also when its source fails at every call.     *)
(***************************************************************************)
SamplerEnds == running /\ expired ~> ~(running /\ expired)

\* The self test ends, however many of its probes fail.
SelfTestEnds == <>(family = "boot" => finished)
=============================================================================
