-------------------------------- MODULE NoobVm --------------------------------
(***************************************************************************)
(* The byte-code machine of the ESP runtime (esp/common/src/vm/noob_vm     *)
(* .cpp), instruction by instruction, with its native calls answered by a  *)
(* thread program.  A program is the sequence of its bytes.  Faults keep   *)
(* no message, and once the machine has left RUNNING and WAITING its pc    *)
(* and stack are not read before run() clears them: they are cleared when  *)
(* it leaves.                                                              *)
(***************************************************************************)
EXTENDS ThreadPrograms

CONSTANTS
  Programs,        \* the programs that are loaded, each a sequence of bytes
  Word,            \* 2^32: the values of a register
  REGISTER_COUNT,  \* 8
  MEMORY_BYTES,    \* 256; Programs use addresses below it
  CALL_DEPTH       \* 8

\* A program of bytes; the byte after 0x31, or the second after 0x30, may be
\* read as an address.
ASSUME ProgramAssumption ==
  \A p \in Programs :
    /\ p \in Seq(0 .. 255) /\ Len(p) \in 1 .. 1024
    /\ \A i \in 1 .. Len(p) - 2 :
         /\ p[i] = 48 => p[i + 2] < MEMORY_BYTES
         /\ p[i] = 49 => p[i + 1] < MEMORY_BYTES
ASSUME WordAssumption == Word \in Nat \ {0} /\ Word % 2 = 0
ASSUME DepthAssumption == CALL_DEPTH \in Nat /\ MEMORY_BYTES \in Nat

VARIABLES vmState, program, pc, registers, memory, returnStack

machineVars == <<vmState, program, pc, registers, memory, returnStack>>

Words == -(Word \div 2) .. Word \div 2 - 1
Register == 0 .. REGISTER_COUNT-1
NoRegisters == [r \in Register |-> 0]
NoMemory == [a \in 0 .. MEMORY_BYTES-1 |-> 0]

vmInit ==
  /\ vmState = "EMPTY" /\ program = <<>> /\ pc = 0
  /\ registers = NoRegisters /\ memory = NoMemory /\ returnStack = <<>>

active == vmState \in {"RUNNING", "WAITING"}

-----------------------------------------------------------------------------
(* load, run, stop and reset, called by the dispatcher *)

\* load(p) refuses to replace the program of a machine that runs.
load(p) ==
  IF active THEN UNCHANGED machineVars
  ELSE /\ program' = p /\ vmState' = "READY" /\ pc' = 0 /\ returnStack' = <<>>
       /\ registers' = NoRegisters /\ memory' = NoMemory

\* run keeps registers and memory of the last run.
runVm ==
  IF program = <<>> \/ active THEN UNCHANGED machineVars
  ELSE /\ vmState' = "RUNNING" /\ pc' = 0 /\ returnStack' = <<>>
       /\ UNCHANGED <<program, registers, memory>>

\* The machine leaves RUNNING for s.
leave(s) == vmState' = s /\ pc' = 0 /\ returnStack' = <<>> /\ UNCHANGED <<program, registers, memory>>

stopVm == IF active THEN leave("STOPPED") ELSE UNCHANGED machineVars

reset ==
  /\ vmState' = "EMPTY" /\ program' = <<>> /\ pc' = 0 /\ returnStack' = <<>>
  /\ registers' = NoRegisters /\ memory' = NoMemory

-----------------------------------------------------------------------------
(* executeOne *)

\* The i-th byte of the instruction at pc, and the 16-bit value of two.
Operand(i) == program[pc + i + 1]
read16(i) == Operand(i) + 256 * Operand(i + 1)

\* The 32-bit immediate, as a register keeps it.
Wrap(v) == ((v + Word \div 2) % Word) - Word \div 2
read32(i) == Wrap(read16(i) + 65536 * read16(i + 2))

\* need: the first n bytes of the instruction are in the program
need(n) == pc + n <= Len(program)

validRegister(r) == r \in Register

fault == leave("FAULT")

\* The instruction of n bytes ends and stores v into register d.
store(n, d, v) ==
  /\ registers' = [registers EXCEPT ![d] = v] /\ pc' = pc + n
  /\ UNCHANGED <<vmState, program, memory, returnStack>>

\* The instruction ends at t.
goto(t) == pc' = t /\ UNCHANGED <<vmState, program, registers, memory, returnStack>>

\* C division truncates towards zero.
Quotient(a, b) ==
  LET Abs(x) == IF x < 0 THEN -x ELSE x
      q == Abs(a) \div Abs(b)
  IN  IF (a < 0) = (b < 0) THEN q ELSE -q

\* 0x03 .. 0x06
arithmetic(op) ==
  IF ~need(4) THEN fault
  ELSE IF ~\A i \in 1 .. 3 : validRegister(Operand(i)) THEN fault
  ELSE LET a == registers[Operand(2)]
           b == registers[Operand(3)]
       IN  IF op = 6 /\ b = 0 THEN fault
           ELSE store(4, Operand(1), Wrap(CASE op = 3 -> a + b
                                            [] op = 4 -> a - b
                                            [] op = 5 -> a * b
                                            [] op = 6 -> Quotient(a, b)))

\* 0x11 jump if zero, 0x12 jump if not
branch(op) ==
  IF ~need(4) THEN fault
  ELSE IF ~validRegister(Operand(1)) THEN fault
  ELSE IF (op = 17) # (registers[Operand(1)] = 0) THEN goto(pc + 4)
  ELSE IF read16(2) >= Len(program) THEN fault ELSE goto(read16(2))

\* 0x13
callVm ==
  IF ~need(3) THEN fault
  ELSE IF read16(1) >= Len(program) \/ Len(returnStack) >= CALL_DEPTH THEN fault
  ELSE /\ returnStack' = Append(returnStack, pc + 3) /\ pc' = read16(1)
       /\ UNCHANGED <<vmState, program, registers, memory>>

\* 0x14
returnVm ==
  IF returnStack = <<>> THEN fault
  ELSE /\ pc' = returnStack[Len(returnStack)]
       /\ returnStack' = SubSeq(returnStack, 1, Len(returnStack) - 1)
       /\ UNCHANGED <<vmState, program, registers, memory>>

\* 0x20 and 0x22: destination, id, argument registers and, with 0x22, a text
syscall(op) ==
  LET n == Operand(4)
      base == 5 + n
      size == IF op = 34 THEN base + 1 + Operand(base) ELSE base
      args == [i \in 1 .. n |-> registers[Operand(4 + i)]]
      ascii == IF op = 34 THEN [i \in 1 .. Operand(base) |-> Operand(base + i)] ELSE <<>>
      id == read16(2)
      broken == \/ ~need(5) \/ ~validRegister(Operand(1)) \/ n > REGISTER_COUNT \/ ~need(base)
                \/ \E i \in 1 .. n : ~validRegister(Operand(4 + i))
                \/ op = 34 /\ (~need(base + 1) \/ ~need(size))
                \/ id \notin Natives
  IN  IF broken \/ ~succeeds(id, args, ascii) THEN fault /\ UNCHANGED threadVars
      ELSE store(size, Operand(1), Wrap(value(id))) /\ perform(id, args)

\* 0x30 and 0x31
memoryByte(op) ==
  IF ~need(3) THEN fault
  ELSE IF op = 48
         THEN IF validRegister(Operand(1)) THEN store(3, Operand(1), Wrap(memory[Operand(2)])) ELSE fault
         ELSE IF validRegister(Operand(2))
                THEN /\ memory' = [memory EXCEPT ![Operand(1)] = registers[Operand(2)] % 256]
                     /\ pc' = pc + 3
                     /\ UNCHANGED <<vmState, program, registers, returnStack>>
                ELSE fault

\* Every instruction that calls no native function.
instruction(op) ==
  CASE op = 0 -> leave("HALTED")
    [] op = 1 -> IF ~need(6) THEN fault
                 ELSE IF validRegister(Operand(1)) THEN store(6, Operand(1), read32(2)) ELSE fault
    [] op = 2 -> IF ~need(3) THEN fault
                 ELSE IF validRegister(Operand(1)) /\ validRegister(Operand(2))
                        THEN store(3, Operand(1), registers[Operand(2)]) ELSE fault
    [] op \in 3 .. 6 -> arithmetic(op)
    [] op = 16 -> IF ~need(3) THEN fault
                  ELSE IF read16(1) >= Len(program) THEN fault ELSE goto(read16(1))
    [] op \in {17, 18} -> branch(op)
    [] op = 19 -> callVm
    [] op = 20 -> returnVm
    [] op = 33 -> IF ~need(3) THEN fault
                  ELSE /\ vmState' = "WAITING" /\ pc' = pc + 3
                       /\ UNCHANGED <<program, registers, memory, returnStack>>
    [] op \in {48, 49} -> memoryByte(op)
    [] OTHER -> fault

executeOne ==
  IF ~need(1) THEN fault /\ UNCHANGED threadVars
  ELSE IF Operand(0) \in {32, 34} THEN syscall(Operand(0))
  ELSE instruction(Operand(0)) /\ UNCHANGED threadVars

-----------------------------------------------------------------------------
(***************************************************************************)
(* The type of every variable of the machine: the pc stays at most at the  *)
(* end of the program and the stack within CALL_DEPTH, whatever bytes are  *)
(* loaded and wherever a jump enters an instruction.                       *)
(***************************************************************************)
MachineOK ==
  /\ vmState \in {"EMPTY", "READY", "RUNNING", "WAITING", "HALTED", "STOPPED", "FAULT"}
  /\ program \in Programs \cup {<<>>}
  /\ pc \in 0 .. Len(program)
  /\ registers \in [Register -> Words]
  /\ memory \in [0 .. MEMORY_BYTES-1 -> 0 .. 255]
  /\ returnStack \in Seq(0 .. Len(program)) /\ Len(returnStack) <= CALL_DEPTH
=============================================================================
