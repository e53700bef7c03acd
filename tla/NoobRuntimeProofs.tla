------------------------- MODULE NoobRuntimeProofs -------------------------
(***************************************************************************)
(* Theorems about the ESP runtime, for every capacity, counter width,      *)
(* window, boot plan and VM program: the ring of NoobRecordQueue           *)
(* implements the bounded queue, by itself and inside the running          *)
(* runtime; records are of the current run; detectors space their events   *)
(* and compute the means of their window; a self test's report is final;   *)
(* the virtual machine stays within its types; and a frame is served       *)
(* within a bounded number of steps whatever the machine runs.             *)
(***************************************************************************)
EXTENDS NoobRuntime, TLAPS

\* The ring positions stay inside the ring, and distinct places are distinct
\* slots.
LEMMA PlaceRange ==
  ASSUME TypeOK, NEW k \in 0 .. Capacity-1
  PROVE  Place(k) \in Slot
BY CapacityAssumption DEF TypeOK, Slot, Place

LEMMA NextSlotRange ==
  ASSUME NEW i \in Slot
  PROVE  NextSlot(i) \in Slot
BY CapacityAssumption DEF Slot, NextSlot

\* The record k places behind the oldest one.
LEMMA ContentsAt ==
  ASSUME TypeOK, NEW k \in 0 .. count-1
  PROVE  Contents[k+1] = records[Place(k)] /\ k+1 \in 1 .. count
<1>1. k+1 \in 1 .. count /\ (k+1) - 1 = k
  BY DEF TypeOK
<1>2. Contents[k+1] = records[Place((k+1) - 1)]
  BY <1>1 DEF Contents
<1> QED
  BY <1>1, <1>2

\* The indices stay in the ring and the counter in its width.
THEOREM TypeCorrect == Spec => []TypeOK
<1>1. Init => TypeOK
  BY CapacityAssumption, ModulusAssumption DEF Init, TypeOK, Slot
<1>2. TypeOK /\ [Next]_vars => TypeOK'
  <2> SUFFICES ASSUME TypeOK, [Next]_vars PROVE TypeOK'
    OBVIOUS
  <2>1. ASSUME NEW r \in Record, Push(r) PROVE TypeOK'
    BY <2>1, NextSlotRange, ModulusAssumption, CapacityAssumption DEF Push, TypeOK
  <2>2. CASE Pop
    BY <2>2, NextSlotRange, CapacityAssumption DEF Pop, TypeOK
  <2>3. CASE Clear
    BY <2>3, CapacityAssumption, ModulusAssumption DEF Clear, TypeOK, Slot
  <2>4. CASE UNCHANGED vars
    BY <2>4 DEF vars, TypeOK
  <2> QED
    BY <2>1, <2>2, <2>3, <2>4 DEF Next
<1> QED
  BY <1>1, <1>2, PTL DEF Spec

\* tail trails head by count, and the slots in between were filled by push.
THEOREM RingInvariant == Spec => []RingOK
<1>1. Init => RingOK
  BY CapacityAssumption DEF Init, RingOK, Place, Contents
<1>2. TypeOK /\ RingOK /\ [Next]_vars => RingOK'
  <2> SUFFICES ASSUME TypeOK, RingOK, [Next]_vars PROVE RingOK'
    OBVIOUS
  <2> USE CapacityAssumption DEF TypeOK, RingOK, Slot
  <2>1. ASSUME NEW r \in Record, Push(r) PROVE RingOK'
    <3>1. (tail = IF count = Capacity THEN head ELSE Place(count))'
      BY <2>1 DEF Push, Place, NextSlot
    <3>2. ASSUME NEW k \in 1 .. count' PROVE Contents'[k] \in Record
      <4>1. Contents'[k] = records'[Place(k-1)']
        BY <3>2 DEF Contents
      <4>2. CASE k = count'
        BY SMTT(60), <2>1, <4>1, <4>2 DEF Push, Place, NextSlot
      <4>3. CASE k < count' /\ count < Capacity
        <5>1. Place(k-1)' = Place(k-1) /\ Place(k-1) # tail
          BY <2>1, <4>3 DEF Push, Place
        <5>2. Contents[k] = records[Place(k-1)] /\ Contents[k] \in Record
          BY <2>1, <4>3 DEF Push, Contents
        <5> QED
          BY <2>1, <4>1, <5>1, <5>2 DEF Push
      <4>4. CASE k < count' /\ count = Capacity
        <5>1. Place(k-1)' = Place(k) /\ Place(k) # tail
          BY <2>1, <4>4 DEF Push, Place, NextSlot
        <5>2. Contents[k+1] = records[Place(k)] /\ Contents[k+1] \in Record
          <6>1. k \in 0 .. count-1
            BY <2>1, <4>4 DEF Push
          <6> QED
            BY <6>1, ContentsAt
        <5> QED
          BY <2>1, <4>1, <5>1, <5>2 DEF Push
      <4> QED
        BY <3>2, <4>2, <4>3, <4>4, <2>1 DEF Push
    <3> QED
      BY <3>1, <3>2
  <2>2. CASE Pop
    <3>1. (tail = IF count = Capacity THEN head ELSE Place(count))'
      BY <2>2 DEF Pop, Place, NextSlot
    <3>2. ASSUME NEW k \in 1 .. count' PROVE Contents'[k] \in Record
      <4>1. Contents'[k] = records'[Place(k-1)']
        BY <3>2 DEF Contents
      <4>2. Place(k-1)' = Place(k)
        BY <2>2, <3>2 DEF Pop, Place, NextSlot
      <4>3. Contents[k+1] = records[Place(k)] /\ Contents[k+1] \in Record
        <5>1. k \in 0 .. count-1
          BY <2>2, <3>2 DEF Pop
        <5> QED
          BY <5>1, ContentsAt
      <4> QED
        BY <2>2, <4>1, <4>2, <4>3 DEF Pop
    <3> QED
      BY <3>1, <3>2
  <2>3. CASE Clear
    BY <2>3 DEF Clear, Place, Contents
  <2>4. CASE UNCHANGED vars
    BY <2>4 DEF vars, Place, Contents
  <2> QED
    BY <2>1, <2>2, <2>3, <2>4 DEF Next
<1> QED
  BY <1>1, <1>2, TypeCorrect, PTL DEF Spec

-----------------------------------------------------------------------------
\* A sequence is the function of its elements.
LEMMA SequenceIsFunction ==
  ASSUME NEW S, NEW s \in Seq(S), NEW n \in Nat, Len(s) = n
  PROVE  s = [k \in 1 .. n |-> s[k]]
OBVIOUS

\* The three operations on the contents.
LEMMA ContentsSeq ==
  ASSUME TypeOK, RingOK
  PROVE  Contents \in Seq(Record) /\ Len(Contents) = count
<1>1. Contents \in [1 .. count -> Record] /\ count \in Nat
  BY DEF TypeOK, RingOK, Contents
<1> QED
  BY <1>1 DEF Contents

LEMMA PushAppends ==
  ASSUME TypeOK, RingOK, RingOK', NEW r \in Record, Push(r), count < Capacity
  PROVE  Contents' = Append(Contents, r)
<1> DEFINE A == Append(Contents, r)
<1>1. count' = count + 1 /\ count \in Nat
  BY CapacityAssumption DEF Push, TypeOK
<1>2. /\ A \in Seq(Record) /\ Len(A) = count + 1
      /\ DOMAIN A = 1 .. count + 1
      /\ A[count + 1] = r
      /\ \A k \in 1 .. count : A[k] = Contents[k]
  BY ContentsSeq, <1>1
<1> HIDE DEF A
<1>3. ASSUME NEW k \in 1 .. count + 1 PROVE Contents'[k] = A[k]
  <2>1. Contents'[k] = records'[Place(k-1)']
    BY <1>1, <1>3 DEF Contents
  <2>2. CASE k = count + 1
    <3>1. Place(k-1)' = tail
      BY <1>1, <2>2, CapacityAssumption DEF Push, TypeOK, RingOK, Place, Slot
    <3> QED
      BY <1>2, <2>1, <2>2, <3>1 DEF Push, TypeOK
  <2>3. CASE k \in 1 .. count
    <3>1. Place(k-1)' = Place(k-1) /\ Place(k-1) # tail
      BY <2>3, CapacityAssumption DEF Push, TypeOK, RingOK, Place, Slot
    <3>2. Contents[k] = records[Place(k-1)]
      BY <2>3 DEF Contents
    <3> QED
      BY <1>2, <2>1, <2>3, <3>1, <3>2 DEF Push, TypeOK
  <2> QED
    BY <1>1, <1>3, <2>2, <2>3
<1>4. Contents' = [k \in 1 .. count + 1 |-> A[k]]
  BY <1>1, <1>3 DEF Contents
<1>5. A = [k \in 1 .. count + 1 |-> A[k]]
  BY <1>1, <1>2, SequenceIsFunction
<1> QED
  BY ZenonT(60), <1>2, <1>4, <1>5 DEF A

LEMMA PopIsTail ==
  ASSUME TypeOK, RingOK, Pop
  PROVE  /\ Contents # <<>> /\ Head(Contents) \in Record
         /\ Contents' = Tail(Contents)
<1> DEFINE T == Tail(Contents)
<1>1. count' = count - 1 /\ count \in Nat \ {0}
  BY DEF Pop, TypeOK
<1>2. /\ Contents # <<>> /\ Head(Contents) \in Record
      /\ T \in Seq(Record) /\ Len(T) = count - 1
      /\ DOMAIN T = 1 .. count - 1
      /\ \A k \in 1 .. count - 1 : T[k] = Contents[k + 1]
  BY ContentsSeq, <1>1
<1> HIDE DEF T
<1>3. ASSUME NEW k \in 1 .. count - 1 PROVE Contents'[k] = T[k]
  <2>1. Contents'[k] = records'[Place(k-1)']
    BY <1>1, <1>3 DEF Contents
  <2>2. Place(k-1)' = Place(k)
    BY <1>3, CapacityAssumption DEF Pop, TypeOK, Place, NextSlot, Slot
  <2>3. k \in 0 .. count - 1
    BY <1>1, <1>3
  <2>4. Contents[k+1] = records[Place(k)]
    BY <2>3, ContentsAt
  <2> QED
    BY <1>2, <1>3, <2>1, <2>2, <2>4 DEF Pop
<1>4. Contents' = [k \in 1 .. count - 1 |-> T[k]]
  BY <1>1, <1>3 DEF Contents
<1>5. T = [k \in 1 .. count - 1 |-> T[k]]
  BY <1>1, <1>2, SequenceIsFunction
<1> QED
  BY <1>2, <1>4, <1>5 DEF T

LEMMA PushOverflows ==
  ASSUME TypeOK, RingOK, NEW r \in Record, Push(r), count = Capacity
  PROVE  Contents' = Append(Tail(Contents), r)
<1> DEFINE A == Append(Tail(Contents), r)
<1>1. count' = count /\ count \in Nat \ {0}
  BY CapacityAssumption DEF Push, TypeOK
<1>2. /\ A \in Seq(Record) /\ Len(A) = count
      /\ DOMAIN A = 1 .. count
      /\ A[count] = r
      /\ \A k \in 1 .. count - 1 : A[k] = Contents[k + 1]
  <2>1. /\ Tail(Contents) \in Seq(Record) /\ Len(Tail(Contents)) = count - 1
        /\ \A k \in 1 .. count - 1 : Tail(Contents)[k] = Contents[k + 1]
    BY ContentsSeq, <1>1
  <2> QED
    BY <1>1, <2>1
<1> HIDE DEF A
<1>3. ASSUME NEW k \in 1 .. count PROVE Contents'[k] = A[k]
  <2>1. Contents'[k] = records'[Place(k-1)']
    BY <1>1, <1>3 DEF Contents
  <2>2. CASE k = count
    <3>1. Place(k-1)' = tail
      BY <1>1, <2>2, CapacityAssumption
         DEF Push, TypeOK, RingOK, Place, NextSlot, Slot
    <3> QED
      BY <1>2, <2>1, <2>2, <3>1 DEF Push, TypeOK
  <2>3. CASE k \in 1 .. count - 1
    <3>1. Place(k-1)' = Place(k) /\ Place(k) # tail
      BY <2>3, CapacityAssumption DEF Push, TypeOK, RingOK, Place, NextSlot, Slot
    <3>2. k \in 0 .. count - 1
      BY <1>1, <2>3
    <3>3. Contents[k+1] = records[Place(k)]
      BY <3>2, ContentsAt
    <3> QED
      BY <1>2, <2>1, <2>3, <3>1, <3>3 DEF Push, TypeOK
  <2> QED
    BY <1>1, <1>3, <2>2, <2>3
<1>4. Contents' = [k \in 1 .. count |-> A[k]]
  BY <1>1, <1>3 DEF Contents
<1>5. A = [k \in 1 .. count |-> A[k]]
  BY <1>1, <1>2, SequenceIsFunction
<1> QED
  BY <1>2, <1>4, <1>5 DEF A

\* Every step of the ring is a step of the bounded queue or leaves it alone.
THEOREM RingImplementsQueue == Spec => Implements
<1> USE DEF Abstract!QNext, Abstract!QPush, Abstract!QPop, Abstract!QClear,
            Abstract!qvars
<1>1. Init => Abstract!QInit
  BY DEF Init, Abstract!QInit, Contents
<1>2. TypeOK /\ RingOK /\ RingOK' /\ [Next]_vars
        => [Abstract!QNext]_(Abstract!qvars)
  <2> SUFFICES ASSUME TypeOK, RingOK, RingOK', [Next]_vars
               PROVE  Abstract!QNext \/ UNCHANGED Abstract!qvars
    OBVIOUS
  <2>0. Len(Contents) = count /\ count <= Capacity
    BY ContentsSeq, CapacityAssumption DEF TypeOK
  <2>1. ASSUME NEW r \in Record, Push(r), count < Capacity PROVE Abstract!QNext
    <3>1. Contents' = Append(Contents, r)
      BY <2>1, PushAppends
    <3>2. UNCHANGED dropped
      BY <2>1, CapacityAssumption DEF Push, TypeOK
    <3> QED
      BY <2>0, <2>1, <3>1, <3>2
  <2>2. ASSUME NEW r \in Record, Push(r), count = Capacity PROVE Abstract!QNext
    BY ZenonT(60), <2>0, <2>2, PushOverflows DEF Push
  <2>3. CASE Pop
    BY <2>3, PopIsTail DEF Pop
  <2>4. CASE Clear
    BY <2>4 DEF Clear, Contents
  <2>5. CASE UNCHANGED vars
    BY <2>5 DEF vars, Contents, Place
  <2> QED
    BY <2>1, <2>2, <2>3, <2>4, <2>5, CapacityAssumption DEF Next, TypeOK
<1> QED
  BY <1>1, <1>2, TypeCorrect, RingInvariant, PTL DEF Spec, Implements, Abstract!QSpec

-----------------------------------------------------------------------------
(***************************************************************************)
(* What a step of the runtime does to the thread program.  Every step is   *)
(* one of its native functions, a tick, the passing of its duration, or    *)
(* leaves it alone; publishing pushes a record of the current run.         *)
(***************************************************************************)
Published == \E r \in {run, run + 2} : Push(r)

Elapsing == UNCHANGED <<vars, kind, conf, running, lastPopped, changeVars, riseVars, run, apart>>

ThreadMove == (\E args : call(args)) \/ stop \/ popped \/ threadTick \/ Elapsing

LEMMA PerformMoves ==
  ASSUME NEW id, NEW args, perform(id, args)
  PROVE  ThreadMove
<1>1. CASE id = Id.START
  BY <1>1, SMTT(60) DEF perform, ThreadMove
<1>2. CASE id # Id.START
  <2>1. stop \/ popped \/ UNCHANGED threadVars
    BY <1>2, SMTT(60) DEF perform, Id
  <2> QED
    BY <2>1, ZenonT(60) DEF ThreadMove, Elapsing, threadVars
<1> QED
  BY <1>1, <1>2

LEMMA ExecuteMoves == ASSUME executeOne PROVE ThreadMove
<1>1. (\E id, args : perform(id, args)) \/ UNCHANGED threadVars
  <2>1. CASE Operand(0) \in {32, 34}
    BY <2>1, ZenonT(60) DEF executeOne, syscall
  <2>2. CASE Operand(0) \notin {32, 34}
    BY <2>2, ZenonT(60) DEF executeOne
  <2> QED
    BY <2>1, <2>2
<1> QED
  BY <1>1, PerformMoves, ZenonT(60) DEF ThreadMove, Elapsing, threadVars

LEMMA DispatchMoves == ASSUME NEW f, dispatch(f) PROVE ThreadMove
<1>1. perform(f.id, f.args) \/ UNCHANGED threadVars
  BY ZenonT(60) DEF dispatch
<1> QED
  BY <1>1, PerformMoves, ZenonT(60) DEF ThreadMove, Elapsing, threadVars

LEMMA ThreadMoves == ASSUME [RuntimeNext]_runtimeVars PROVE ThreadMove
<1>1. CASE UNCHANGED threadVars
  BY <1>1, ZenonT(60) DEF ThreadMove, Elapsing, threadVars
<1>2. CASE tick
  BY <1>1, <1>2, ExecuteMoves, ZenonT(60) DEF tick
<1>3. CASE \E due \in BOOLEAN : services(due)
  BY <1>1, <1>3, ZenonT(60) DEF services, ThreadMove
<1>4. CASE transport
  BY <1>1, <1>4, DispatchMoves, ZenonT(60) DEF transport
<1>5. CASE elapse
  BY <1>5, ZenonT(60) DEF elapse, ThreadMove, Elapsing
<1>6. CASE boot \/ arrive \/ UNCHANGED runtimeVars
  BY <1>1, <1>6, ZenonT(60) DEF boot, arrive, runtimeVars
<1> QED
  BY <1>2, <1>3, <1>4, <1>5, <1>6, ZenonT(60) DEF RuntimeNext, loop

LEMMA PublishPushes == ASSUME publish PROVE Published
  BY ZenonT(60) DEF publish, Published

LEMMA DetectPublishes ==
  ASSUME NEW trigger, NEW quiet, detect(trigger, quiet)
  PROVE  Published \/ UNCHANGED vars
  BY PublishPushes, ZenonT(60) DEF detect, Unpublished

LEMMA TickPublishes ==
  ASSUME threadTick
  PROVE  (Published \/ UNCHANGED vars) /\ UNCHANGED <<kind, run, lastPopped>>
<1>1. ASSUME NEW v, NEW busy, changeStep(v, busy)
      PROVE  (Published \/ UNCHANGED vars) /\ UNCHANGED <<kind, run, lastPopped>>
  BY <1>1, DetectPublishes, ZenonT(60) DEF changeStep
<1>2. ASSUME NEW average, finishBucket(average) PROVE Published \/ UNCHANGED vars
  BY <1>2, DetectPublishes, ZenonT(60) DEF finishBucket
<1>3. ASSUME NEW v, riseStep(v)
      PROVE  (Published \/ UNCHANGED vars) /\ UNCHANGED <<kind, run, lastPopped>>
  BY <1>2, <1>3, ZenonT(60) DEF riseStep
<1>4. ASSUME NEW v, sampleStep(v)
      PROVE  (Published \/ UNCHANGED vars) /\ UNCHANGED <<kind, run, lastPopped>>
  BY <1>4, PublishPushes, ZenonT(60) DEF sampleStep
<1> QED
  BY <1>1, <1>3, <1>4, ZenonT(60) DEF threadTick

(***************************************************************************)
(* The runs of the thread alternate, so a record tells the run it is of.   *)
(***************************************************************************)
RunInv == run \in {1, 2}

LEMMA RunMoves == ASSUME RunInv, ThreadMove PROVE RunInv'
<1>1. ASSUME NEW args, call(args) PROVE RunInv'
  BY <1>1, SMTT(60) DEF call, RunInv
<1>2. CASE stop \/ popped \/ Elapsing
  BY <1>2, ZenonT(60) DEF stop, popped, Elapsing, RunInv
<1>3. CASE threadTick
  BY <1>3, TickPublishes, ZenonT(60) DEF RunInv
<1> QED
  BY <1>1, <1>2, <1>3, ZenonT(60) DEF ThreadMove

LEMMA RecordsOfRun ==
  ASSUME RunInv, NEW r \in {run, run + 2}
  PROVE  r \in Record /\ RunOf(r) = run
  BY RecordAssumption, SMTT(60) DEF RunInv, RunOf

\* A step of the runtime is a step of the queue, or leaves it alone.
LEMMA QueueMoves == ASSUME RunInv, ThreadMove PROVE [Next]_vars
<1>1. Published => Next
  BY RecordsOfRun, ZenonT(60) DEF Published, Next
<1>2. CASE threadTick
  BY <1>1, <1>2, TickPublishes
<1>3. ASSUME NEW args, call(args) PROVE Next
  BY <1>3, ZenonT(60) DEF call, Next
<1>4. CASE stop \/ popped \/ Elapsing
  BY <1>4, ZenonT(60) DEF stop, popped, Elapsing, Next
<1> QED
  BY <1>2, <1>3, <1>4, ZenonT(60) DEF ThreadMove

\* Runs are numbered 1 and 2 in turn by the call that starts a thread, so that a
\* record of the run before can be told from one of the current run.
THEOREM RunsAlternate == RuntimeSpec => []RunInv
<1>1. RuntimeInit => RunInv
  BY DEF RuntimeInit, ThreadInit, RunInv
<1>2. RunInv /\ [RuntimeNext]_runtimeVars => RunInv'
  BY ThreadMoves, RunMoves
<1> QED
  BY <1>1, <1>2, PTL DEF RuntimeSpec

\* The runtime drives its queue only through push, pop and clear.
THEOREM RuntimeUsesQueue == RuntimeSpec => Spec
<1>1. RuntimeInit => Init
  BY DEF RuntimeInit, ThreadInit
<1>2. RunInv /\ [RuntimeNext]_runtimeVars => [Next]_vars
  BY ThreadMoves, QueueMoves
<1> QED
  BY <1>1, <1>2, RunsAlternate, PTL DEF RuntimeSpec, Spec

\* What VM programs and hosts see of a thread's results is the bounded queue
\* that PROGRAM_MODEL.md promises, whatever they call and in which order.
THEOREM RuntimeImplementsQueue == RuntimeSpec => Implements
  BY RuntimeUsesQueue, RingImplementsQueue, PTL

-----------------------------------------------------------------------------
(***************************************************************************)
(* Results are fresh.                                                      *)
(***************************************************************************)
LEMMA PublishedFresh ==
  ASSUME TypeOK, RingOK, TypeOK', RingOK', RunInv, FreshResults, Published,
         UNCHANGED <<run, lastPopped>>
  PROVE  FreshResults'
<1>1. PICK r \in {run, run + 2} : Push(r)
  BY DEF Published
<1>2. r \in Record /\ RunOf(r) = run
  BY RecordsOfRun
<1>3. Contents \in Seq(Record) /\ Len(Contents) = count /\ count \in 0 .. Capacity
  BY ContentsSeq DEF TypeOK
<1>4. \A k \in 1 .. count : RunOf(Contents[k]) = run
  BY DEF FreshResults
<1> DEFINE c == Contents
<1>5. CASE count < Capacity
  <2>1. Contents' = Append(c, r) /\ count' = count + 1
    <3>1. count' = count + 1
      BY <1>1, <1>3, <1>5, CapacityAssumption, SMTT(60) DEF Push
    <3> QED
      BY <1>1, <1>2, <1>5, <3>1, PushAppends, ZenonT(60)
  <2>2. \A k \in 1 .. count + 1 : Append(c, r)[k] = IF k <= count THEN c[k] ELSE r
    <3> HIDE DEF c
    <3> QED
      BY <1>2, <1>3, SMTT(60) DEF c
  <2>3. \A k \in 1 .. count' : RunOf(Contents'[k]) = run
    <3> HIDE DEF c
    <3> SUFFICES ASSUME NEW k \in 1 .. count + 1 PROVE RunOf(Append(c, r)[k]) = run
      BY <2>1, ZenonT(60)
    <3>1. CASE k <= count
      BY <1>3, <1>4, <2>2, <3>1, SMTT(60) DEF c
    <3>2. CASE ~(k <= count)
      BY <1>2, <2>2, <3>2, ZenonT(60)
    <3> QED
      BY <3>1, <3>2, ZenonT(60)
  <2> QED
    BY <2>3, ZenonT(60) DEF FreshResults, RunOf
<1>6. CASE count = Capacity
  <2>1. Contents' = Append(Tail(c), r) /\ count' = count
    <3>1. count' = count
      BY <1>1, <1>6, SMTT(60) DEF Push
    <3> QED
      BY <1>1, <1>2, <1>6, <3>1, PushOverflows, ZenonT(60)
  <2>2. \A k \in 1 .. count : Append(Tail(c), r)[k] = IF k <= count - 1 THEN c[k + 1] ELSE r
    <3> HIDE DEF c
    <3> QED
      BY <1>2, <1>3, <1>6, CapacityAssumption, SMTT(60) DEF c
  <2>3. \A k \in 1 .. count' : RunOf(Contents'[k]) = run
    <3> HIDE DEF c
    <3> SUFFICES ASSUME NEW k \in 1 .. count PROVE RunOf(Append(Tail(c), r)[k]) = run
      BY <2>1, ZenonT(60)
    <3>1. CASE k <= count - 1
      <4>1. k + 1 \in 1 .. count
        BY <1>3, <3>1, SMTT(60)
      <4> QED
        BY <1>4, <2>2, <3>1, <4>1, ZenonT(60) DEF c
    <3>2. CASE ~(k <= count - 1)
      BY <1>2, <2>2, <3>2, ZenonT(60)
    <3> QED
      BY <3>1, <3>2, ZenonT(60)
  <2> QED
    BY <2>3, ZenonT(60) DEF FreshResults, RunOf
<1>7. count < Capacity \/ count = Capacity
  BY <1>3, CapacityAssumption, SMTT(60)
<1> QED
  BY <1>5, <1>6, <1>7, ZenonT(60)

LEMMA PoppedFresh ==
  ASSUME TypeOK, RingOK, FreshResults, popped
  PROVE  FreshResults'
<1>1. CASE UNCHANGED <<vars, lastPopped>>
  <2>1. Contents' = Contents
    BY <1>1, ZenonT(60) DEF vars, Contents, Place
  <2> QED
    BY <1>1, <2>1, ZenonT(60) DEF FreshResults, popped, vars, RunOf
<1>2. CASE Pop /\ lastPopped' = records[head]
  <2>1. Contents' = Tail(Contents) /\ count' = count - 1 /\ count \in Nat \ {0}
    BY <1>2, PopIsTail, SMTT(60) DEF Pop, TypeOK
  <2>2. records[head] = Contents[1]
    <3>1. 0 \in 0 .. count - 1 /\ 0 + 1 = 1
      BY <2>1, SMTT(60)
    <3>2. Contents[1] = records[Place(0)]
      BY <3>1, ContentsAt
    <3>3. Place(0) = head
      BY CapacityAssumption, SMTT(60) DEF Place, TypeOK, Slot
    <3> QED
      BY <3>2, <3>3, ZenonT(60)
  <2>3. RunOf(Contents[1]) = run
    BY <2>1, SMTT(60) DEF FreshResults
  <2>4. ASSUME NEW k \in 1 .. count - 1 PROVE RunOf(Tail(Contents)[k]) = run
    <3>1. Contents \in Seq(Record) /\ Len(Contents) = count
      BY ContentsSeq
    <3> DEFINE c == Contents
    <3>2. Tail(c)[k] = c[k + 1] /\ k + 1 \in 1 .. count
      <4> HIDE DEF c
      <4> QED
        BY <2>1, <2>4, <3>1, SMTT(60) DEF c
    <3> QED
      BY <3>2, ZenonT(60) DEF FreshResults
  <2> QED
    BY <1>2, <2>1, <2>2, <2>3, <2>4, ZenonT(60) DEF FreshResults, popped, RunOf
<1> QED
  BY <1>1, <1>2, ZenonT(60) DEF popped

LEMMA StaysFresh ==
  ASSUME TypeOK, RingOK, TypeOK', RingOK', RunInv, FreshResults, ThreadMove
  PROVE  FreshResults'
<1>1. CASE UNCHANGED <<vars, run, lastPopped>>
  <2>1. Contents' = Contents
    BY <1>1, ZenonT(60) DEF vars, Contents, Place
  <2> QED
    BY <1>1, <2>1, ZenonT(60) DEF FreshResults, vars, RunOf
<1>2. CASE stop \/ Elapsing
  BY <1>1, <1>2, ZenonT(60) DEF stop, Elapsing
<1>3. CASE threadTick
  BY <1>1, <1>3, TickPublishes, PublishedFresh, ZenonT(60)
<1>4. ASSUME NEW args, call(args) PROVE FreshResults'
  BY <1>4, SMTT(60) DEF call, Clear, FreshResults
<1> QED
  BY <1>2, <1>3, <1>4, PoppedFresh, ZenonT(60) DEF ThreadMove

(***************************************************************************)
(* What POP, POLL and FIELD return was published by the current run of the *)
(* thread, however START, STOP and POP of the VM and of a host interleave. *)
(***************************************************************************)
THEOREM ResultsAreFresh == RuntimeSpec => []FreshResults
<1>1. RuntimeInit => FreshResults
  BY SMTT(60) DEF RuntimeInit, ThreadInit, Init, FreshResults
<1>2. /\ TypeOK /\ RingOK /\ TypeOK' /\ RingOK' /\ RunInv /\ FreshResults
      /\ [RuntimeNext]_runtimeVars
      => FreshResults'
  BY ThreadMoves, StaysFresh
<1> QED
  BY <1>1, <1>2, RuntimeUsesQueue, TypeCorrect, RingInvariant, RunsAlternate, PTL DEF RuntimeSpec

-----------------------------------------------------------------------------
(***************************************************************************)
(* Events are REARM comparisons apart.  An armed detector has compared     *)
(* that often since its last event; one that is not armed has compared at  *)
(* least as often as it counts quiet comparisons in a row.                 *)
(***************************************************************************)
QuietInv ==
  /\ armed \in BOOLEAN
  /\ stable \in 0 .. REARM-1 /\ apart \in 0 .. REARM
  /\ armed => apart = REARM
  /\ ~armed => stable <= apart

Spaced == tail' # tail => apart = REARM

LEMMA DetectSpaced ==
  ASSUME QuietInv, NEW trigger, NEW quiet, detect(trigger, quiet)
  PROVE  QuietInv' /\ Spaced
<1> USE DetectorAssumption
<1>1. CASE ~armed
  <2>1. /\ apart' = IF apart < REARM THEN apart + 1 ELSE apart
        /\ tail' = tail
        /\ armed' = rearmed(quiet)
        /\ stable' = IF rearmed(quiet) THEN 0 ELSE Steadier(quiet)
    BY <1>1, ZenonT(60) DEF detect, Compared, Unpublished, vars
  <2>2. CASE rearmed(quiet)
    <3>1. armed' = TRUE
      BY <2>1, <2>2, ZenonT(60) DEF rearmed
    <3>2. stable + 1 >= REARM
      BY <2>2, SMTT(60) DEF rearmed, Steadier, QuietInv
    <3>3. stable' = 0 /\ apart' = REARM
      BY <1>1, <2>1, <2>2, <3>2, SMTT(60) DEF QuietInv
    <3> QED
      BY <2>1, <3>1, <3>3, SMTT(60) DEF QuietInv, Spaced
  <2>3. CASE ~rearmed(quiet)
    <3>1. armed' = FALSE
      <4>1. rearmed(quiet) \in BOOLEAN
        BY SMTT(60) DEF rearmed
      <4> QED
        BY <2>1, <2>3, <4>1, ZenonT(60)
    <3>2. stable' = Steadier(quiet) /\ Steadier(quiet) \in {0, stable + 1}
      BY <2>1, <2>3, ZenonT(60) DEF Steadier
    <3>3. stable' \in 0 .. REARM - 1
      BY <2>3, <3>2, SMTT(60) DEF rearmed, QuietInv
    <3>4. apart' \in 0 .. REARM /\ stable' <= apart'
      BY <1>1, <2>1, <3>2, <3>3, SMTT(60) DEF QuietInv
    <3> QED
      BY <2>1, <3>1, <3>3, <3>4, ZenonT(60) DEF QuietInv, Spaced
  <2> QED
    BY <2>2, <2>3
<1>2. CASE armed /\ trigger
  <2>1. armed' = FALSE /\ stable' = 0 /\ apart' = 0
    BY <1>2, ZenonT(60) DEF detect, Compared
  <2>2. 0 \in 0 .. REARM - 1 /\ 0 \in 0 .. REARM /\ 0 <= 0
    BY SMTT(60)
  <2> QED
    BY <1>2, <2>1, <2>2, ZenonT(60) DEF QuietInv, Spaced
<1>3. CASE armed /\ ~trigger
  <2>1. armed' = armed /\ stable' = stable /\ apart = REARM
        /\ apart' = IF apart < REARM THEN apart + 1 ELSE apart
    BY <1>3, ZenonT(60) DEF detect, Compared, QuietInv
  <2>2. apart' = apart
    BY <2>1, SMTT(60)
  <2> QED
    BY <2>1, <2>2, ZenonT(60) DEF QuietInv, Spaced
<1> QED
  BY <1>1, <1>2, <1>3

LEMMA MovesSpaced ==
  ASSUME RunInv, QuietInv, ThreadMove
  PROVE  QuietInv' /\ (kind # "sample" /\ run' = run => Spaced)
<1> USE DetectorAssumption
<1>1. ASSUME UNCHANGED <<tail, armed, stable, apart>> PROVE QuietInv' /\ Spaced
  BY <1>1, ZenonT(60) DEF QuietInv, Spaced
<1>2. ASSUME UNCHANGED <<vars, armed, stable, apart>> PROVE QuietInv' /\ Spaced
  BY <1>1, <1>2, ZenonT(60) DEF vars
<1>3. ASSUME NEW v, NEW busy, changeStep(v, busy) PROVE QuietInv' /\ Spaced
  <2>1. \/ UNCHANGED <<vars, armed, stable, apart>>
        \/ \E trigger, quiet : detect(trigger, quiet)
    BY <1>3, ZenonT(60) DEF changeStep, changeVars
  <2> QED
    BY <1>2, <2>1, DetectSpaced, ZenonT(60)
<1>4. ASSUME NEW v, riseStep(v) PROVE QuietInv' /\ Spaced
  <2>1. ASSUME NEW average, finishBucket(average)
        PROVE  \/ UNCHANGED <<vars, armed, stable, apart>>
               \/ \E trigger, quiet : detect(trigger, quiet)
    BY <2>1, ZenonT(60) DEF finishBucket
  <2>2. \/ UNCHANGED <<vars, armed, stable, apart>>
        \/ \E trigger, quiet : detect(trigger, quiet)
    BY <1>4, <2>1, ZenonT(60) DEF riseStep
  <2> QED
    BY <1>2, <2>2, DetectSpaced, ZenonT(60)
<1>5. ASSUME NEW v, sampleStep(v) PROVE QuietInv' /\ kind = "sample"
  BY <1>5, ZenonT(60) DEF sampleStep, changeVars, QuietInv
<1>6. CASE threadTick
  BY <1>3, <1>4, <1>5, <1>6, ZenonT(60) DEF threadTick
<1>7. CASE stop \/ Elapsing
  BY <1>2, <1>7, ZenonT(60) DEF stop, Elapsing, changeVars
<1>8. CASE popped
  BY <1>1, <1>8, ZenonT(60) DEF popped, Pop, changeVars, vars
<1>9. ASSUME NEW args, call(args) PROVE QuietInv' /\ run' # run
  <2>1. run' # run
    BY <1>9, SMTT(60) DEF call, RunInv
  <2>2. armed' = TRUE /\ stable' = 0 /\ apart' = REARM
    BY <1>9, ZenonT(60) DEF call, onStart
  <2> QED
    BY <2>1, <2>2, SMTT(60) DEF QuietInv
<1> QED
  BY <1>6, <1>7, <1>8, <1>9, ZenonT(60) DEF ThreadMove

\* The state of a change detector: when it is armed, REARM comparisons have
\* passed since its last event, and it counts no more quiet ones than passed.
THEOREM DetectorInvariant == RuntimeSpec => []QuietInv
<1>1. RuntimeInit => QuietInv
  BY DetectorAssumption, SMTT(60) DEF RuntimeInit, ThreadInit, QuietInv
<1>2. RunInv /\ QuietInv /\ [RuntimeNext]_runtimeVars => QuietInv'
  BY ThreadMoves, MovesSpaced
<1> QED
  BY <1>1, <1>2, RunsAlternate, PTL DEF RuntimeSpec

(***************************************************************************)
(* Continuous motion is one event: two events of a run have at least REARM *)
(* comparisons between them, for every threshold, ratio and source.        *)
(***************************************************************************)
THEOREM EventsAreSpaced == RuntimeSpec => NoFlood
<1>1. RunInv /\ QuietInv /\ [RuntimeNext]_runtimeVars
        => [kind # "sample" /\ run' = run /\ tail' # tail => apart = REARM]_threadVars
  BY ThreadMoves, MovesSpaced DEF Spaced
<1> QED
  BY <1>1, RunsAlternate, DetectorInvariant, PTL DEF RuntimeSpec, NoFlood

-----------------------------------------------------------------------------
(***************************************************************************)
(* The self test.  A pending check is that of a probe still to be called,  *)
(* or of one registered as pending on failure.                             *)
(***************************************************************************)
TestMove == addProbe \/ finish \/ testProbe \/ testReport \/ UNCHANGED testVars

TestInv ==
  /\ plan \in Seq(Probe) /\ probes \in Seq(Probe) /\ Len(probes) <= MAX_PROBES
  /\ nextProbe \in 1 .. Len(probes) + 1
  /\ ~planReady => nextProbe = 1 /\ ~finished
  /\ finished => nextProbe > Len(probes)

Undecided(n) ==
  \E i \in 1 .. Len(probes) :
    probes[i].name = n /\ (probes[i].pendingOnFailure \/ i >= nextProbe)

PendingInv == \A n \in DOMAIN checks : checks[n] = "pending" => Undecided(n)

LEMMA TestMoves == ASSUME [RuntimeNext]_runtimeVars PROVE TestMove
<1>1. CASE boot \/ arrive \/ elapse \/ UNCHANGED runtimeVars
  BY <1>1, ZenonT(60) DEF boot, arrive, elapse, runtimeVars, TestMove
<1>2. CASE tick \/ transport
  BY <1>2, ZenonT(60) DEF tick, transport, TestMove
<1>3. CASE \E due \in BOOLEAN : services(due)
  BY <1>3, ZenonT(60) DEF services, testTick, TestMove
<1> QED
  BY <1>1, <1>2, <1>3, ZenonT(60) DEF RuntimeNext, loop

LEMMA TestInvMoves == ASSUME TestInv, TestMove PROVE TestInv'
<1> USE PlanAssumption DEF TestInv
<1>1. CASE addProbe
  <2>1. Head(plan) \in Probe /\ Tail(plan) \in Seq(Probe)
    BY <1>1, SMTT(60) DEF addProbe
  <2>2. CASE UNCHANGED probes
    BY <1>1, <2>1, <2>2, SMTT(60) DEF addProbe
  <2>3. CASE probes' = Append(probes, Head(plan)) /\ Len(probes) # MAX_PROBES
    BY <1>1, <2>1, <2>3, SMTT(60) DEF addProbe
  <2> QED
    BY <1>1, <2>2, <2>3, ZenonT(60) DEF addProbe
<1>2. CASE testProbe
  <2>1. nextProbe' \in {nextProbe, nextProbe + 1} /\ nextProbe <= Len(probes)
        /\ planReady /\ ~finished
    BY <1>2, ZenonT(60) DEF testProbe, probing, probe
  <2>2. UNCHANGED <<plan, planReady, finished, probes>>
    BY <1>2, ZenonT(60) DEF testProbe, probe
  <2> QED
    BY <2>1, <2>2, SMTT(60)
<1>3. CASE finish
  BY <1>3, ZenonT(60) DEF finish
<1>4. CASE testReport
  BY <1>4, ZenonT(60) DEF testReport
<1>5. CASE UNCHANGED testVars
  BY <1>5, ZenonT(60) DEF testVars
<1> QED
  BY <1>1, <1>2, <1>3, <1>4, <1>5, ZenonT(60) DEF TestMove

\* What a recorded check says of a name.
LEMMA RecordedAt ==
  ASSUME NEW name, NEW state, NEW n \in DOMAIN recorded(name, state)
  PROVE  /\ n = name => recorded(name, state)[n] = state
         /\ n # name => n \in DOMAIN checks /\ recorded(name, state)[n] = checks[n]
  BY ZenonT(60) DEF recorded

LEMMA PendingMoves ==
  ASSUME TestInv, PendingInv, TestMove
  PROVE  PendingInv'
<1> USE DEF TestInv
<1>1. ASSUME UNCHANGED <<checks, probes, nextProbe>> PROVE PendingInv'
  BY <1>1, ZenonT(60) DEF PendingInv, Undecided
<1>2. CASE finish \/ testReport \/ UNCHANGED testVars
  BY <1>1, <1>2, ZenonT(60) DEF finish, testReport, testVars
<1>3. CASE addProbe
  <2> DEFINE p == Head(plan)
  <2>1. p \in Probe
    BY <1>3, SMTT(60) DEF addProbe
  <2>2. CASE UNCHANGED <<checks, probes>>
    BY <1>1, <1>3, <2>2, ZenonT(60) DEF addProbe
  <2>3. CASE checks' = recorded(p.name, "pending") /\ probes' = Append(probes, p)
    <3> SUFFICES ASSUME NEW n \in DOMAIN checks', checks'[n] = "pending"
                 PROVE  Undecided(n)'
      BY ZenonT(60) DEF PendingInv
    <3>1. nextProbe = 1 /\ nextProbe' = 1
      BY <1>3, ZenonT(60) DEF addProbe
    <3> HIDE DEF p
    <3>2. /\ Len(probes') = Len(probes) + 1 /\ Len(probes) \in Nat
          /\ probes'[Len(probes) + 1] = p
          /\ \A i \in 1 .. Len(probes) : probes'[i] = probes[i]
      BY <2>1, <2>3, SMTT(60)
    <3>3. CASE n = p.name
      <4>1. Len(probes) + 1 \in 1 .. Len(probes') /\ Len(probes) + 1 >= nextProbe'
        BY <3>1, <3>2, SMTT(60)
      <4> QED
        BY <3>2, <3>3, <4>1, ZenonT(60) DEF Undecided
    <3>4. CASE n # p.name
      <4>1. n \in DOMAIN checks /\ checks[n] = "pending"
        <5>1. n \in DOMAIN recorded(p.name, "pending") /\ recorded(p.name, "pending")[n] = "pending"
          BY <2>3, ZenonT(60)
        <5> QED
          BY <3>4, <5>1, SMTT(60) DEF recorded
      <4>2. PICK i \in 1 .. Len(probes) : probes[i].name = n /\ (probes[i].pendingOnFailure \/ i >= nextProbe)
        BY <4>1, ZenonT(60) DEF PendingInv, Undecided
      <4>3. i \in 1 .. Len(probes') /\ i >= nextProbe'
        BY <3>1, <3>2, SMTT(60)
      <4> QED
        BY <3>2, <4>2, <4>3, ZenonT(60) DEF Undecided
    <3> QED
      BY <3>3, <3>4
  <2> QED
    BY <1>3, <2>2, <2>3, ZenonT(60) DEF addProbe
<1>4. CASE testProbe
  <2> DEFINE p == probes[nextProbe]
  <2>1. /\ nextProbe \in 1 .. Len(probes)
        /\ probes' = probes
    <3>1. nextProbe <= Len(probes) /\ probes' = probes
      BY <1>4, ZenonT(60) DEF testProbe, probing, probe
    <3> QED
      BY <3>1, SMTT(60)
  <2>2. PICK state \in {"ready", "disabled", "pending", "failed"} :
          /\ checks' = recorded(p.name, state)
          /\ state = "pending" => p.pendingOnFailure \/ nextProbe' = nextProbe
          /\ nextProbe' \in {nextProbe, nextProbe + 1}
    BY <1>4, ZenonT(60) DEF testProbe, probe
  <2> SUFFICES ASSUME NEW n \in DOMAIN checks', checks'[n] = "pending"
               PROVE  Undecided(n)'
    BY ZenonT(60) DEF PendingInv
  <2>3. CASE n = p.name
    <3>1. state = "pending"
      BY <2>2, <2>3, RecordedAt, ZenonT(60)
    <3>2. nextProbe' = nextProbe => nextProbe >= nextProbe'
      BY <2>1, SMTT(60)
    <3> QED
      BY <2>1, <2>2, <2>3, <3>1, <3>2, ZenonT(60) DEF Undecided
  <2>4. CASE n # p.name
    <3>1. n \in DOMAIN checks /\ checks[n] = "pending"
      BY <2>2, <2>4, RecordedAt, ZenonT(60)
    <3>2. PICK i \in 1 .. Len(probes) : probes[i].name = n /\ (probes[i].pendingOnFailure \/ i >= nextProbe)
      BY <3>1, ZenonT(60) DEF PendingInv, Undecided
    <3>3. i # nextProbe
      BY <2>4, <3>2, ZenonT(60)
    <3>4. i >= nextProbe => i >= nextProbe'
      BY <2>1, <2>2, <3>3, SMTT(60)
    <3> QED
      BY <2>1, <3>2, <3>4, ZenonT(60) DEF Undecided
  <2> QED
    BY <2>3, <2>4
<1> QED
  BY <1>2, <1>3, <1>4, ZenonT(60) DEF TestMove

\* NoobSelfTest goes through its registered probes and finishes after the last; a
\* check still pending is that of a probe to be called or of one that may stay so.
THEOREM SelfTestInvariant == RuntimeSpec => [](TestInv /\ PendingInv)
<1>1. RuntimeInit => TestInv
  BY PlanAssumption, SMTT(60) DEF RuntimeInit, testInit, TestInv
<1>2. RuntimeInit => PendingInv
  BY ZenonT(60) DEF RuntimeInit, testInit, PendingInv
<1>3. TestInv /\ PendingInv /\ [RuntimeNext]_runtimeVars => TestInv' /\ PendingInv'
  BY TestMoves, TestInvMoves, PendingMoves
<1> QED
  BY <1>1, <1>2, <1>3, PTL DEF RuntimeSpec

(***************************************************************************)
(* The report of the self test is final for every plan of probes, also     *)
(* when two probes share a name or some did not fit into the table.        *)
(***************************************************************************)
THEOREM ReportsAreFinal == RuntimeSpec => []ReportFinal
<1>1. TestInv /\ PendingInv => ReportFinal
  <2> SUFFICES ASSUME TestInv, PendingInv, finished,
                      NEW n \in DOMAIN checks, checks[n] = "pending"
               PROVE  \E i \in 1 .. Len(probes) : probes[i].name = n /\ probes[i].pendingOnFailure
    BY DEF ReportFinal
  <2>1. PICK i \in 1 .. Len(probes) : probes[i].name = n /\ (probes[i].pendingOnFailure \/ i >= nextProbe)
    BY ZenonT(60) DEF PendingInv, Undecided
  <2>2. ~(i >= nextProbe)
    BY SMTT(60) DEF TestInv
  <2> QED
    BY <2>1, <2>2
<1> QED
  BY <1>1, SelfTestInvariant, PTL

-----------------------------------------------------------------------------
(***************************************************************************)
(* The means of the rise detector.  The window of the last averages lies   *)
(* in the ring of buckets just before writeIndex, the oldest first.        *)
(***************************************************************************)
Before(i) == IF i < 0 THEN i + BUCKET_COUNT ELSE i

RingWindow(w, bs, i, filled) ==
  /\ w \in Seq(Nat) /\ Len(w) = filled
  /\ bs \in [0 .. BUCKET_COUNT-1 -> Nat]
  /\ i \in 0 .. BUCKET_COUNT-1 /\ filled \in 0 .. BUCKET_COUNT
  /\ \A k \in 1 .. filled : w[k] = bs[Before(i - filled + (k - 1))]

RiseInv ==
  /\ bucketSum \in Nat /\ bucketSamples \in 0 .. MaxSamples-1
  /\ RingWindow(window, buckets, writeIndex, filledBuckets)

\* finishBucket's changes, and where the next bucket goes
LaterSlot == IF writeIndex + 1 = BUCKET_COUNT THEN 0 ELSE writeIndex + 1
Filled == IF filledBuckets < BUCKET_COUNT THEN filledBuckets + 1 ELSE filledBuckets
WithBucket(average) == [buckets EXCEPT ![writeIndex] = average]
WithAverage(average) ==
  IF filledBuckets < BUCKET_COUNT THEN Append(window, average) ELSE Tail(Append(window, average))

LEMMA BucketCount == BUCKET_COUNT \in Nat \ {0} /\ HALF_BUCKETS \in Nat \ {0} /\ BUCKET_COUNT = 2 * HALF_BUCKETS
  BY DetectorAssumption, SMTT(60) DEF BUCKET_COUNT

\* One turn around the ring.
LEMMA RingIndex ==
  ASSUME NEW i \in 0 .. 2 * BUCKET_COUNT - 1
  PROVE  i % BUCKET_COUNT = Before(i - BUCKET_COUNT)
<1>1. CASE i < BUCKET_COUNT
  BY <1>1, BucketCount, SMTT(60) DEF Before
<1>2. CASE i >= BUCKET_COUNT
  BY <1>2, BucketCount, SMTT(60) DEF Before
<1> QED
  BY <1>1, <1>2, BucketCount, SMTT(60)

LEMMA AppendParts ==
  ASSUME NEW s \in Seq(Nat), NEW e \in Nat
  PROVE  /\ Append(s, e) \in Seq(Nat) /\ Len(Append(s, e)) = Len(s) + 1
         /\ Append(s, e)[Len(s) + 1] = e
         /\ \A k \in 1 .. Len(s) : Append(s, e)[k] = s[k]
  BY SMTT(60)

LEMMA TailParts ==
  ASSUME NEW s \in Seq(Nat), NEW n \in Nat, Len(s) = n + 1
  PROVE  /\ Tail(s) \in Seq(Nat) /\ Len(Tail(s)) = n
         /\ \A k \in 1 .. n : Tail(s)[k] = s[k + 1]
  BY SMTT(60)

LEMMA WindowMoves ==
  ASSUME RiseInv, NEW average \in Nat
  PROVE  RingWindow(WithAverage(average), WithBucket(average), LaterSlot, Filled)
<1> DEFINE w == WithAverage(average)
           bs == WithBucket(average)
<1> USE BucketCount
<1>1. /\ window \in Seq(Nat) /\ Len(window) = filledBuckets
      /\ buckets \in [0 .. BUCKET_COUNT-1 -> Nat]
      /\ writeIndex \in 0 .. BUCKET_COUNT-1 /\ filledBuckets \in 0 .. BUCKET_COUNT
      /\ \A k \in 1 .. filledBuckets : window[k] = buckets[Before(writeIndex - filledBuckets + (k - 1))]
  BY ZenonT(60) DEF RiseInv, RingWindow
<1>2. LaterSlot \in 0 .. BUCKET_COUNT-1 /\ Filled \in 0 .. BUCKET_COUNT
  BY <1>1, SMTT(60) DEF LaterSlot, Filled
<1>3. /\ bs \in [0 .. BUCKET_COUNT-1 -> Nat]
      /\ bs[writeIndex] = average
      /\ \A j \in 0 .. BUCKET_COUNT-1 : j # writeIndex => bs[j] = buckets[j]
  BY <1>1, SMTT(60) DEF WithBucket
<1>4. CASE filledBuckets < BUCKET_COUNT
  <2>1. w = Append(window, average) /\ Filled = filledBuckets + 1
    BY <1>4, ZenonT(60) DEF WithAverage, Filled
  <2> HIDE DEF w, bs
  <2>2. /\ w \in Seq(Nat) /\ Len(w) = Filled
        /\ w[filledBuckets + 1] = average
        /\ \A k \in 1 .. filledBuckets : w[k] = window[k]
    BY <1>1, <2>1, SMTT(60)
  <2>3. ASSUME NEW k \in 1 .. Filled PROVE w[k] = bs[Before(LaterSlot - Filled + (k - 1))]
    <3>1. CASE k = filledBuckets + 1
      <4>1. Before(LaterSlot - Filled + (k - 1)) = writeIndex
        BY <1>1, <2>1, <3>1, SMTT(60) DEF Before, LaterSlot
      <4> QED
        BY <1>3, <2>2, <3>1, <4>1, ZenonT(60)
    <3>2. CASE k # filledBuckets + 1
      <4>1. k \in 1 .. filledBuckets
        BY <1>1, <2>1, <3>2, SMTT(60)
      <4>2. /\ Before(LaterSlot - Filled + (k - 1)) = Before(writeIndex - filledBuckets + (k - 1))
            /\ Before(writeIndex - filledBuckets + (k - 1)) # writeIndex
            /\ Before(writeIndex - filledBuckets + (k - 1)) \in 0 .. BUCKET_COUNT-1
        BY <1>1, <1>4, <2>1, <4>1, SMTT(60) DEF Before, LaterSlot
      <4> QED
        BY <1>1, <1>3, <2>2, <4>1, <4>2, ZenonT(60)
    <3> QED
      BY <3>1, <3>2
  <2> QED
    BY <1>2, <1>3, <2>2, <2>3, ZenonT(60) DEF RingWindow, w, bs
<1>5. CASE filledBuckets = BUCKET_COUNT
  <2>1. w = Tail(Append(window, average)) /\ Filled = BUCKET_COUNT
    BY <1>5, SMTT(60) DEF WithAverage, Filled
  <2> HIDE DEF w, bs
  <2>2. /\ w \in Seq(Nat) /\ Len(w) = Filled
        /\ w[BUCKET_COUNT] = average
        /\ \A k \in 1 .. BUCKET_COUNT - 1 : w[k] = window[k + 1]
    <3> DEFINE v == Append(window, average)
    <3>1. /\ v \in Seq(Nat) /\ Len(v) = BUCKET_COUNT + 1
          /\ v[BUCKET_COUNT + 1] = average
          /\ \A k \in 1 .. BUCKET_COUNT : v[k] = window[k]
      <4>1. window \in Seq(Nat) /\ Len(window) = BUCKET_COUNT
        BY <1>1, <1>5, ZenonT(60)
      <4> QED
        BY <4>1, AppendParts
    <3>2. w = Tail(v)
      BY <2>1
    <3> HIDE DEF v
    <3>3. /\ w \in Seq(Nat) /\ Len(w) = BUCKET_COUNT
          /\ \A k \in 1 .. BUCKET_COUNT : w[k] = v[k + 1]
      BY <3>1, <3>2, TailParts, SMTT(60)
    <3>4. w[BUCKET_COUNT] = average
      BY <3>1, <3>3, SMTT(60)
    <3>5. ASSUME NEW k \in 1 .. BUCKET_COUNT - 1 PROVE w[k] = window[k + 1]
      <4>1. k \in 1 .. BUCKET_COUNT /\ k + 1 \in 1 .. BUCKET_COUNT
        BY <3>5, SMTT(60)
      <4> QED
        BY <3>1, <3>3, <4>1, ZenonT(60)
    <3> QED
      BY <2>1, <3>3, <3>4, <3>5, ZenonT(60)
  <2>3. ASSUME NEW k \in 1 .. Filled PROVE w[k] = bs[Before(LaterSlot - Filled + (k - 1))]
    <3>1. CASE k = BUCKET_COUNT
      <4>1. Before(LaterSlot - Filled + (k - 1)) = writeIndex
        BY <1>1, <2>1, <3>1, SMTT(60) DEF Before, LaterSlot
      <4> QED
        BY <1>3, <2>2, <3>1, <4>1, ZenonT(60)
    <3>2. CASE k # BUCKET_COUNT
      <4>1. k \in 1 .. BUCKET_COUNT - 1 /\ k + 1 \in 1 .. filledBuckets /\ (k + 1) - 1 = k
        BY <1>1, <1>5, <2>1, <3>2, SMTT(60)
      <4>2. /\ Before(LaterSlot - Filled + (k - 1)) = Before(writeIndex - filledBuckets + k)
            /\ Before(writeIndex - filledBuckets + k) # writeIndex
            /\ Before(writeIndex - filledBuckets + k) \in 0 .. BUCKET_COUNT-1
        <5>1. writeIndex \in 0 .. BUCKET_COUNT-1 /\ k \in 1 .. BUCKET_COUNT-1
          BY <1>1, <4>1, ZenonT(60)
        <5>2. Before(LaterSlot - BUCKET_COUNT + (k - 1)) = Before(writeIndex - BUCKET_COUNT + k)
          BY <5>1, SMTT(60) DEF Before, LaterSlot
        <5>3. /\ Before(writeIndex - BUCKET_COUNT + k) # writeIndex
              /\ Before(writeIndex - BUCKET_COUNT + k) \in 0 .. BUCKET_COUNT-1
          BY <5>1, SMTT(60) DEF Before
        <5> QED
          BY <1>5, <2>1, <5>2, <5>3, ZenonT(60)
      <4>3. window[k + 1] = buckets[Before(writeIndex - filledBuckets + k)]
        BY <1>1, <4>1, ZenonT(60)
      <4> QED
        BY <1>3, <2>2, <4>1, <4>2, <4>3, ZenonT(60)
    <3> QED
      BY <3>1, <3>2
  <2> QED
    BY <1>2, <1>3, <2>2, <2>3, ZenonT(60) DEF RingWindow, w, bs
<1>6. filledBuckets < BUCKET_COUNT \/ filledBuckets = BUCKET_COUNT
  BY <1>1, SMTT(60)
<1> QED
  BY <1>4, <1>5, <1>6, ZenonT(60)

\* The window and the means after a bucket has ended.
LEMMA FinishFollows ==
  ASSUME RiseInv, NEW average \in Nat, finishBucket(average)
  PROVE  RingWindow(window, buckets, writeIndex, filledBuckets)' /\ MeansFollowWindow'
<1> DEFINE w == WithAverage(average)
           bs == WithBucket(average)
           Half(n) == (SumFunction([o \in 0 .. HALF_BUCKETS-1 |-> w[n + o]])
                         + HALF_BUCKETS \div 2) \div HALF_BUCKETS
<1>1. /\ window \in Seq(Nat) /\ Len(window) = filledBuckets
      /\ writeIndex \in 0 .. BUCKET_COUNT-1 /\ filledBuckets \in 0 .. BUCKET_COUNT
  BY ZenonT(60) DEF RiseInv, RingWindow
<1>2. (writeIndex + 1) % BUCKET_COUNT = LaterSlot
  <2>1. CASE writeIndex + 1 = BUCKET_COUNT
    BY <2>1, BucketCount, SMTT(60) DEF LaterSlot
  <2>2. CASE writeIndex + 1 # BUCKET_COUNT
    BY <1>1, <2>2, BucketCount, SMTT(60) DEF LaterSlot
  <2> QED
    BY <2>1, <2>2
<1>3. Len(Append(window, average)) > BUCKET_COUNT <=> ~(filledBuckets < BUCKET_COUNT)
  BY <1>1, BucketCount, SMTT(60)
<1>4. /\ window' = w /\ buckets' = bs /\ writeIndex' = LaterSlot /\ filledBuckets' = Filled
      /\ mean' = IF Filled < BUCKET_COUNT THEN NoMean ELSE updateMeans(bs, LaterSlot)
  <2>1. window' = w
    BY <1>3, ZenonT(60) DEF finishBucket, WithAverage
  <2> QED
    BY <1>2, <2>1, ZenonT(60) DEF finishBucket, WithBucket, Filled
<1>5. RingWindow(w, bs, LaterSlot, Filled)
  BY WindowMoves
<1> HIDE DEF w, bs
<1>6. CASE Filled < BUCKET_COUNT
  <2>1. mean' = NoMean /\ Len(window') < BUCKET_COUNT
    BY <1>4, <1>5, <1>6, ZenonT(60) DEF RingWindow
  <2> QED
    BY <1>4, <1>5, <2>1, ZenonT(60) DEF RingWindow, MeansFollowWindow, NoMean, BUCKET_COUNT, Before
<1>7. CASE ~(Filled < BUCKET_COUNT)
  <2>1. Filled = BUCKET_COUNT /\ LaterSlot + 0 = LaterSlot /\ 0 + 1 = 1
    BY <1>1, <1>7, BucketCount, SMTT(60) DEF Filled, LaterSlot
  \* A half of a full window is a half of the ring, from the oldest bucket on.
  <2>2. \A from \in {0, HALF_BUCKETS} : \A j, first :
          j = LaterSlot + from /\ first = from + 1 => HalfMean(bs, j) = Half(first)
    <3>1. RingWindow(w, bs, LaterSlot, BUCKET_COUNT)
      BY <1>5, <2>1, ZenonT(60)
    <3> SUFFICES ASSUME NEW from \in {0, HALF_BUCKETS}, NEW j, j = LaterSlot + from,
                        NEW first, first = from + 1
                 PROVE  HalfMean(bs, j) = Half(first)
      BY ZenonT(60)
    <3>2. ASSUME NEW o \in 0 .. HALF_BUCKETS-1
          PROVE  bs[(j + o) % BUCKET_COUNT] = w[first + o]
      <4>1. LaterSlot \in 0 .. BUCKET_COUNT-1
        BY <3>1, ZenonT(60) DEF RingWindow
      <4>2. j + o \in 0 .. 2 * BUCKET_COUNT - 1
        BY <4>1, BucketCount, SMTT(60)
      <4>3. (j + o) % BUCKET_COUNT = Before((j + o) - BUCKET_COUNT)
        BY <4>2, RingIndex, ZenonT(60)
      <4>4. /\ first + o \in 1 .. BUCKET_COUNT
            /\ LaterSlot - BUCKET_COUNT + ((first + o) - 1) = (j + o) - BUCKET_COUNT
        BY <4>1, BucketCount, SMTT(60)
      <4>5. w[first + o] = bs[Before(LaterSlot - BUCKET_COUNT + ((first + o) - 1))]
        BY <3>1, <4>4, ZenonT(60) DEF RingWindow
      <4> QED
        BY <4>3, <4>4, <4>5, ZenonT(60)
    <3>3. [o \in 0 .. HALF_BUCKETS-1 |-> bs[(j + o) % BUCKET_COUNT]]
            = [o \in 0 .. HALF_BUCKETS-1 |-> w[first + o]]
      BY <3>2, ZenonT(60)
    <3> QED
      BY <3>3, ZenonT(60) DEF HalfMean
  <2> HIDE DEF Half
  <2>3. /\ HalfMean(bs, LaterSlot) = Half(1)
        /\ HalfMean(bs, LaterSlot + HALF_BUCKETS) = Half(HALF_BUCKETS + 1)
    BY <2>1, <2>2, ZenonT(60)
  <2>4. mean' = [older |-> Half(1), newer |-> Half(HALF_BUCKETS + 1)]
    BY <1>4, <1>7, <2>3, ZenonT(60) DEF updateMeans
  <2>5. ~(Len(window') < BUCKET_COUNT)
    BY <1>4, <1>5, <1>7, ZenonT(60) DEF RingWindow
  <2> QED
    BY <1>4, <1>5, <2>4, <2>5, ZenonT(60) DEF RingWindow, MeansFollowWindow, BUCKET_COUNT, Before, Half
<1> QED
  BY <1>6, <1>7

ThreadTypes ==
  /\ kind \in Kinds /\ running \in BOOLEAN
  /\ previous \in Levels[kind] \cup {None}

LEMMA TypesMove == ASSUME ThreadTypes, ThreadMove PROVE ThreadTypes'
<1>1. ASSUME NEW args, call(args) PROVE ThreadTypes'
  BY <1>1, ZenonT(60) DEF call, onStart, ThreadTypes
<1>2. CASE stop
  BY <1>2, ZenonT(60) DEF stop, changeVars, ThreadTypes
<1>3. CASE popped \/ Elapsing
  BY <1>3, ZenonT(60) DEF popped, Elapsing, changeVars, ThreadTypes
<1>4. ASSUME NEW v \in Levels[kind] \cup {Failure}, NEW busy \in BOOLEAN, changeStep(v, busy)
      PROVE  ThreadTypes'
  <2>1. previous' \in {None, previous, v} /\ UNCHANGED <<kind, running>>
    BY <1>4, ZenonT(60) DEF changeStep, changeVars
  <2>2. Failure = None
    BY DEF Failure, None
  <2> QED
    BY <2>1, <2>2, ZenonT(60) DEF ThreadTypes
<1>5. ASSUME NEW v, riseStep(v) PROVE ThreadTypes'
  BY <1>5, ZenonT(60) DEF riseStep, ThreadTypes
<1>6. ASSUME NEW v, sampleStep(v) PROVE ThreadTypes'
  <2>1. UNCHANGED <<kind, previous>>
    BY <1>6, ZenonT(60) DEF sampleStep, changeVars
  <2>2. running' \in {running, FALSE}
    BY <1>6, ZenonT(60) DEF sampleStep
  <2> QED
    BY <2>1, <2>2, ZenonT(60) DEF ThreadTypes
<1> QED
  BY <1>1, <1>2, <1>3, <1>4, <1>5, <1>6, ZenonT(60) DEF ThreadMove, threadTick

LEMMA RiseMoves ==
  ASSUME ThreadTypes, RiseInv, MeansFollowWindow, ThreadMove
  PROVE  RiseInv' /\ MeansFollowWindow'
<1>1. ASSUME UNCHANGED riseVars PROVE RiseInv' /\ MeansFollowWindow'
  BY <1>1, ZenonT(60) DEF riseVars, RiseInv, RingWindow, Before, MeansFollowWindow, BUCKET_COUNT
<1>2. ASSUME NEW args, call(args) PROVE RiseInv' /\ MeansFollowWindow'
  <2>1. /\ bucketSum' = 0 /\ bucketSamples' = 0 /\ window' = <<>> /\ buckets' = NoBuckets
        /\ writeIndex' = 0 /\ filledBuckets' = 0 /\ mean' = NoMean
    BY <1>2, ZenonT(60) DEF call, onStart
  <2>2. Len(window') < BUCKET_COUNT
    BY <2>1, BucketCount, SMTT(60)
  <2>3. MeansFollowWindow'
    BY <2>1, <2>2, ZenonT(60) DEF MeansFollowWindow, NoMean, BUCKET_COUNT
  <2>4. RiseInv'
    BY <2>1, BucketCount, DetectorAssumption, SMTT(60) DEF RiseInv, RingWindow, NoBuckets
  <2> QED
    BY <2>3, <2>4
<1>3. CASE stop \/ popped \/ Elapsing
  BY <1>1, <1>3, ZenonT(60) DEF stop, popped, Elapsing
<1>4. ASSUME NEW v, NEW busy, changeStep(v, busy) PROVE UNCHANGED riseVars
  BY <1>4, ZenonT(60) DEF changeStep
<1>5. ASSUME NEW v, sampleStep(v) PROVE UNCHANGED riseVars
  BY <1>5, ZenonT(60) DEF sampleStep
<1>6. ASSUME NEW v \in Levels[kind] \cup {Failure}, riseStep(v)
      PROVE  RiseInv' /\ MeansFollowWindow'
  <2>1. CASE UNCHANGED riseVars
    BY <1>1, <2>1
  <2>2. CASE ~UNCHANGED riseVars
    <3>1. v \in Nat
      BY <1>6, <2>2, LevelAssumption, ZenonT(60) DEF riseStep, ThreadTypes
    <3>2. bucketSum \in Nat /\ bucketSamples \in 0 .. MaxSamples-1
      BY DEF RiseInv
    <3>3. CASE UNCHANGED <<buckets, writeIndex, filledBuckets, mean, window>>
                 /\ bucketSum' = bucketSum + v /\ bucketSamples' = bucketSamples + 1
                 /\ bucketSamples + 1 < MaxSamples
      <4>1. bucketSum' \in Nat /\ bucketSamples' \in 0 .. MaxSamples-1
        BY <3>1, <3>2, <3>3, DetectorAssumption, SMTT(60)
      <4> QED
        BY <3>3, <4>1, ZenonT(60) DEF RiseInv, RingWindow, Before, MeansFollowWindow, BUCKET_COUNT
    <3>4. CASE finishBucket((bucketSum + v + (bucketSamples + 1) \div 2) \div (bucketSamples + 1))
                 /\ bucketSum' = 0 /\ bucketSamples' = 0
      <4> DEFINE average == (bucketSum + v + (bucketSamples + 1) \div 2) \div (bucketSamples + 1)
      <4>1. average \in Nat
        <5>1. bucketSamples + 1 \in Nat \ {0} /\ (bucketSamples + 1) \div 2 \in Nat
          BY <3>2, DetectorAssumption, SMTT(60)
        <5>2. bucketSum + v + (bucketSamples + 1) \div 2 \in Nat
          BY <3>1, <3>2, <5>1, SMTT(60)
        <5>3. \A x \in Nat, n \in Nat \ {0} : x \div n \in Nat
          BY SMTT(60)
        <5> QED
          BY <5>1, <5>2, <5>3, ZenonT(60)
      <4> HIDE DEF average
      <4>2. RingWindow(window, buckets, writeIndex, filledBuckets)' /\ MeansFollowWindow'
        BY <3>4, <4>1, FinishFollows, ZenonT(60) DEF average
      <4>3. 0 \in Nat /\ 0 \in 0 .. MaxSamples-1
        BY DetectorAssumption, SMTT(60)
      <4> QED
        BY <3>4, <4>2, <4>3, ZenonT(60) DEF RiseInv
    <3> QED
      BY <1>6, <2>2, <3>3, <3>4, ZenonT(60) DEF riseStep
  <2> QED
    BY <2>1, <2>2
<1> QED
  BY <1>1, <1>2, <1>3, <1>4, <1>5, <1>6, ZenonT(60) DEF ThreadMove, threadTick

\* The state of a native thread: the levels it compares are of its kind, and the
\* rise detector's ring holds the averages of its window, oldest first.
THEOREM ThreadInvariant == RuntimeSpec => [](ThreadTypes /\ RiseInv /\ MeansFollowWindow)
<1>1. RuntimeInit => ThreadTypes
  BY ZenonT(60) DEF RuntimeInit, ThreadInit, ThreadTypes
<1>2. RuntimeInit => RiseInv
  BY BucketCount, DetectorAssumption, SMTT(60) DEF RuntimeInit, ThreadInit, RiseInv, RingWindow, NoBuckets
<1>3. RuntimeInit => MeansFollowWindow
  <2> SUFFICES ASSUME RuntimeInit PROVE MeansFollowWindow
    OBVIOUS
  <2>1. window = <<>> /\ mean = NoMean
    BY ZenonT(60) DEF RuntimeInit, ThreadInit
  <2>2. Len(window) < BUCKET_COUNT
    BY <2>1, BucketCount, SMTT(60)
  <2> QED
    BY <2>1, <2>2, ZenonT(60) DEF MeansFollowWindow
<1>4. ThreadTypes /\ RiseInv /\ MeansFollowWindow /\ [RuntimeNext]_runtimeVars
        => ThreadTypes' /\ RiseInv' /\ MeansFollowWindow'
  BY ThreadMoves, TypesMove, RiseMoves
<1> QED
  BY <1>1, <1>2, <1>3, <1>4, PTL DEF RuntimeSpec

(***************************************************************************)
(* The detector compares the halves of the true last window, for every     *)
(* number of buckets and wherever the ring has wrapped.                    *)
(***************************************************************************)
THEOREM MeansAreOfWindow == RuntimeSpec => []MeansFollowWindow
  BY ThreadInvariant, PTL

-----------------------------------------------------------------------------
(***************************************************************************)
(* The machine.  Every instruction checks that its bytes are in the        *)
(* program before it uses them, so pc, stack and registers stay in range.  *)
(***************************************************************************)
LEMMA ProgramBytes ==
  ASSUME MachineOK
  PROVE  program \in Seq(0 .. 255) /\ Len(program) \in Nat /\ pc \in 0 .. Len(program)
<1>1. CASE program \in Programs
  <2> DEFINE Byte == 0 .. 255
  <2>1. program \in Seq(Byte)
    BY <1>1, ProgramAssumption, ZenonT(60)
  <2> HIDE DEF Byte
  <2>2. Len(program) \in Nat
    BY <2>1, SMTT(60)
  <2> QED
    BY <2>1, <2>2, ZenonT(60) DEF MachineOK, Byte
<1>2. CASE program = <<>>
  BY <1>2, SMTT(60) DEF MachineOK
<1> QED
  BY <1>1, <1>2 DEF MachineOK

LEMMA OperandByte ==
  ASSUME MachineOK, NEW i \in Nat, need(i + 1)
  PROVE  Operand(i) \in 0 .. 255
<1> DEFINE Byte == 0 .. 255
<1>1. program \in Seq(Byte) /\ Len(program) \in Nat /\ pc \in 0 .. Len(program)
  BY ProgramBytes
<1> HIDE DEF Byte
<1>2. pc + i + 1 \in 1 .. Len(program)
  BY <1>1, SMTT(60) DEF need
<1>3. program[pc + i + 1] \in Byte
  BY <1>1, <1>2, SMTT(60)
<1> QED
  BY <1>3, ZenonT(60) DEF Operand, Byte

LEMMA NeedLess ==
  ASSUME MachineOK, NEW n \in Nat, need(n), NEW m \in 0 .. n
  PROVE  need(m)
  BY ProgramBytes, SMTT(60) DEF need

LEMMA WrapWord == ASSUME NEW v \in Int PROVE Wrap(v) \in Words
<1> DEFINE h == Word \div 2
<1>1. h \in Int /\ Word \in Nat \ {0} /\ Word = 2 * h
  BY WordAssumption, SMTT(60)
<1>2. (v + h) % Word \in 0 .. Word-1
  BY <1>1, SMTT(60)
<1> HIDE DEF h
<1>3. ((v + h) % Word) - h \in -h .. h - 1
  BY <1>1, <1>2, SMTT(60)
<1> QED
  BY <1>3, ZenonT(60) DEF Wrap, Words, h

LEMMA WordsInt == Words \subseteq Int
  BY SMTT(60) DEF Words

LEMMA ZeroWord == 0 \in Words
<1>1. Wrap(0) \in Words
  BY WrapWord, SMTT(60)
<1> QED
  BY WordAssumption, SMTT(60) DEF Words

LEMMA StoreOK ==
  ASSUME MachineOK, NEW n \in Nat, need(n), NEW d \in Register, NEW v \in Words, store(n, d, v)
  PROVE  MachineOK'
<1>1. pc' \in 0 .. Len(program')
  BY ProgramBytes, SMTT(60) DEF need, store
<1>2. registers' \in [Register -> Words]
  BY ZenonT(60) DEF store, MachineOK
<1> QED
  BY <1>1, <1>2, ZenonT(60) DEF store, MachineOK, Words, Register

LEMMA GotoOK ==
  ASSUME MachineOK, NEW t \in 0 .. Len(program), goto(t)
  PROVE  MachineOK'
  BY ZenonT(60) DEF goto, MachineOK, Words, Register

Left == {"HALTED", "STOPPED", "FAULT"}

LEMMA LeaveOK ==
  ASSUME MachineOK, NEW to \in Left, leave(to)
  PROVE  MachineOK'
<1>1. pc' \in 0 .. Len(program') /\ returnStack' \in Seq(0 .. Len(program')) /\ Len(returnStack') <= CALL_DEPTH
  BY ProgramBytes, DepthAssumption, SMTT(60) DEF leave
<1>2. vmState' \in {"EMPTY", "READY", "RUNNING", "WAITING", "HALTED", "STOPPED", "FAULT"}
  BY ZenonT(60) DEF leave, Left
<1> QED
  BY <1>1, <1>2, ZenonT(60) DEF leave, MachineOK, Words, Register

LEMMA FaultOK == ASSUME MachineOK, fault PROVE MachineOK'
  BY LeaveOK, ZenonT(60) DEF fault, Left

LEMMA UnchangedOK == ASSUME MachineOK, UNCHANGED machineVars PROVE MachineOK'
  BY ZenonT(60) DEF machineVars, MachineOK, Words, Register

LEMMA Read16 ==
  ASSUME MachineOK, NEW i \in Nat, need(i + 2)
  PROVE  read16(i) \in Nat
<1>1. need(i + 1) /\ (i + 1) + 1 = i + 2 /\ i + 1 \in Nat
  BY NeedLess, SMTT(60)
<1>2. Operand(i) \in 0 .. 255 /\ Operand(i + 1) \in 0 .. 255
  BY <1>1, OperandByte
<1>3. \A a, b \in 0 .. 255 : a + 256 * b \in Nat
  BY SMTT(60)
<1> QED
  BY <1>2, <1>3, ZenonT(60) DEF read16

LEMMA ArithmeticOK ==
  ASSUME MachineOK, NEW op \in 3 .. 6, arithmetic(op)
  PROVE  MachineOK'
<1>1. CASE fault
  BY <1>1, FaultOK
<1>2. CASE ~fault
  <2> DEFINE a == registers[Operand(2)]
             b == registers[Operand(3)]
             v == CASE op = 3 -> a + b
                    [] op = 4 -> a - b
                    [] op = 5 -> a * b
                    [] op = 6 -> Quotient(a, b)
  <2>1. /\ need(4) /\ \A i \in 1 .. 3 : validRegister(Operand(i))
        /\ store(4, Operand(1), Wrap(v))
        /\ op = 6 => b # 0
    BY <1>2, ZenonT(60) DEF arithmetic
  <2>2. a \in Int /\ b \in Int /\ Operand(1) \in Register
    BY <2>1, WordsInt, SMTT(60) DEF MachineOK, validRegister
  <2> HIDE DEF a, b
  <2>3. op = 6 => Quotient(a, b) \in Int
    BY <2>1, <2>2, SMTT(60) DEF Quotient
  <2>4. v \in Int
    BY <2>2, <2>3, SMTT(60)
  <2> HIDE DEF v
  <2>5. Wrap(v) \in Words
    BY <2>4, WrapWord
  <2> QED
    BY <2>1, <2>2, <2>5, StoreOK
<1> QED
  BY <1>1, <1>2

LEMMA BranchOK ==
  ASSUME MachineOK, NEW op, branch(op)
  PROVE  MachineOK'
<1>1. CASE fault
  BY <1>1, FaultOK
<1>2. CASE ~fault
  <2>1. need(4) /\ (goto(pc + 4) \/ (goto(read16(2)) /\ ~(read16(2) >= Len(program))))
    BY <1>2, ZenonT(60) DEF branch
  <2>2. pc + 4 \in 0 .. Len(program)
    BY <2>1, ProgramBytes, SMTT(60) DEF need
  <2>3. read16(2) \in Nat
    BY <2>1, Read16, SMTT(60)
  <2>4. ~(read16(2) >= Len(program)) => read16(2) \in 0 .. Len(program)
    BY <2>3, ProgramBytes, SMTT(60)
  <2> QED
    BY <2>1, <2>2, <2>4, GotoOK, ZenonT(60)
<1> QED
  BY <1>1, <1>2

LEMMA CallOK == ASSUME MachineOK, callVm PROVE MachineOK'
<1>1. CASE fault
  BY <1>1, FaultOK
<1>2. CASE ~fault
  <2>1. /\ need(3) /\ ~(read16(1) >= Len(program)) /\ ~(Len(returnStack) >= CALL_DEPTH)
        /\ returnStack' = Append(returnStack, pc + 3) /\ pc' = read16(1)
        /\ UNCHANGED <<vmState, program, registers, memory>>
    BY <1>2, ZenonT(60) DEF callVm
  <2>2. read16(1) \in Nat
    BY <2>1, Read16, SMTT(60)
  <2>3. pc' \in 0 .. Len(program)
    BY <2>1, <2>2, ProgramBytes, SMTT(60)
  <2>4. pc + 3 \in 0 .. Len(program)
    BY <2>1, ProgramBytes, SMTT(60) DEF need
  <2>5. returnStack' \in Seq(0 .. Len(program)) /\ Len(returnStack') <= CALL_DEPTH
    <3>1. returnStack \in Seq(0 .. Len(program)) /\ Len(returnStack) < CALL_DEPTH
      BY <2>1, DepthAssumption, SMTT(60) DEF MachineOK
    <3> DEFINE S == 0 .. Len(program)
    <3> HIDE DEF S
    <3> QED
      BY <2>1, <2>4, <3>1, DepthAssumption, SMTT(60) DEF S
  <2> QED
    BY <2>1, <2>3, <2>5, ZenonT(60) DEF MachineOK, Words, Register
<1> QED
  BY <1>1, <1>2

LEMMA PrefixParts ==
  ASSUME NEW S, NEW s \in Seq(S), NEW n \in 0 .. Len(s)
  PROVE  SubSeq(s, 1, n) \in Seq(S) /\ Len(SubSeq(s, 1, n)) = n
  BY SMTT(60)

LEMMA ReturnOK == ASSUME MachineOK, returnVm PROVE MachineOK'
<1>1. CASE fault
  BY <1>1, FaultOK
<1>2. CASE ~fault
  <2> DEFINE S == 0 .. Len(program)
             m == Len(returnStack)
  <2>1. /\ returnStack # <<>> /\ pc' = returnStack[m]
        /\ returnStack' = SubSeq(returnStack, 1, m - 1)
        /\ UNCHANGED <<vmState, program, registers, memory>>
    BY <1>2, ZenonT(60) DEF returnVm
  <2>2. returnStack \in Seq(S) /\ m <= CALL_DEPTH
    BY DEF MachineOK
  <2> HIDE DEF S
  <2>3. m \in Nat \ {0}
    BY <2>1, <2>2, SMTT(60)
  <2>4. pc' \in S
    BY <2>1, <2>2, <2>3, SMTT(60)
  <2>5. SubSeq(returnStack, 1, m - 1) \in Seq(S) /\ Len(SubSeq(returnStack, 1, m - 1)) = m - 1
    <3>1. m - 1 \in 0 .. Len(returnStack)
      BY <2>3, SMTT(60)
    <3> QED
      BY <2>2, <3>1, PrefixParts, ZenonT(60)
  <2>6. Len(returnStack') <= CALL_DEPTH
    BY <2>1, <2>2, <2>3, <2>5, DepthAssumption, SMTT(60)
  <2> QED
    BY <2>1, <2>4, <2>5, <2>6, ZenonT(60) DEF MachineOK, Words, Register, S
<1> QED
  BY <1>1, <1>2

\* The oldest record of a queue that holds one.
LEMMA HeadRecord == ASSUME TypeOK, RingOK, count > 0 PROVE records[head] \in Record
<1>1. 0 \in 0 .. count - 1 /\ 0 + 1 = 1 /\ 1 \in 1 .. count
  BY SMTT(60) DEF TypeOK
<1>2. Contents[1] = records[Place(0)] /\ Contents[1] \in Record
  BY <1>1, ContentsAt DEF RingOK
<1>3. Place(0) = head
  BY CapacityAssumption, SMTT(60) DEF Place, TypeOK, Slot
<1> QED
  BY <1>2, <1>3, ZenonT(60)

PoppedType == lastPopped \in Record \cup {Blank}

\* What a successful native call returns is an integer.
LEMMA ValueInt ==
  ASSUME TypeOK, RingOK, PoppedType,
         NEW id, NEW args, NEW ascii, succeeds(id, args, ascii)
  PROVE  value(id) \in Int
<1>1. Record \subseteq Int
  BY RecordAssumption, SMTT(60)
<1>2. CASE id = Id.FIELD
  <2>1. lastPopped # Blank
    BY <1>2, SMTT(60) DEF succeeds, Id
  <2>2. lastPopped \in Int
    BY <1>1, <2>1 DEF PoppedType
  <2> QED
    BY <1>2, <2>2, SMTT(60) DEF value, Id, RunOf
<1>3. CASE id # Id.FIELD
  <2>1. value(id) \in {0, 1} \/ (count > 0 /\ value(id) = records[head])
    BY <1>3, ZenonT(60) DEF value
  <2>2. 0 \in Int /\ 1 \in Int
    OBVIOUS
  <2> QED
    BY <1>1, <2>1, <2>2, HeadRecord, ZenonT(60)
<1> QED
  BY <1>2, <1>3

LEMMA SyscallOK ==
  ASSUME MachineOK, TypeOK, RingOK, PoppedType, NEW op \in {32, 34}, syscall(op)
  PROVE  MachineOK'
<1>1. CASE fault
  BY <1>1, FaultOK
<1>2. CASE ~fault
  <2> DEFINE n == Operand(4)
             base == 5 + n
             size == IF op = 34 THEN base + 1 + Operand(base) ELSE base
             id == read16(2)
  <2>1. /\ need(5) /\ validRegister(Operand(1)) /\ need(base)
        /\ op = 34 => need(base + 1) /\ need(size)
        /\ \E args, ascii : succeeds(id, args, ascii)
        /\ store(size, Operand(1), Wrap(value(id)))
    BY <1>2, ZenonT(60) DEF syscall
  <2>2. n \in 0 .. 255
    BY <2>1, OperandByte, SMTT(60)
  <2>3. base \in Nat
    BY <2>2, SMTT(60)
  <2>4. op = 34 => Operand(base) \in 0 .. 255
    <3> HIDE DEF base
    <3> QED
      BY <2>1, <2>3, OperandByte
  <2>5. size \in Nat /\ need(size)
    <3>1. CASE op = 34
      BY <2>1, <2>3, <2>4, <3>1, SMTT(60)
    <3>2. CASE op # 34
      BY <2>1, <2>3, <3>2, ZenonT(60)
    <3> QED
      BY <3>1, <3>2
  <2> HIDE DEF size, id
  <2>6. Wrap(value(id)) \in Words
    BY <2>1, ValueInt, WrapWord, ZenonT(60)
  <2>7. Operand(1) \in Register
    BY <2>1 DEF validRegister
  <2> QED
    BY <2>1, <2>5, <2>6, <2>7, StoreOK, ZenonT(60)
<1> QED
  BY <1>1, <1>2

LEMMA MemoryOK ==
  ASSUME MachineOK, NEW op \in {48, 49}, op = Operand(0), memoryByte(op)
  PROVE  MachineOK'
<1>1. CASE fault
  BY <1>1, FaultOK
<1>2. CASE ~fault
  <2>1. need(3)
    BY <1>2, ZenonT(60) DEF memoryByte
  <2>2. program \in Programs
    <3>1. Len(<<>>) = 0
      OBVIOUS
    <3>2. Len(program) # 0
      BY <2>1, ProgramBytes, SMTT(60) DEF need
    <3> QED
      BY <3>1, <3>2, ZenonT(60) DEF MachineOK
  <2>3. pc + 1 \in 1 .. Len(program) - 2 /\ Operand(0) = program[pc + 1]
        /\ Operand(1) = program[(pc + 1) + 1] /\ Operand(2) = program[(pc + 1) + 2]
    BY <2>1, ProgramBytes, SMTT(60) DEF need, Operand
  <2>4. Operand(1) \in 0 .. 255 /\ Operand(2) \in 0 .. 255
    <3>1. need(2)
      BY <2>1, NeedLess, SMTT(60)
    <3> QED
      BY <2>1, <3>1, OperandByte, SMTT(60)
  <2>5. CASE op = 48
    <3>1. Operand(2) < MEMORY_BYTES
      BY <2>2, <2>3, <2>5, ProgramAssumption, ZenonT(60)
    <3>2. Operand(2) \in 0 .. MEMORY_BYTES-1
      BY <2>4, <3>1, DepthAssumption, SMTT(60)
    <3>3. memory[Operand(2)] \in Int
      <4>0. \A k \in 0 .. MEMORY_BYTES-1 : memory[k] \in 0 .. 255
        BY ZenonT(60) DEF MachineOK
      <4>1. memory[Operand(2)] \in 0 .. 255
        BY <3>2, <4>0, ZenonT(60)
      <4> QED
        BY <4>1, SMTT(60)
    <3>4. Operand(1) \in Register /\ store(3, Operand(1), Wrap(memory[Operand(2)]))
      BY <1>2, <2>5, ZenonT(60) DEF memoryByte, validRegister
    <3>5. Wrap(memory[Operand(2)]) \in Words
      BY <3>3, WrapWord
    <3> QED
      BY <2>1, <3>4, <3>5, StoreOK
  <2>6. CASE op = 49
    <3>1. Operand(1) < MEMORY_BYTES
      BY <2>2, <2>3, <2>6, ProgramAssumption, ZenonT(60)
    <3>2. Operand(1) \in 0 .. MEMORY_BYTES-1
      BY <2>4, <3>1, DepthAssumption, SMTT(60)
    <3>3. /\ Operand(2) \in Register
          /\ memory' = [memory EXCEPT ![Operand(1)] = registers[Operand(2)] % 256]
          /\ pc' = pc + 3
          /\ UNCHANGED <<vmState, program, registers, returnStack>>
      <4>1. op # 48
        BY <2>6
      <4> QED
        BY <1>2, <4>1, ZenonT(60) DEF memoryByte, validRegister
    <3>4. registers[Operand(2)] % 256 \in 0 .. 255
      <4>1. registers[Operand(2)] \in Int
        <5>1. registers[Operand(2)] \in Words
          BY <3>3, ZenonT(60) DEF MachineOK
        <5> QED
          BY <5>1, WordsInt, ZenonT(60)
      <4> QED
        BY <4>1, SMTT(60)
    <3>5. memory' \in [0 .. MEMORY_BYTES-1 -> 0 .. 255]
      BY <3>3, <3>4, ZenonT(60) DEF MachineOK
    <3>6. pc' \in 0 .. Len(program')
      BY <2>1, <3>3, ProgramBytes, SMTT(60) DEF need
    <3> QED
      BY <3>3, <3>5, <3>6, ZenonT(60) DEF MachineOK, Words, Register
  <2> QED
    BY <2>5, <2>6
<1> QED
  BY <1>1, <1>2

LEMMA InstructionOK ==
  ASSUME MachineOK, NEW op, op = Operand(0), instruction(op)
  PROVE  MachineOK'
<1>1. CASE fault
  BY <1>1, FaultOK
<1>2. CASE leave("HALTED")
  BY <1>2, LeaveOK, ZenonT(60) DEF Left
<1>3. CASE need(6) /\ validRegister(Operand(1)) /\ store(6, Operand(1), read32(2))
  <2>1. need(4)
    BY <1>3, NeedLess, SMTT(60)
  <2>2. read16(2) \in Nat /\ read16(4) \in Nat
    BY <1>3, <2>1, Read16, SMTT(60)
  <2>3. read16(2) + 65536 * read16(2 + 2) \in Int
    BY <2>2, SMTT(60)
  <2>4. read32(2) \in Words
    <3> DEFINE x == read16(2) + 65536 * read16(2 + 2)
    <3>1. read32(2) = Wrap(x)
      BY DEF read32
    <3> HIDE DEF x
    <3>2. x \in Int
      BY <2>3 DEF x
    <3> QED
      BY <3>1, <3>2, WrapWord
  <2> QED
    BY <1>3, <2>4, StoreOK DEF validRegister
<1>4. CASE need(3) /\ validRegister(Operand(1)) /\ validRegister(Operand(2))
             /\ store(3, Operand(1), registers[Operand(2)])
  <2>1. registers[Operand(2)] \in Words /\ Operand(1) \in Register
    BY <1>4 DEF validRegister, MachineOK
  <2> QED
    BY <1>4, <2>1, StoreOK
<1>5. CASE op \in 3 .. 6 /\ arithmetic(op)
  BY <1>5, ArithmeticOK
<1>6. CASE need(3) /\ ~(read16(1) >= Len(program)) /\ goto(read16(1))
  <2>1. read16(1) \in Nat
    BY <1>6, Read16, SMTT(60)
  <2>2. read16(1) \in 0 .. Len(program)
    BY <1>6, <2>1, ProgramBytes, SMTT(60)
  <2> QED
    BY <1>6, <2>2, GotoOK
<1>7. CASE branch(op) \/ callVm \/ returnVm
  BY <1>7, BranchOK, CallOK, ReturnOK
<1>8. CASE need(3) /\ vmState' = "WAITING" /\ pc' = pc + 3
             /\ UNCHANGED <<program, registers, memory, returnStack>>
  <2>1. pc' \in 0 .. Len(program')
    BY <1>8, ProgramBytes, SMTT(60) DEF need
  <2> QED
    BY <1>8, <2>1, ZenonT(60) DEF MachineOK, Words, Register
<1>9. CASE op \in {48, 49} /\ memoryByte(op)
  BY <1>9, MemoryOK
<1> QED
  BY <1>1, <1>2, <1>3, <1>4, <1>5, <1>6, <1>7, <1>8, <1>9, ZenonT(60) DEF instruction

LEMMA ExecuteOK ==
  ASSUME MachineOK, TypeOK, RingOK, PoppedType, executeOne
  PROVE  MachineOK'
<1>1. CASE Operand(0) \in {32, 34} /\ syscall(Operand(0))
  BY <1>1, SyscallOK
<1>2. CASE instruction(Operand(0))
  BY <1>2, InstructionOK
<1> QED
  BY <1>1, <1>2, FaultOK, ZenonT(60) DEF executeOne

LEMMA CleanOK ==
  ASSUME NEW p \in Programs \cup {<<>>}, NEW to \in {"EMPTY", "READY"},
         program' = p, vmState' = to, pc' = 0, returnStack' = <<>>,
         registers' = NoRegisters, memory' = NoMemory
  PROVE  MachineOK'
<1>1. Len(p) \in Nat
  <2>1. CASE p = <<>>
    BY <2>1, SMTT(60)
  <2>2. CASE p \in Programs
    <3> DEFINE Byte == 0 .. 255
    <3>1. p \in Seq(Byte)
      BY <2>2, ProgramAssumption, ZenonT(60)
    <3> HIDE DEF Byte
    <3> QED
      BY <3>1, SMTT(60)
  <2> QED
    BY <2>1, <2>2
<1>2. 0 \in 0 .. Len(p) /\ <<>> \in Seq(0 .. Len(p)) /\ Len(<<>>) <= CALL_DEPTH
  BY <1>1, DepthAssumption, SMTT(60)
<1>3. NoRegisters \in [Register -> Words]
  BY ZeroWord, ZenonT(60) DEF NoRegisters
<1>4. NoMemory \in [0 .. MEMORY_BYTES-1 -> 0 .. 255]
  BY SMTT(60) DEF NoMemory
<1> QED
  BY <1>2, <1>3, <1>4, ZenonT(60) DEF MachineOK, Words, Register

LEMMA DispatchOK ==
  ASSUME MachineOK, NEW f \in Frames, dispatch(f)
  PROVE  MachineOK'
<1>1. CASE f.command = "LOAD" /\ f.program # <<>> /\ load(f.program)
  <2>1. f.program \in Programs \cup {<<>>}
    <3>1. PICK c, i, a, t : \E p \in Programs \cup {<<>>} : f = Frame(c, p, i, a, t)
      BY ZenonT(60) DEF Frames, Plain
    <3>2. PICK p \in Programs \cup {<<>>} : f = Frame(c, p, i, a, t)
      BY <3>1
    <3>3. f.program = p
      BY <3>2, SMTT(60) DEF Frame
    <3> QED
      BY <3>3
  <2> QED
    BY <1>1, <2>1, CleanOK, UnchangedOK, ZenonT(60) DEF load
<1>2. CASE runVm
  <2>1. CASE UNCHANGED machineVars
    BY <2>1, UnchangedOK
  <2>2. CASE vmState' = "RUNNING" /\ pc' = 0 /\ returnStack' = <<>>
               /\ UNCHANGED <<program, registers, memory>>
    <3>1. pc' \in 0 .. Len(program') /\ returnStack' \in Seq(0 .. Len(program'))
          /\ Len(returnStack') <= CALL_DEPTH
      BY <2>2, ProgramBytes, DepthAssumption, SMTT(60)
    <3> QED
      BY <2>2, <3>1, ZenonT(60) DEF MachineOK, Words, Register
  <2> QED
    BY <1>2, <2>1, <2>2, ZenonT(60) DEF runVm
<1>3. CASE stopVm
  BY <1>3, LeaveOK, UnchangedOK, ZenonT(60) DEF stopVm, Left
<1>4. CASE reset
  BY <1>4, CleanOK, ZenonT(60) DEF reset
<1> QED
  BY <1>1, <1>2, <1>3, <1>4, UnchangedOK, ZenonT(60) DEF dispatch, machineVars

LEMMA MachineMoves ==
  ASSUME MachineOK, TypeOK, RingOK, PoppedType, [RuntimeNext]_runtimeVars
  PROVE  MachineOK'
<1>1. CASE UNCHANGED machineVars
  BY <1>1, UnchangedOK
<1>2. CASE tick
  <2>1. CASE vmState' = "RUNNING" /\ UNCHANGED <<program, pc, registers, memory, returnStack>>
    BY <2>1, ZenonT(60) DEF MachineOK, Words, Register
  <2> QED
    BY <1>1, <1>2, <2>1, ExecuteOK, ZenonT(60) DEF tick
<1>3. CASE transport
  BY <1>1, <1>3, DispatchOK, ZenonT(60) DEF transport
<1>4. CASE \E due \in BOOLEAN : services(due)
  BY <1>1, <1>4, ZenonT(60) DEF services
<1>5. CASE boot \/ arrive \/ elapse \/ UNCHANGED runtimeVars
  BY <1>1, <1>5, ZenonT(60) DEF boot, arrive, elapse, runtimeVars
<1> QED
  BY <1>2, <1>3, <1>4, <1>5, ZenonT(60) DEF RuntimeNext, loop

LEMMA PoppedMoves == ASSUME TypeOK, PoppedType, ThreadMove PROVE PoppedType'
<1>1. CASE UNCHANGED lastPopped
  BY <1>1 DEF PoppedType
<1>2. CASE popped
  <2>1. records[head] \in Record \cup {Blank}
    BY DEF TypeOK
  <2> QED
    BY <1>1, <1>2, <2>1, ZenonT(60) DEF popped, PoppedType
<1>3. ASSUME NEW args, call(args) PROVE PoppedType'
  BY <1>3, ZenonT(60) DEF call, PoppedType
<1> QED
  BY <1>1, <1>2, <1>3, TickPublishes, ZenonT(60) DEF ThreadMove, stop, Elapsing

LoopTypes == phase \in {"vm", "services", "transport"} /\ budget \in 0 .. BUDGET

LEMMA LoopMoves == ASSUME LoopTypes, [RuntimeNext]_runtimeVars PROVE LoopTypes'
<1> USE DEF LoopTypes
<1>0. BUDGET \in 0 .. BUDGET
  BY BudgetAssumption, SMTT(60)
<1>1. CASE tick
  <2>1. CASE UNCHANGED <<phase, budget>>
    BY <2>1
  <2>2. CASE UNCHANGED phase /\ budget > 0 /\ budget' = budget - 1
    <3>1. budget' \in 0 .. BUDGET
      BY <2>2, BudgetAssumption, SMTT(60)
    <3> QED
      BY <2>2, <3>1, ZenonT(60)
  <2>3. CASE phase' = "services" /\ budget' = BUDGET
    BY <1>0, <2>3, ZenonT(60)
  <2> QED
    BY <1>1, <2>1, <2>2, <2>3, ZenonT(60) DEF tick, Become
<1>2. CASE transport
  BY <1>2, ZenonT(60) DEF transport
<1>3. CASE \E due \in BOOLEAN : services(due)
  BY <1>3, ZenonT(60) DEF services, Become
<1>4. CASE boot \/ arrive \/ elapse \/ UNCHANGED runtimeVars
  BY <1>4, ZenonT(60) DEF boot, arrive, elapse, runtimeVars
<1> QED
  BY <1>1, <1>2, <1>3, <1>4, ZenonT(60) DEF RuntimeNext, loop

\* The byte-code machine stays within its types, whatever program is loaded and
\* whatever its native calls return: registers in range, no stack above its depth.
THEOREM MachineInvariant == RuntimeSpec => [](MachineOK /\ PoppedType /\ LoopTypes)
<1>1. RuntimeInit => MachineOK
  <2> SUFFICES ASSUME RuntimeInit PROVE MachineOK
    OBVIOUS
  <2>1. 0 \in 0 .. Len(<<>>) /\ <<>> \in Seq(0 .. Len(<<>>)) /\ Len(<<>>) <= CALL_DEPTH
    BY DepthAssumption, SMTT(60)
  <2>2. NoRegisters \in [Register -> Words]
    BY ZeroWord, ZenonT(60) DEF NoRegisters
  <2>3. NoMemory \in [0 .. MEMORY_BYTES-1 -> 0 .. 255]
    BY SMTT(60) DEF NoMemory
  <2> QED
    BY <2>1, <2>2, <2>3, ZenonT(60) DEF RuntimeInit, vmInit, MachineOK
<1>2. RuntimeInit => PoppedType
  BY DEF RuntimeInit, ThreadInit, PoppedType
<1>3. RuntimeInit => LoopTypes
  BY BudgetAssumption, SMTT(60) DEF RuntimeInit, LoopTypes
<1>4. /\ MachineOK /\ PoppedType /\ LoopTypes /\ TypeOK /\ RingOK
      /\ [RuntimeNext]_runtimeVars
      => MachineOK' /\ PoppedType' /\ LoopTypes'
  BY ThreadMoves, MachineMoves, PoppedMoves, LoopMoves
<1> QED
  BY <1>1, <1>2, <1>3, <1>4, RuntimeUsesQueue, TypeCorrect, RingInvariant, PTL DEF RuntimeSpec

(***************************************************************************)
(* Every variable of queue, machine, thread and loop keeps its type: no    *)
(* program of bytes, however it jumps into its own instructions, moves the *)
(* pc beyond its end, the stack beyond CALL_DEPTH or a register out of     *)
(* its width.                                                              *)
(***************************************************************************)
THEOREM RuntimeTypeCorrect == RuntimeSpec => []RuntimeTypeOK
<1>1. /\ TypeOK /\ MachineOK /\ PoppedType /\ LoopTypes /\ ThreadTypes /\ RiseInv
      /\ QuietInv /\ TestInv
      => RuntimeTypeOK
  <2> SUFFICES ASSUME TypeOK, MachineOK, PoppedType, LoopTypes, ThreadTypes, RiseInv,
                      QuietInv, TestInv
               PROVE  RuntimeTypeOK
    OBVIOUS
  <2>1. DOMAIN NoBuckets = 0 .. BUCKET_COUNT-1
    BY DEF NoBuckets
  <2> QED
    BY <2>1, ZenonT(60) DEF RuntimeTypeOK, PoppedType, LoopTypes, ThreadTypes, RiseInv, RingWindow, QuietInv, TestInv
<1> QED
  BY <1>1, RuntimeUsesQueue, TypeCorrect, MachineInvariant, ThreadInvariant, DetectorInvariant,
     SelfTestInvariant, PTL
-----------------------------------------------------------------------------
(***************************************************************************)
(* How long a frame waits.  The steps of the loop before the transport has *)
(* had its turn; the VM takes at most one more than its budget, when it    *)
(* enters a tick with a wait that is over.                                 *)
(***************************************************************************)
AheadAt(p, state, left) ==
  CASE p = "transport" -> 1
    [] p = "services" -> 2
    [] p = "vm" /\ state = "WAITING" /\ left = BUDGET -> left + 4
    [] OTHER -> left + 3

Ahead == AheadAt(phase, vmState, budget)

(***************************************************************************)
(* A frame that has arrived is taken within BUDGET + 4 steps of the loop,  *)
(* whatever program the VM runs: every step of the loop brings its turn    *)
(* closer, and nothing that happens between them puts it off.              *)
(***************************************************************************)
ServedInTime ==
  [][inbox =>
       /\ Ahead \in 1 .. BUDGET + 4
       /\ \/ ~inbox'
          \/ Ahead' <= Ahead /\ (loop => Ahead' < Ahead)]_runtimeVars

LEMMA AheadRange ==
  ASSUME NEW p \in {"vm", "services", "transport"}, NEW state, NEW left \in 0 .. BUDGET
  PROVE  /\ AheadAt(p, state, left) \in 1 .. BUDGET + 4
         /\ p = "vm" => AheadAt(p, state, left) =
                          IF state = "WAITING" /\ left = BUDGET THEN left + 4 ELSE left + 3
         /\ p = "services" => AheadAt(p, state, left) = 2
         /\ p = "transport" => AheadAt(p, state, left) = 1
<1>1. left \in Nat /\ BUDGET \in Nat /\ left <= BUDGET
  BY BudgetAssumption
<1>2. CASE p = "transport"
  <2>1. AheadAt(p, state, left) = 1
    BY <1>2 DEF AheadAt
  <2> QED
    BY <1>1, <1>2, <2>1
<1>3. CASE p = "services"
  <2>1. AheadAt(p, state, left) = 2
    BY <1>3 DEF AheadAt
  <2> QED
    BY <1>1, <1>3, <2>1
<1>4. CASE p = "vm"
  <2>1. AheadAt(p, state, left) = IF state = "WAITING" /\ left = BUDGET THEN left + 4 ELSE left + 3
    BY <1>4 DEF AheadAt
  <2> QED
    BY <1>1, <1>4, <2>1
<1> QED
  BY <1>2, <1>3, <1>4

LEMMA LoopIsShort ==
  ASSUME LoopTypes, LoopTypes', loop, inbox, inbox'
  PROVE  Ahead' < Ahead
<1>1. /\ Ahead' \in 1 .. BUDGET + 4
      /\ phase' = "vm" /\ (vmState' # "WAITING" \/ budget' # BUDGET) => Ahead' = budget' + 3
      /\ phase' = "services" => Ahead' = 2
      /\ phase' = "transport" => Ahead' = 1
  BY AheadRange, ZenonT(60) DEF LoopTypes, Ahead
<1>2. budget \in 0 .. BUDGET /\ budget' \in 0 .. BUDGET /\ BUDGET \in Nat
  BY BudgetAssumption, ZenonT(60) DEF LoopTypes
<1>3. /\ phase = "vm" => Ahead = IF vmState = "WAITING" /\ budget = BUDGET
                                  THEN budget + 4 ELSE budget + 3
      /\ phase = "services" => Ahead = 2
  BY AheadRange, ZenonT(60) DEF LoopTypes, Ahead
<1>4. CASE tick
  <2>1. phase = "vm"
    BY <1>4 DEF tick
  <2>2. CASE vmState = "WAITING" /\ budget = BUDGET /\ vmState' = "RUNNING"
             /\ UNCHANGED <<phase, budget>>
    BY <1>1, <1>2, <1>3, <2>1, <2>2
  <2>3. CASE vmState = "RUNNING" /\ budget' = budget - 1 /\ UNCHANGED phase
    BY <1>1, <1>2, <1>3, <2>1, <2>3
  <2>4. CASE phase' = "services"
    BY <1>1, <1>2, <1>3, <2>1, <2>4
  <2> QED
    BY <1>4, <2>2, <2>3, <2>4, ZenonT(60) DEF tick, Become
<1>5. CASE \E due \in BOOLEAN : services(due)
  <2>1. phase = "services" /\ phase' = "transport"
    BY <1>5, ZenonT(60) DEF services, Become
  <2> QED
    BY <1>1, <1>3, <2>1
<1>6. ~transport
  BY ZenonT(60) DEF transport
<1> QED
  BY <1>4, <1>5, <1>6, ZenonT(60) DEF loop

\* NoobRuntime::loop: the VM gives way after BUDGET instructions even if its
\* program never waits, the services take one step, then the transport is served.
THEOREM FramesAreServedInTime == RuntimeSpec => ServedInTime
<1>1. ASSUME LoopTypes, LoopTypes', [RuntimeNext]_runtimeVars, inbox
      PROVE  /\ Ahead \in 1 .. BUDGET + 4
             /\ \/ ~inbox'
                \/ Ahead' <= Ahead /\ (loop => Ahead' < Ahead)
  <2>1. Ahead \in 1 .. BUDGET + 4
    BY <1>1, AheadRange DEF LoopTypes, Ahead
  <2>2. Ahead' \in 1 .. BUDGET + 4
    BY <1>1, AheadRange, ZenonT(60) DEF LoopTypes, Ahead
  <2>3. BUDGET \in Nat
    BY BudgetAssumption
  <2>4. ASSUME loop, inbox' PROVE Ahead' < Ahead
    BY <1>1, <2>4, LoopIsShort
  <2>5. CASE loop
    BY <2>1, <2>2, <2>3, <2>4, <2>5
  <2>6. CASE boot \/ elapse \/ UNCHANGED runtimeVars
    <3>1. UNCHANGED <<phase, budget, vmState>>
      BY <2>6, ZenonT(60) DEF boot, elapse, runtimeVars, machineVars
    <3>2. Ahead' = Ahead
      BY <3>1, ZenonT(60) DEF Ahead
    <3> QED
      BY <2>1, <2>3, <2>4, <3>2
  <2>7. ~arrive
    BY <1>1 DEF arrive
  <2> QED
    BY <1>1, <2>5, <2>6, <2>7, ZenonT(60) DEF RuntimeNext
<1>2. LoopTypes /\ LoopTypes' /\ [RuntimeNext]_runtimeVars =>
        [inbox => /\ Ahead \in 1 .. BUDGET + 4
                  /\ \/ ~inbox'
                     \/ Ahead' <= Ahead /\ (loop => Ahead' < Ahead)]_runtimeVars
  BY <1>1
<1> QED
  BY <1>2, MachineInvariant, PTL DEF RuntimeSpec, ServedInTime
=============================================================================
