------------------------ MODULE SequenceServiceProofs ------------------------
(***************************************************************************)
(* Proofs about the sequencer, for any number of tracks, any patterns and  *)
(* intervals and any compiled sequences: whatever channels call, the busy  *)
(* bits and running agree, a tick reads only bits of the pattern, no       *)
(* channel is called before its interval has passed, and none skips more   *)
(* than the first bit of its pattern.                                      *)
(***************************************************************************)
EXTENDS SequenceService, TLAPS

\* The parts of TypeOK.
TracksOK ==
  /\ definition \in [Slot -> Definition \cup {Blank}]
  /\ active \subseteq Slot /\ channelBusy \subseteq Slot
FlagsOK ==
  running \in BOOLEAN /\ repeating \in BOOLEAN /\ ticking \in BOOLEAN /\ invoked \in BOOLEAN
PlaceOK ==
  position \in [Slot -> 0 .. MaxBits] /\ played \in [Slot -> 0 .. MaxBits] /\ cursor \in 0 .. Tracks
TimesOK ==
  /\ nextAt \in [Slot -> 0 .. Modulus - 1] /\ age \in [Slot -> 0 .. MaxInterval]
  /\ now \in 0 .. Modulus - 1 /\ tickNow \in 0 .. Modulus - 1

\* The sequencer runs while a channel is active; only a tick that has called
\* a channel may find none active and still running.
RunOK ==
  /\ channelBusy = active
  /\ active # {} => running
  /\ running /\ active = {} => ticking /\ invoked

\* An active channel has played all the bits before its position but at most
\* one.
PlayedOK ==
  \A s \in active : played[s] <= position[s] /\ position[s] <= played[s] + 1

\* A channel whose interval has not passed is not due, now or for the tick.
PaceOK ==
  \A s \in active : age[s] < definition[s].interval =>
    /\ Since(nextAt[s], now) = definition[s].interval - age[s]
    /\ ticking /\ cursor <= s => Since(nextAt[s], tickNow) \in 1 .. MaxInterval

Inv ==
  /\ TracksOK /\ FlagsOK /\ PlaceOK /\ TimesOK
  /\ RunOK /\ InPattern /\ PlayedOK /\ PaceOK

LEMMA Bounds ==
  /\ Tracks \in Nat /\ Tracks > 0 /\ MaxBits \in Nat /\ MaxBits > 0
  /\ MaxInterval \in Nat /\ MaxInterval > 0 /\ MaxInterval < Half
  /\ Half \in Nat /\ Modulus = 2 * Half /\ Modulus \in Nat
  /\ 0 \in 0 .. Modulus - 1 /\ MaxInterval \in 0 .. MaxInterval /\ 0 \in Slot
  BY BoundsAssumption DEF Modulus, Slot

\* What a slot is defined as, without the records.
LEMMA Defined ==
  ASSUME NEW d \in Definition \cup {Blank}
  PROVE  /\ d.interval \in 0 .. MaxInterval /\ d.bitCount \in 0 .. MaxBits
         /\ d # Blank => d.bitCount >= 1
  BY Bounds DEF Definition, Blank

LEMMA Wrapped ==
  ASSUME NEW t \in 0 .. 2 * Modulus - 1
  PROVE  Wrap(t) \in 0 .. Modulus - 1
  BY Bounds DEF Wrap

LEMMA Sinces ==
  ASSUME NEW t \in 0 .. Modulus - 1, NEW u \in 0 .. Modulus - 1
  PROVE  Since(t, u) \in 0 .. Modulus - 1
  BY Bounds DEF Since, Wrap

LEMMA Cappeds ==
  ASSUME NEW t \in Nat
  PROVE  Capped(t) \in 0 .. MaxInterval
  BY Bounds DEF Capped

\* Time brings a moment to come closer.
LEMMA Closer ==
  ASSUME NEW t \in 0 .. Modulus - 1, NEW u \in 0 .. Modulus - 1, Since(t, u) >= 1
  PROVE  Since(t, Wrap(u + 1)) = Since(t, u) - 1
  BY Bounds DEF Since, Wrap

\* An interval counted from t ends as far ahead of n as n is short of it.
LEMMA Ahead ==
  ASSUME NEW n \in 0 .. Modulus - 1, NEW t \in 0 .. Modulus - 1,
         NEW i \in 0 .. MaxInterval, Since(n, t) < i
  PROVE  Since(Wrap(t + i), n) = i - Since(n, t)
  BY Bounds DEF Since, Wrap

\* A moment to come is not due.
LEMMA NotDue ==
  ASSUME NEW t \in 0 .. Modulus - 1, NEW u \in 0 .. Modulus - 1,
         Since(u, t) \in 1 .. MaxInterval
  PROVE  ~Due(t, u)
  BY Bounds DEF Since, Wrap, Due

LEMMA Ages ==
  ASSUME TimesOK, NEW s \in Slot
  PROVE  Called(s) \in [Slot -> 0 .. MaxInterval]
  <1>1. Since(now, tickNow) \in Nat
    <2>1. Since(now, tickNow) \in 0 .. Modulus - 1
      BY Sinces DEF TimesOK
    <2> QED
      BY <2>1
  <1>2. Capped(Since(now, tickNow)) \in 0 .. MaxInterval
    BY <1>1, Cappeds
  <1> QED
    BY <1>2 DEF Called, TimesOK

LEMMA TypeParts == TypeOK <=> TracksOK /\ FlagsOK /\ PlaceOK /\ TimesOK
  BY DEF TypeOK, TracksOK, FlagsOK, PlaceOK, TimesOK

LEMMA TracksStep ==
  ASSUME TracksOK, [Next]_vars
  PROVE  TracksOK'
  <1> USE CompiledAssumption DEF TracksOK, sequencer, tracks, tick
  <1>1. CASE TickBegin
    BY <1>1 DEF TickBegin
  <1>2. CASE TickEnd
    BY <1>2 DEF TickEnd
  <1>3. CASE \E s \in Slot : Skip(s)
    BY <1>3 DEF Skip, At
  <1>4. CASE \E s \in Slot : CallNative(s)
    BY <1>4 DEF CallNative, Calls, At, Advanced, Continue, Called
  <1>5. CASE \E s \in Slot : CallStop(s)
    BY <1>5 DEF CallStop, Calls, At, Advanced, Continue, Called
  <1>6. CASE \E s \in Slot : CallFails(s)
    BY <1>6 DEF CallFails, Calls, At, StopAll, Called
  <1>7. CASE \E s \in Slot, c \in Compiled, r \in BOOLEAN : CallProgram(s, c, r)
    BY <1>7 DEF CallProgram, Calls, At, Advanced, Continue, Called, Configured
  <1>8. CASE \E s \in Slot, d \in Definition : Set(s, d)
    BY <1>8 DEF Set
  <1>9. CASE \E slots \in SUBSET Slot : Clear(slots)
    BY <1>9 DEF Clear
  <1>10. CASE \E r \in BOOLEAN : Start(r)
    BY <1>10 DEF Start, Configured
  <1>11. CASE Stop
    BY <1>11 DEF Stop, StopAll
  <1>12. CASE \E c \in Compiled, r \in BOOLEAN : Program(c, r)
    BY <1>12 DEF Program, Configured
  <1>13. CASE Advance
    BY <1>13 DEF Advance
  <1>14. CASE UNCHANGED vars
    BY <1>14 DEF vars
  <1> QED
    BY ZenonT(60), <1>1, <1>2, <1>3, <1>4, <1>5, <1>6, <1>7, <1>8, <1>9, <1>10, <1>11, <1>12, <1>13, <1>14
       DEF Next, TickStep, Command

LEMMA FlagsStep ==
  ASSUME FlagsOK, [Next]_vars
  PROVE  FlagsOK'
  <1> USE DEF FlagsOK, sequencer, tracks, tick
  <1>1. CASE TickBegin
    BY ZenonT(60), <1>1 DEF TickBegin
  <1>2. CASE TickEnd
    BY ZenonT(60), <1>2 DEF TickEnd
  <1>3. CASE \E s \in Slot : Skip(s)
    BY <1>3 DEF Skip, At
  <1>4. CASE \E s \in Slot : CallNative(s)
    BY <1>4 DEF CallNative, Calls, At, Advanced, Continue, Called
  <1>5. CASE \E s \in Slot : CallStop(s)
    BY ZenonT(60), <1>5 DEF CallStop, Calls, At, Advanced, Continue, Called
  <1>6. CASE \E s \in Slot : CallFails(s)
    BY ZenonT(60), <1>6 DEF CallFails, Calls, At, StopAll, Called
  <1>7. CASE \E s \in Slot, c \in Compiled, r \in BOOLEAN : CallProgram(s, c, r)
    BY <1>7 DEF CallProgram, Calls, At, Advanced, Continue, Called, Configured
  <1>8. CASE \E s \in Slot, d \in Definition : Set(s, d)
    BY <1>8 DEF Set
  <1>9. CASE \E slots \in SUBSET Slot : Clear(slots)
    BY <1>9 DEF Clear
  <1>10. CASE \E r \in BOOLEAN : Start(r)
    BY <1>10 DEF Start, Configured
  <1>11. CASE Stop
    BY ZenonT(60), <1>11 DEF Stop, StopAll
  <1>12. CASE \E c \in Compiled, r \in BOOLEAN : Program(c, r)
    BY <1>12 DEF Program, Configured
  <1>13. CASE Advance
    BY <1>13 DEF Advance
  <1>14. CASE UNCHANGED vars
    BY <1>14 DEF vars
  <1> QED
    BY ZenonT(60), <1>1, <1>2, <1>3, <1>4, <1>5, <1>6, <1>7, <1>8, <1>9, <1>10, <1>11, <1>12, <1>13, <1>14
       DEF Next, TickStep, Command

LEMMA PlaceStep ==
  ASSUME TracksOK, PlaceOK, InPattern, PlayedOK, [Next]_vars
  PROVE  PlaceOK'
  <1> USE Bounds DEF TracksOK, PlaceOK, InPattern, PlayedOK, Slot, sequencer, tracks, tick
  <1>1. CASE TickBegin
    BY <1>1 DEF TickBegin
  <1>2. CASE TickEnd
    BY <1>2 DEF TickEnd
  <1>3. CASE \E s \in Slot : Skip(s)
    BY <1>3 DEF Skip, At
  <1>4. CASE \E s \in Slot : CallNative(s)
    <2> PICK s \in Slot : CallNative(s)
      BY <1>4
    <2>1. s \in active /\ cursor = s
      BY DEF CallNative, Calls, At
    <2>2. position[s] + 1 \in 0 .. MaxBits /\ played[s] + 1 \in 0 .. MaxBits
      <3>1. definition[s].bitCount \in 0 .. MaxBits
        BY Defined
      <3> QED
        BY SMTT(60), <2>1, <3>1
    <2> QED
      BY SMTT(60), <2>1, <2>2 DEF CallNative, Advanced, Continue
  <1>5. CASE \E s \in Slot : CallStop(s)
    <2> PICK s \in Slot : CallStop(s)
      BY <1>5
    <2>1. s \in active /\ cursor = s
      BY DEF CallStop, Calls, At
    <2>2. position[s] + 1 \in 0 .. MaxBits /\ played[s] + 1 \in 0 .. MaxBits
      <3>1. definition[s].bitCount \in 0 .. MaxBits
        BY Defined
      <3> QED
        BY SMTT(60), <2>1, <3>1
    <2> QED
      BY SMTT(60), <2>1, <2>2 DEF CallStop, Advanced, Continue
  <1>6. CASE \E s \in Slot : CallFails(s)
    BY <1>6 DEF CallFails, Calls, At, StopAll, Called
  <1>7. CASE \E s \in Slot, c \in Compiled, r \in BOOLEAN : CallProgram(s, c, r)
    BY <1>7 DEF CallProgram, Calls, At, Advanced, Continue, Called, Configured
  <1>8. CASE \E s \in Slot, d \in Definition : Set(s, d)
    BY <1>8 DEF Set
  <1>9. CASE \E slots \in SUBSET Slot : Clear(slots)
    BY <1>9 DEF Clear
  <1>10. CASE \E r \in BOOLEAN : Start(r)
    BY <1>10 DEF Start, Configured
  <1>11. CASE Stop
    BY <1>11 DEF Stop, StopAll
  <1>12. CASE \E c \in Compiled, r \in BOOLEAN : Program(c, r)
    BY <1>12 DEF Program, Configured
  <1>13. CASE Advance
    BY <1>13 DEF Advance
  <1>14. CASE UNCHANGED vars
    BY <1>14 DEF vars
  <1> QED
    BY ZenonT(60), <1>1, <1>2, <1>3, <1>4, <1>5, <1>6, <1>7, <1>8, <1>9, <1>10, <1>11, <1>12, <1>13, <1>14
       DEF Next, TickStep, Command

LEMMA TimesStep ==
  ASSUME TracksOK, TimesOK, [Next]_vars
  PROVE  TimesOK'
  <1> USE Bounds DEF TracksOK, TimesOK, sequencer, tracks, tick
  <1>1. CASE TickBegin
    BY <1>1 DEF TickBegin
  <1>2. CASE TickEnd
    BY <1>2 DEF TickEnd
  <1>3. CASE \E s \in Slot : Skip(s)
    BY <1>3 DEF Skip, At
  <1>4. CASE \E s \in Slot : CallNative(s)
    <2> PICK s \in Slot : CallNative(s)
      BY <1>4
    <2>1. s \in active /\ cursor = s
      BY DEF CallNative, Calls, At
    <2>2. Wrap(tickNow + definition[s].interval) \in 0 .. Modulus - 1
      <3>1. definition[s].interval \in 0 .. MaxInterval
        BY Defined
      <3> QED
        BY <3>1, Wrapped
    <2>3. Called(s) \in [Slot -> 0 .. MaxInterval]
      BY Ages
    <2> QED
      BY ZenonT(60), <2>1, <2>2, <2>3 DEF CallNative, Advanced, Continue
  <1>5. CASE \E s \in Slot : CallStop(s)
    <2> PICK s \in Slot : CallStop(s)
      BY <1>5
    <2>1. s \in active /\ cursor = s
      BY DEF CallStop, Calls, At
    <2>2. Wrap(tickNow + definition[s].interval) \in 0 .. Modulus - 1
      <3>1. definition[s].interval \in 0 .. MaxInterval
        BY Defined
      <3> QED
        BY <3>1, Wrapped
    <2>3. Called(s) \in [Slot -> 0 .. MaxInterval]
      BY Ages
    <2> QED
      BY ZenonT(60), <2>1, <2>2, <2>3 DEF CallStop, Advanced, Continue
  <1>6. CASE \E s \in Slot : CallFails(s)
    <2> PICK s \in Slot : CallFails(s)
      BY <1>6
    <2>1. s \in active /\ cursor = s
      BY DEF CallFails, Calls, At
    <2>2. Wrap(tickNow + definition[s].interval) \in 0 .. Modulus - 1
      <3>1. definition[s].interval \in 0 .. MaxInterval
        BY Defined
      <3> QED
        BY <3>1, Wrapped
    <2>3. Called(s) \in [Slot -> 0 .. MaxInterval]
      BY Ages
    <2> QED
      BY <2>1, <2>2, <2>3 DEF CallFails
  <1>7. CASE \E s \in Slot, c \in Compiled, r \in BOOLEAN : CallProgram(s, c, r)
    <2> PICK s \in Slot, c \in Compiled, r \in BOOLEAN : CallProgram(s, c, r)
      BY <1>7
    <2>2. Wrap(tickNow + c[s].interval) \in 0 .. Modulus - 1
      <3>1. c[s].interval \in 0 .. MaxInterval
        BY Defined, CompiledAssumption
      <3> QED
        BY <3>1, Wrapped
    <2>3. Called(s) \in [Slot -> 0 .. MaxInterval]
      BY Ages
    <2>4. age' \in [Slot -> 0 .. MaxInterval]
      BY <2>3 DEF CallProgram
    <2>5. nextAt' \in [Slot -> 0 .. Modulus - 1]
      BY <2>2 DEF CallProgram, Advanced
    <2> QED
      BY <2>4, <2>5 DEF CallProgram, Continue
  <1>8. CASE \E s \in Slot, d \in Definition : Set(s, d)
    BY <1>8 DEF Set
  <1>9. CASE \E slots \in SUBSET Slot : Clear(slots)
    BY <1>9 DEF Clear
  <1>10. CASE \E r \in BOOLEAN : Start(r)
    BY <1>10 DEF Start, Configured
  <1>11. CASE Stop
    BY <1>11 DEF Stop, StopAll
  <1>12. CASE \E c \in Compiled, r \in BOOLEAN : Program(c, r)
    BY <1>12 DEF Program, Configured
  <1>13. CASE Advance
    BY <1>13, Wrapped, Cappeds DEF Advance
  <1>14. CASE UNCHANGED vars
    BY <1>14 DEF vars
  <1> QED
    BY ZenonT(60), <1>1, <1>2, <1>3, <1>4, <1>5, <1>6, <1>7, <1>8, <1>9, <1>10, <1>11, <1>12, <1>13, <1>14
       DEF Next, TickStep, Command

LEMMA RunStep ==
  ASSUME TracksOK, FlagsOK, RunOK, [Next]_vars
  PROVE  RunOK'
  <1> USE Bounds DEF TracksOK, FlagsOK, RunOK, sequencer, tracks, tick
  <1>1. CASE TickBegin
    BY <1>1 DEF TickBegin
  <1>2. CASE TickEnd
    BY <1>2 DEF TickEnd
  <1>3. CASE \E s \in Slot : Skip(s)
    BY <1>3 DEF Skip, At
  <1>4. CASE \E s \in Slot : CallNative(s)
    BY <1>4 DEF CallNative, Calls, At, Advanced, Continue, Called
  <1>5. CASE \E s \in Slot : CallStop(s)
    BY <1>5 DEF CallStop, Calls, At, Advanced, Continue, Called
  <1>6. CASE \E s \in Slot : CallFails(s)
    BY <1>6 DEF CallFails, Calls, At, StopAll, Called
  <1>7. CASE \E s \in Slot, c \in Compiled, r \in BOOLEAN : CallProgram(s, c, r)
    BY <1>7 DEF CallProgram, Calls, At, Advanced, Continue, Called, Configured
  <1>8. CASE \E s \in Slot, d \in Definition : Set(s, d)
    BY <1>8 DEF Set
  <1>9. CASE \E slots \in SUBSET Slot : Clear(slots)
    BY <1>9 DEF Clear
  <1>10. CASE \E r \in BOOLEAN : Start(r)
    BY <1>10 DEF Start, Configured
  <1>11. CASE Stop
    BY <1>11 DEF Stop, StopAll
  <1>12. CASE \E c \in Compiled, r \in BOOLEAN : Program(c, r)
    <2> PICK c \in Compiled, r \in BOOLEAN : Program(c, r)
      BY <1>12
    <2>1. Configured(c) # {}
      BY CompiledAssumption DEF Configured
    <2> QED
      BY <2>1 DEF Program
  <1>13. CASE Advance
    BY <1>13 DEF Advance
  <1>14. CASE UNCHANGED vars
    BY <1>14 DEF vars
  <1> QED
    BY ZenonT(60), <1>1, <1>2, <1>3, <1>4, <1>5, <1>6, <1>7, <1>8, <1>9, <1>10, <1>11, <1>12, <1>13, <1>14
       DEF Next, TickStep, Command

LEMMA PatternStep ==
  ASSUME TracksOK, PlaceOK, RunOK, InPattern, [Next]_vars
  PROVE  InPattern'
  <1> USE Bounds DEF TracksOK, PlaceOK, RunOK, InPattern, sequencer, tracks, tick
  <1>1. CASE TickBegin
    BY <1>1 DEF TickBegin
  <1>2. CASE TickEnd
    BY <1>2 DEF TickEnd
  <1>3. CASE \E s \in Slot : Skip(s)
    BY ZenonT(60), <1>3 DEF Skip, At
  <1>4. CASE \E s \in Slot : CallNative(s)
    <2> PICK s \in Slot : CallNative(s)
      BY <1>4
    <2>1. \A t \in Slot : definition[t].bitCount \in 0 .. MaxBits
      BY Defined
    <2>2. s \in active
      BY DEF CallNative, Calls
    <2>3. ASSUME NEW t \in active' PROVE position'[t] < definition[t].bitCount
      BY <2>1, <2>2, <2>3 DEF CallNative, Advanced
    <2> QED
      BY <2>3 DEF CallNative
  <1>5. CASE \E s \in Slot : CallStop(s)
    BY <1>5 DEF CallStop, Calls, At, Advanced, Continue, Called
  <1>6. CASE \E s \in Slot : CallFails(s)
    BY SMTT(60), <1>6 DEF CallFails, Calls, At, StopAll, Called
  <1>7. CASE \E s \in Slot, c \in Compiled, r \in BOOLEAN : CallProgram(s, c, r)
    <2> PICK s \in Slot, c \in Compiled, r \in BOOLEAN : CallProgram(s, c, r)
      BY <1>7
    <2>1. c \in [Slot -> Definition \cup {Blank}]
      BY CompiledAssumption
    <2>2. \A t \in Configured(c) : c[t].bitCount \in 0 .. MaxBits /\ c[t].bitCount >= 1
      BY <2>1, Defined DEF Configured
    <2>3. active' \subseteq Configured(c)
      BY DEF CallProgram, Advanced
    <2>4. ASSUME NEW t \in active' PROVE position'[t] < c[t].bitCount
      BY <2>1, <2>2, <2>3, <2>4 DEF CallProgram, Advanced, Configured
    <2> QED
      BY <2>4 DEF CallProgram
  <1>8. CASE \E s \in Slot, d \in Definition : Set(s, d)
    BY <1>8 DEF Set
  <1>9. CASE \E slots \in SUBSET Slot : Clear(slots)
    BY <1>9 DEF Clear
  <1>10. CASE \E r \in BOOLEAN : Start(r)
    <2> PICK r \in BOOLEAN : Start(r)
      BY <1>10
    <2>1. \A t \in Configured(definition) : definition[t].bitCount \in 0 .. MaxBits /\ definition[t].bitCount >= 1
      BY Defined DEF Configured
    <2> QED
      BY <2>1 DEF Start, Configured
  <1>11. CASE Stop
    BY <1>11 DEF Stop, StopAll
  <1>12. CASE \E c \in Compiled, r \in BOOLEAN : Program(c, r)
    <2> PICK c \in Compiled, r \in BOOLEAN : Program(c, r)
      BY <1>12
    <2>1. c \in [Slot -> Definition \cup {Blank}]
      BY CompiledAssumption
    <2>2. \A t \in Configured(c) : c[t].bitCount \in 0 .. MaxBits /\ c[t].bitCount >= 1
      BY <2>1, Defined DEF Configured
    <2> QED
      BY <2>2 DEF Program, Configured
  <1>13. CASE Advance
    BY <1>13 DEF Advance
  <1>14. CASE UNCHANGED vars
    BY SMTT(60), <1>14 DEF vars
  <1> QED
    BY ZenonT(60), <1>1, <1>2, <1>3, <1>4, <1>5, <1>6, <1>7, <1>8, <1>9, <1>10, <1>11, <1>12, <1>13, <1>14
       DEF Next, TickStep, Command

LEMMA PlayedStep ==
  ASSUME TracksOK, PlaceOK, RunOK, PlayedOK, [Next]_vars
  PROVE  PlayedOK'
  <1> USE Bounds DEF TracksOK, PlaceOK, RunOK, PlayedOK, sequencer, tracks, tick
  <1>1. CASE TickBegin
    BY <1>1 DEF TickBegin
  <1>2. CASE TickEnd
    BY <1>2 DEF TickEnd
  <1>3. CASE \E s \in Slot : Skip(s)
    BY ZenonT(60), <1>3 DEF Skip, At
  <1>4. CASE \E s \in Slot : CallNative(s)
    <2> PICK s \in Slot : CallNative(s)
      BY <1>4
    <2>1. s \in active /\ active' \subseteq active
      BY DEF CallNative, Calls, Advanced
    <2>2. ASSUME NEW t \in active' PROVE  played'[t] <= position'[t] /\ position'[t] <= played'[t] + 1
      BY <2>1, <2>2 DEF CallNative, Advanced
    <2> QED
      BY <2>2
  <1>5. CASE \E s \in Slot : CallStop(s)
    BY <1>5 DEF CallStop, Calls, At, Advanced, Continue, Called
  <1>6. CASE \E s \in Slot : CallFails(s)
    BY <1>6 DEF CallFails, Calls, At, StopAll, Called
  <1>7. CASE \E s \in Slot, c \in Compiled, r \in BOOLEAN : CallProgram(s, c, r)
    <2> PICK s \in Slot, c \in Compiled, r \in BOOLEAN : CallProgram(s, c, r)
      BY SMTT(60), <1>7
    <2>1. active' \subseteq Slot
      BY SMTT(60) DEF CallProgram, Advanced, Configured
    <2>2. ASSUME NEW t \in active' PROVE  played'[t] <= position'[t] /\ position'[t] <= played'[t] + 1
      BY <2>1, <2>2 DEF CallProgram, Advanced
    <2> QED
      BY <2>2
  <1>8. CASE \E s \in Slot, d \in Definition : Set(s, d)
    BY <1>8 DEF Set
  <1>9. CASE \E slots \in SUBSET Slot : Clear(slots)
    BY <1>9 DEF Clear
  <1>10. CASE \E r \in BOOLEAN : Start(r)
    BY <1>10 DEF Start, Configured
  <1>11. CASE Stop
    BY <1>11 DEF Stop, StopAll
  <1>12. CASE \E c \in Compiled, r \in BOOLEAN : Program(c, r)
    BY <1>12 DEF Program, Configured
  <1>13. CASE Advance
    BY <1>13 DEF Advance
  <1>14. CASE UNCHANGED vars
    BY SMTT(60), <1>14 DEF vars
  <1> QED
    BY ZenonT(60), <1>1, <1>2, <1>3, <1>4, <1>5, <1>6, <1>7, <1>8, <1>9, <1>10, <1>11, <1>12, <1>13, <1>14
       DEF Next, TickStep, Command

LEMMA PaceStep ==
  ASSUME TracksOK, PlaceOK, TimesOK, RunOK, PaceOK, [Next]_vars
  PROVE  PaceOK'
  <1> USE Bounds DEF TracksOK, PlaceOK, TimesOK, RunOK, PaceOK, sequencer, tracks, tick
  <1>1. CASE TickBegin
    <2>1. \A s \in active : definition[s].interval \in 0 .. MaxInterval
      BY Defined
    <2> QED
      BY <1>1, <2>1 DEF TickBegin
  <1>2. CASE TickEnd
    BY <1>2 DEF TickEnd
  <1>3. CASE \E s \in Slot : Skip(s)
    <2>1. cursor' = cursor + 1 /\ UNCHANGED <<sequencer, now, ticking, tickNow, age>>
      BY <1>3 DEF Skip
    <2>2. \A t \in active : t \in Int
      BY DEF Slot
    <2> QED
      BY <2>1, <2>2
  <1>4. CASE \E s \in Slot : CallNative(s)
    <2> PICK s \in Slot : CallNative(s)
      BY <1>4
    <2>1. s \in active /\ cursor = s /\ active' \subseteq active
      BY DEF CallNative, Calls, At, Advanced
    <2>2. definition[s].interval \in 0 .. MaxInterval
      BY Defined
    <2>3. age'[s] < definition[s].interval =>
            Since(nextAt'[s], now) = definition[s].interval - age'[s]
      <3>1. age'[s] = Capped(Since(now, tickNow))
        BY DEF CallNative, Called
      <3>2. nextAt'[s] = Wrap(tickNow + definition[s].interval)
        BY DEF CallNative, Advanced
      <3>3. Since(now, tickNow) \in 0 .. Modulus - 1
        BY ZenonT(60), Sinces
      <3>4. age'[s] < definition[s].interval => age'[s] = Since(now, tickNow)
        BY <2>2, <3>1, <3>3 DEF Capped
      <3> QED
        BY <2>2, <3>2, <3>4, Ahead
    <2>4. ASSUME NEW t \in active', t # s
          PROVE  age'[t] = age[t] /\ nextAt'[t] = nextAt[t]
      BY <2>1, <2>4 DEF CallNative, Advanced, Called
    <2>5. cursor' = cursor + 1 /\ UNCHANGED <<definition, now, ticking, tickNow>>
      BY DEF CallNative, Continue
    <2>6. ASSUME NEW t \in active', age'[t] < definition[t].interval
          PROVE  /\ Since(nextAt'[t], now) = definition[t].interval - age'[t]
                 /\ ticking /\ cursor + 1 <= t => Since(nextAt'[t], tickNow) \in 1 .. MaxInterval
      <3>1. t \in active /\ s \in Int /\ t \in Int
        BY <2>1 DEF Slot
      <3>2. CASE t = s
        BY <2>1, <2>3, <2>6, <3>1, <3>2
      <3>3. CASE t # s
        BY <2>1, <2>4, <2>6, <3>1, <3>3
      <3> QED
        BY <3>2, <3>3
    <2> QED
      BY <2>5, <2>6
  <1>5. CASE \E s \in Slot : CallStop(s)
    BY <1>5 DEF CallStop, Calls, At, Advanced, Continue, Called
  <1>6. CASE \E s \in Slot : CallFails(s)
    BY <1>6 DEF CallFails, Calls, At, StopAll, Called
  <1>7. CASE \E s \in Slot, c \in Compiled, r \in BOOLEAN : CallProgram(s, c, r)
    <2> PICK s \in Slot, c \in Compiled, r \in BOOLEAN : CallProgram(s, c, r)
      BY SMTT(60), <1>7
    <2>1. cursor = s /\ active' \subseteq Slot
      BY DEF CallProgram, Calls, At, Advanced, Configured
    <2>2. \A t \in Slot : c[t].interval \in 0 .. MaxInterval
      BY Defined, CompiledAssumption
    <2>3. age'[s] < c[s].interval =>
            Since(nextAt'[s], now) = c[s].interval - age'[s]
      <3>1. age'[s] = Capped(Since(now, tickNow))
        BY SMTT(60) DEF CallProgram, Called
      <3>2. nextAt'[s] = Wrap(tickNow + c[s].interval)
        BY DEF CallProgram, Advanced
      <3>3. Since(now, tickNow) \in 0 .. Modulus - 1
        BY ZenonT(60), Sinces
      <3>4. age'[s] < c[s].interval => age'[s] = Since(now, tickNow)
        BY <2>2, <3>1, <3>3, SMTT(60) DEF Capped
      <3> QED
        BY <2>2, <3>2, <3>4, Ahead
    <2>4. ASSUME NEW t \in active', t # s
          PROVE  ~(age'[t] < c[t].interval)
      BY <2>1, <2>2, <2>4 DEF CallProgram
    <2>5. cursor' = cursor + 1 /\ definition' = c /\ now' = now
      BY DEF CallProgram, Continue
    <2> QED
      BY <2>1, <2>3, <2>4, <2>5 DEF Slot
  <1>8. CASE \E s \in Slot, d \in Definition : Set(s, d)
    BY <1>8 DEF Set
  <1>9. CASE \E slots \in SUBSET Slot : Clear(slots)
    BY <1>9 DEF Clear
  <1>10. CASE \E r \in BOOLEAN : Start(r)
    <2> PICK r \in BOOLEAN : Start(r)
      BY <1>10
    <2>1. \A t \in Slot : definition[t].interval \in 0 .. MaxInterval
      BY Defined
    <2> QED
      BY <2>1 DEF Start, Configured
  <1>11. CASE Stop
    BY <1>11 DEF Stop, StopAll
  <1>12. CASE \E c \in Compiled, r \in BOOLEAN : Program(c, r)
    <2> PICK c \in Compiled, r \in BOOLEAN : Program(c, r)
      BY <1>12
    <2>1. \A t \in Slot : c[t].interval \in 0 .. MaxInterval
      BY Defined, CompiledAssumption
    <2> QED
      BY <2>1 DEF Program, Configured
  <1>13. CASE Advance
    <2>1. ASSUME NEW s \in active, age'[s] < definition[s].interval
          PROVE  /\ age'[s] = age[s] + 1 /\ age[s] < definition[s].interval
                 /\ Since(nextAt[s], now') = Since(nextAt[s], now) - 1
      <3>1. definition[s].interval \in 0 .. MaxInterval
        BY Defined
      <3>2. age'[s] = Capped(age[s] + 1) /\ now' = Wrap(now + 1)
        BY <1>13 DEF Advance
      <3>3. age'[s] = age[s] + 1
        BY <2>1, <3>1, <3>2 DEF Capped
      <3>4. Since(nextAt[s], now) >= 1
        BY <2>1, <3>1, <3>3
      <3> QED
        BY <2>1, <3>1, <3>2, <3>3, <3>4, Closer
    <2>2. \A s \in active : definition[s].interval \in 0 .. MaxInterval
      BY Defined
    <2> QED
      BY SMTT(60), <1>13, <2>1, <2>2 DEF Advance
  <1>14. CASE UNCHANGED vars
    BY <1>14 DEF vars
  <1> QED
    BY ZenonT(60), <1>1, <1>2, <1>3, <1>4, <1>5, <1>6, <1>7, <1>8, <1>9, <1>10, <1>11, <1>12, <1>13, <1>14
       DEF Next, TickStep, Command

LEMMA InvInit == Init => Inv
  <1> SUFFICES ASSUME Init PROVE Inv
    OBVIOUS
  <1>1. TracksOK /\ FlagsOK
    BY ZenonT(60) DEF Init, TracksOK, FlagsOK
  <1>2. PlaceOK /\ TimesOK
    BY Bounds DEF Init, PlaceOK, TimesOK
  <1>3. RunOK /\ InPattern /\ PlayedOK /\ PaceOK
    BY DEF Init, RunOK, InPattern, PlayedOK, PaceOK
  <1> QED
    BY <1>1, <1>2, <1>3 DEF Inv

LEMMA InvStep == Inv /\ [Next]_vars => Inv'
  BY TracksStep, FlagsStep, PlaceStep, TimesStep, RunStep, PatternStep, PlayedStep, PaceStep
     DEF Inv

(***************************************************************************)
(* Every variable keeps its type: no counter of the tick overflows.        *)
(***************************************************************************)
THEOREM TypeCorrect == Spec => []TypeOK
  <1>1. Inv => TypeOK
    BY TypeParts DEF Inv
  <1> QED
    BY <1>1, InvInit, InvStep, PTL DEF Spec

(***************************************************************************)
(* The busy bits are the active channels, and between ticks the sequencer  *)
(* runs exactly while there are some.                                      *)
(***************************************************************************)
THEOREM BusyBitsRight == Spec => []BusyIsActive
  <1>1. Inv => BusyIsActive
    BY DEF Inv, RunOK, BusyIsActive, FlagsOK
  <1> QED
    BY <1>1, InvInit, InvStep, PTL DEF Spec

(***************************************************************************)
(* A tick reads only bits of the pattern.                                  *)
(***************************************************************************)
THEOREM PatternRespected == Spec => []InPattern
  <1>1. Inv => InPattern
    BY DEF Inv
  <1> QED
    BY <1>1, InvInit, InvStep, PTL DEF Spec

(***************************************************************************)
(* No channel is called before its interval has passed, across the wrap of *)
(* millis().                                                               *)
(***************************************************************************)
THEOREM CallsArePaced == Spec => Paced
  <1>1. ASSUME Inv, NEW s \in Slot, Calls(s) PROVE age[s] >= definition[s].interval
    <2>1. s \in active /\ ticking /\ cursor = s /\ Due(tickNow, nextAt[s])
      BY <1>1 DEF Calls, At
    <2>2. definition[s].interval \in Int /\ age[s] \in Int
      BY <1>1, Defined DEF Inv, TracksOK, TimesOK
    <2>3. SUFFICES ASSUME age[s] < definition[s].interval PROVE FALSE
      BY <2>2
    <2>4. Since(nextAt[s], tickNow) \in 1 .. MaxInterval
      BY <1>1, <2>1, <2>3 DEF Inv, PaceOK, Slot
    <2> QED
      BY <1>1, <2>1, <2>4, NotDue DEF Inv, TimesOK
  <1>2. Inv => [\A s \in Slot : Calls(s) /\ tick' # tick => age[s] >= definition[s].interval]_vars
    BY <1>1
  <1> QED
    BY <1>2, InvInit, InvStep, PTL DEF Spec, Paced

(***************************************************************************)
(* A channel skips at most one bit of its pattern, and that is the first   *)
(* one: the one the tick steps over when the channel itself has started    *)
(* the compiled sequence it now plays.                                     *)
(***************************************************************************)
SkipsAtMostOneBit == \A s \in active : position[s] \in {played[s], played[s] + 1}

\* Of the bits before its position a channel has played all, or all but one.
THEOREM AtMostOneBitSkipped == Spec => []SkipsAtMostOneBit
  <1>1. ASSUME TracksOK, PlaceOK, PlayedOK PROVE SkipsAtMostOneBit
    <2> SUFFICES ASSUME NEW s \in active PROVE position[s] \in {played[s], played[s] + 1}
      BY DEF SkipsAtMostOneBit
    <2>1. position[s] \in Nat /\ played[s] \in Nat
      BY <1>1 DEF TracksOK, PlaceOK
    <2> QED
      BY <1>1, <2>1 DEF PlayedOK
  <1>2. Inv => SkipsAtMostOneBit
    BY <1>1 DEF Inv
  <1> QED
    BY <1>2, InvInit, InvStep, PTL DEF Spec

\* While no channel is defined to call a compiled sequence ...
NoProgram == \A s \in Slot : definition[s].calls # "program"

LEMMA NoProgramInvariant ==
  ASSUME "program" \notin Kinds
  PROVE  TracksOK => NoProgram
  BY DEF TracksOK, NoProgram, Definition, Blank

LEMMA FromFirstBitStep ==
  ASSUME TracksOK, PlaceOK, RunOK, NoProgram, PlayedFromFirstBit, [Next]_vars
  PROVE  PlayedFromFirstBit'
  <1> USE Bounds DEF TracksOK, PlaceOK, RunOK, PlayedFromFirstBit, sequencer, tracks, tick
  <1>1. CASE TickBegin
    BY <1>1 DEF TickBegin
  <1>2. CASE TickEnd
    BY <1>2 DEF TickEnd
  <1>3. CASE \E s \in Slot : Skip(s)
    BY ZenonT(60), <1>3 DEF Skip, At
  <1>4. CASE \E s \in Slot : CallNative(s)
    <2> PICK s \in Slot : CallNative(s)
      BY <1>4
    <2>1. s \in active /\ active' \subseteq active
      BY DEF CallNative, Calls, Advanced
    <2>2. ASSUME NEW t \in active' PROVE position'[t] = played'[t]
      BY <2>1, <2>2 DEF CallNative, Advanced
    <2> QED
      BY <2>2
  <1>5. CASE \E s \in Slot : CallStop(s)
    BY <1>5 DEF CallStop, Calls, At, Advanced, Continue, Called
  <1>6. CASE \E s \in Slot : CallFails(s)
    BY <1>6 DEF CallFails, Calls, At, StopAll, Called
  <1>7. CASE \E s \in Slot, c \in Compiled, r \in BOOLEAN : CallProgram(s, c, r)
    BY ZenonT(60), <1>7 DEF CallProgram, NoProgram
  <1>8. CASE \E s \in Slot, d \in Definition : Set(s, d)
    BY <1>8 DEF Set
  <1>9. CASE \E slots \in SUBSET Slot : Clear(slots)
    BY <1>9 DEF Clear
  <1>10. CASE \E r \in BOOLEAN : Start(r)
    BY <1>10 DEF Start, Configured
  <1>11. CASE Stop
    BY <1>11 DEF Stop, StopAll
  <1>12. CASE \E c \in Compiled, r \in BOOLEAN : Program(c, r)
    BY <1>12 DEF Program, Configured
  <1>13. CASE Advance
    BY <1>13 DEF Advance
  <1>14. CASE UNCHANGED vars
    BY SMTT(60), <1>14 DEF vars
  <1> QED
    BY ZenonT(60), <1>1, <1>2, <1>3, <1>4, <1>5, <1>6, <1>7, <1>8, <1>9, <1>10, <1>11, <1>12, <1>13, <1>14
       DEF Next, TickStep, Command

(***************************************************************************)
(* ... every channel plays its pattern from the first bit: the compiled    *)
(* sequences called by channels are the only cause of a skipped bit.       *)
(***************************************************************************)
THEOREM PatternsPlayWhole ==
  ASSUME "program" \notin Kinds
  PROVE  Spec => []PlayedFromFirstBit
  <1>1. Init => PlayedFromFirstBit
    BY DEF Init, PlayedFromFirstBit
  <1>2. Inv /\ PlayedFromFirstBit /\ [Next]_vars => PlayedFromFirstBit'
    BY NoProgramInvariant, FromFirstBitStep DEF Inv
  <1> QED
    BY <1>1, <1>2, InvInit, InvStep, PTL DEF Spec
=============================================================================
