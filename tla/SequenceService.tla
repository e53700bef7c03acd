---------------------------- MODULE SequenceService ----------------------------
(***************************************************************************)
(* The sequencer of the ESP runtime (esp/common/src/services/              *)
(* SequenceService.cpp) and the compiled sequences that replace what it    *)
(* plays (core/noob_sequence_program.cpp).                                 *)
(*                                                                         *)
(* Commands and ticks alternate in the runtime loop, but a channel may     *)
(* call any registered function, SEQUENCE_STOP and the compiled sequences  *)
(* among them, so the state may be replaced in the middle of a tick.  The  *)
(* tick is one step per slot, and time passes between the slots.  The bits *)
(* themselves only become arguments: a channel keeps their number.         *)
(***************************************************************************)
EXTENDS Integers

CONSTANTS
  Tracks,       \* MAX_TRACKS
  MaxBits,      \* MAX_BITS
  MaxInterval,  \* MAX_INTERVAL_MS
  Half,         \* millis() counts modulo 2 * Half
  Kinds,        \* what a channel may call
  Compiled      \* the compiled sequences: a definition for each slot

Slot == 0 .. Tracks - 1
Modulus == 2 * Half

\* A native function, SEQUENCE_STOP, or a compiled sequence.
Kind == {"native", "stop", "program"}

Definition == [calls : Kinds, interval : 1 .. MaxInterval, bitCount : 1 .. MaxBits]
\* Track{}: a slot that is not configured
Blank == [calls |-> "none", interval |-> 0, bitCount |-> 0]

ASSUME BoundsAssumption ==
  /\ Tracks \in Nat \ {0} /\ MaxBits \in Nat \ {0} /\ MaxInterval \in Nat \ {0}
  /\ Half \in Nat /\ MaxInterval < Half
ASSUME KindsAssumption == Kinds \subseteq Kind
ASSUME CompiledAssumption ==
  /\ Compiled \subseteq [Slot -> Definition \cup {Blank}]
  /\ \A c \in Compiled : c[0] # Blank

VARIABLES
  definition, position, nextAt,          \* tracks, by slot
  active, channelBusy,                   \* the slots whose flag is set
  running, repeating,
  now,                                   \* millis()
  ticking, cursor, tickNow, invoked,     \* the tick in progress: slot, now, invoked
  age,     \* history: time since the pass that last called the channel, capped
  played   \* history: bits played since the start or the last repetition

tracks == <<definition, position, nextAt, active>>
sequencer == <<tracks, channelBusy, running, repeating>>
tick == <<ticking, cursor, tickNow, invoked>>
vars == <<sequencer, now, tick, age, played>>

\* begin
Init ==
  /\ definition = [s \in Slot |-> Blank]
  /\ position = [s \in Slot |-> 0] /\ nextAt = [s \in Slot |-> 0]
  /\ active = {} /\ channelBusy = {}
  /\ running = FALSE /\ repeating = FALSE
  /\ now = 0
  /\ ticking = FALSE /\ cursor = 0 /\ tickNow = 0 /\ invoked = FALSE
  /\ age = [s \in Slot |-> MaxInterval] /\ played = [s \in Slot |-> 0]

-----------------------------------------------------------------------------
(* Time *)

\* Times are sums of less than twice the range.
Wrap(t) == IF t >= Modulus THEN t - Modulus ELSE t

\* The difference of two times, as unsigned.
Since(t, u) == Wrap(t + Modulus - u)

\* Faulty variant of Due: the times are compared, not their difference.
DueUnsigned(t, u) == t >= u

\* static_cast<int32_t>(now - nextAt) >= 0
Due(t, u) == Since(t, u) < Half

Capped(t) == IF t > MaxInterval THEN MaxInterval ELSE t

\* Time passes, within a tick as well.  A pass of the loop comes long before
\* an active track is overdue by half the range (24 days).
Advance ==
  /\ \A s \in active : Since(now, nextAt[s]) # Half - 1
  /\ now' = Wrap(now + 1)
  /\ age' = [s \in Slot |-> Capped(age[s] + 1)]
  /\ UNCHANGED <<sequencer, tick, played>>

-----------------------------------------------------------------------------
(* Commands, between ticks *)

\* set, setNumeric, setMixed: valid arguments, refused while running
Set(s, d) ==
  /\ ~ticking /\ ~running
  /\ definition' = [definition EXCEPT ![s] = d]
  /\ active' = active \ {s}
  /\ position' = [position EXCEPT ![s] = 0]
  /\ nextAt' = [nextAt EXCEPT ![s] = 0]
  /\ UNCHANGED <<channelBusy, running, repeating, now, tick, age, played>>

\* clear: one slot, or all of them
Clear(slots) ==
  /\ ~ticking /\ ~running
  /\ definition' = [s \in Slot |-> IF s \in slots THEN Blank ELSE definition[s]]
  /\ active' = active \ slots
  /\ position' = [s \in Slot |-> IF s \in slots THEN 0 ELSE position[s]]
  /\ nextAt' = [s \in Slot |-> IF s \in slots THEN 0 ELSE nextAt[s]]
  /\ UNCHANGED <<channelBusy, running, repeating, now, tick, age, played>>

Configured(d) == {s \in Slot : d[s] # Blank}

\* start: every configured track, from its first bit, at once
Start(repeat) ==
  /\ ~ticking /\ ~running
  /\ Configured(definition) # {}
  /\ active' = Configured(definition) /\ channelBusy' = Configured(definition)
  /\ position' = [s \in Slot |-> 0] /\ nextAt' = [s \in Slot |-> now]
  /\ running' = TRUE /\ repeating' = repeat
  /\ age' = [s \in Slot |-> MaxInterval] /\ played' = [s \in Slot |-> 0]
  /\ UNCHANGED <<definition, now, tick>>

\* Faulty variant of StopAll: the busy bits are forgotten.
StopTracks ==
  /\ running' = FALSE
  /\ active' = {} /\ UNCHANGED channelBusy

StopAll ==
  /\ running' = FALSE
  /\ active' = {} /\ channelBusy' = {}

\* stop
Stop ==
  /\ ~ticking
  /\ StopAll
  /\ UNCHANGED <<definition, position, nextAt, repeating, now, tick, age, played>>

\* NoobSequenceProgram::call: stop, load, start
Program(c, repeat) ==
  /\ ~ticking
  /\ definition' = c
  /\ active' = Configured(c) /\ channelBusy' = Configured(c)
  /\ position' = [s \in Slot |-> 0] /\ nextAt' = [s \in Slot |-> now]
  /\ running' = TRUE /\ repeating' = repeat
  /\ age' = [s \in Slot |-> MaxInterval] /\ played' = [s \in Slot |-> 0]
  /\ UNCHANGED <<now, tick>>

-----------------------------------------------------------------------------
(* SequenceRunner::tick *)

TickBegin ==
  /\ ~ticking /\ running
  /\ ticking' = TRUE /\ cursor' = 0 /\ tickNow' = now /\ invoked' = FALSE
  /\ UNCHANGED <<sequencer, now, age, played>>

\* The slot the tick has come to, and whether its channel is called.
At(s) == ticking /\ cursor = s
Calls(s) == At(s) /\ s \in active /\ Due(tickNow, nextAt[s])

Skip(s) ==
  /\ At(s) /\ ~Calls(s)
  /\ cursor' = cursor + 1
  /\ UNCHANGED <<sequencer, now, ticking, tickNow, invoked, age, played>>

\* Faulty variant of Advanced: every pattern is repeated.
AdvancedAgain(s, d, a, b, p, n, repeat) ==
  /\ position' = [p EXCEPT ![s] = IF p[s] + 1 >= d[s].bitCount THEN 0 ELSE p[s] + 1]
  /\ active' = a /\ channelBusy' = b
  /\ nextAt' = [n EXCEPT ![s] = Wrap(tickNow + d[s].interval)]

\* What the tick does with the track after its call succeeded: the next bit,
\* the repetition or the end.  The arguments are the track after the call.
Advanced(s, d, a, b, p, n, repeat) ==
  LET ends == p[s] + 1 >= d[s].bitCount
  IN  /\ position' = [p EXCEPT ![s] = IF ends /\ repeat THEN 0 ELSE p[s] + 1]
      /\ active' = IF ends /\ ~repeat THEN a \ {s} ELSE a
      /\ channelBusy' = IF ends /\ ~repeat THEN b \ {s} ELSE b
      /\ nextAt' = [n EXCEPT ![s] = Wrap(tickNow + d[s].interval)]

\* The loop goes on to the next slot.
Continue(s) == cursor' = cursor + 1 /\ invoked' = TRUE /\ UNCHANGED <<ticking, tickNow>>

\* The age of a call is counted from the time its tick read.
Called(s) == [age EXCEPT ![s] = Capped(Since(now, tickNow))]

\* A native function that leaves the sequencer alone.
CallNative(s) ==
  /\ Calls(s) /\ definition[s].calls = "native"
  /\ Advanced(s, definition, active, channelBusy, position, nextAt, repeating)
  /\ age' = Called(s)
  /\ played' = [played EXCEPT ![s] = IF position'[s] = 0 THEN 0 ELSE played[s] + 1]
  /\ Continue(s)
  /\ UNCHANGED <<definition, running, repeating, now>>

\* SEQUENCE_STOP, called by a channel
CallStop(s) ==
  /\ Calls(s) /\ definition[s].calls = "stop"
  /\ running' = FALSE
  /\ Advanced(s, definition, {}, {}, position, nextAt, repeating)
  /\ age' = Called(s)
  /\ Continue(s)
  /\ UNCHANGED <<definition, repeating, now, played>>

\* A compiled sequence, called by a channel with its bit as repeat
CallProgram(s, c, repeat) ==
  /\ Calls(s) /\ definition[s].calls = "program"
  /\ definition' = c /\ running' = TRUE /\ repeating' = repeat
  /\ Advanced(s, c, Configured(c), Configured(c), [t \in Slot |-> 0],
              [t \in Slot |-> now], repeat)
  /\ age' = [t \in Slot |-> IF t = s THEN Called(s)[s] ELSE MaxInterval]
  /\ played' = [t \in Slot |-> 0]
  /\ Continue(s)
  /\ UNCHANGED now

\* The call fails, whatever it is: stopAll and SEQUENCE_ERROR.
CallFails(s) ==
  /\ Calls(s)
  /\ StopAll
  /\ ticking' = FALSE /\ cursor' = 0 /\ tickNow' = 0 /\ invoked' = FALSE
  /\ age' = Called(s)
  /\ UNCHANGED <<definition, position, nextAt, repeating, now, played>>

\* After the last slot: SEQUENCE_COMPLETE once no track is active.
TickEnd ==
  /\ ticking /\ cursor = Tracks
  /\ running' = IF invoked /\ active = {} THEN FALSE ELSE running
  /\ ticking' = FALSE /\ cursor' = 0 /\ tickNow' = 0 /\ invoked' = FALSE
  /\ UNCHANGED <<tracks, channelBusy, repeating, now, age, played>>

-----------------------------------------------------------------------------
TickStep ==
  \/ TickBegin \/ TickEnd
  \/ \E s \in Slot : \/ Skip(s) \/ CallNative(s) \/ CallStop(s) \/ CallFails(s)
                     \/ \E c \in Compiled, r \in BOOLEAN : CallProgram(s, c, r)

Command ==
  \/ \E s \in Slot, d \in Definition : Set(s, d)
  \/ \E s \in Slot : Clear({s})
  \/ Clear(Slot)
  \/ \E r \in BOOLEAN : Start(r)
  \/ \E c \in Compiled, r \in BOOLEAN : Program(c, r)
  \/ Stop

Next == TickStep \/ Command \/ Advance

\* The loop ticks its services for ever, and time passes.
Spec == Init /\ [][Next]_vars /\ WF_vars(TickStep) /\ WF_vars(Advance)

-----------------------------------------------------------------------------
(* Properties *)

\* The type of every variable.
TypeOK ==
  /\ definition \in [Slot -> Definition \cup {Blank}]
  /\ active \subseteq Slot /\ channelBusy \subseteq Slot
  /\ position \in [Slot -> 0 .. MaxBits] /\ nextAt \in [Slot -> 0 .. Modulus - 1]
  /\ running \in BOOLEAN /\ repeating \in BOOLEAN
  /\ now \in 0 .. Modulus - 1
  /\ ticking \in BOOLEAN /\ cursor \in 0 .. Tracks
  /\ tickNow \in 0 .. Modulus - 1 /\ invoked \in BOOLEAN
  /\ age \in [Slot -> 0 .. MaxInterval] /\ played \in [Slot -> 0 .. MaxBits]

\* Between ticks the sequencer runs exactly while some channel does, and
\* channelBusy says which, also after a channel has stopped or replaced the
\* sequence it belongs to: polling SEQUENCE_BUSY sees the end.
BusyIsActive ==
  /\ channelBusy = active
  /\ ~ticking => (running <=> active # {})

\* A tick reads only bits of the pattern: tick indexes bits with position.
InPattern == \A s \in active : position[s] < definition[s].bitCount

\* A channel is not called before its interval has passed since the pass
\* that called it last, across the wrap of millis().
Paced ==
  [][\A s \in Slot :
       Calls(s) /\ tick' # tick => age[s] >= definition[s].interval]_vars

\* A sequence that does not repeat ends by itself, unless a channel or ever
\* new commands replace it by a compiled sequence.
FiniteEnds ==
  \/ []<><<\E c \in Compiled, r \in BOOLEAN : Program(c, r)>>_vars
  \/ (running /\ ~repeating /\ \A s \in Slot : definition[s].calls # "program")
       ~> (~running \/ repeating)

\* A channel plays its pattern from the first bit: the position of an active
\* channel is the number of bits it has played.  It does not hold when a
\* channel starts another sequence from within a tick.
PlayedFromFirstBit == \A s \in active : position[s] = played[s]
=============================================================================
