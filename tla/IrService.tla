------------------------------ MODULE IrService ------------------------------
(***************************************************************************)
(* The raw capture of esp/common/src/services/Esp32IrService.cpp: an edge  *)
(* interrupt (captureEdge) fills a pulse buffer that the main loop closes, *)
(* reads, empties and hands back without ever masking the interrupt.       *)
(*                                                                         *)
(* Time is counted in units; age is micros() - captureLastEdgeUs and stops *)
(* at Idle, beyond which the code does not tell ages apart.  quiet and     *)
(* burst describe the wire: the time since its last edge, and the parity   *)
(* of the number of the transmission that its edges belong to (one ends    *)
(* when the wire is quiet for Idle units), so that two transmissions in a  *)
(* row are told apart.  A pulse is its duration: the level stored beside   *)
(* it goes wherever the duration goes and is left out.                     *)
(***************************************************************************)
EXTENDS Integers, Sequences

CONSTANTS
  Idle,      \* captureIdleUs
  MinPulse,  \* captureMinPulseUs: shorter pulses are not recorded
  MaxPulses  \* CAPTURE_MAX_PULSES

ASSUME IdleAssumption == Idle \in Nat \ {0} /\ MinPulse \in 0 .. Idle
ASSUME MaxPulsesAssumption == MaxPulses \in Nat \ {0}

VARIABLES
  quiet, burst,                \* the wire
  configured,                  \* begin() accepted the pins
  captureActive, captureFrameReady, captureOverflow,
  pulses,                      \* captureLevels/captureDurationsUs[0..capturedPulses)
  age,
  attached                     \* the interrupt is attached

wire == <<quiet, burst>>
service == <<captureActive, captureFrameReady, captureOverflow, pulses, age,
             attached>>

Pulse == [dur : 0 .. Idle-1, burst : 0 .. 1]

ServiceTypeOK ==
  /\ quiet \in 0 .. Idle /\ burst \in 0 .. 1
  /\ {configured, captureActive, captureFrameReady, captureOverflow, attached}
       \subseteq BOOLEAN
  /\ pulses \in Seq(Pulse) /\ Len(pulses) <= MaxPulses
  /\ age \in 0 .. Idle

ServiceInit ==
  /\ quiet = Idle /\ burst = 0
  /\ configured \in BOOLEAN
  /\ captureActive = FALSE /\ captureFrameReady = FALSE
  /\ captureOverflow = FALSE /\ attached = FALSE
  /\ pulses = <<>> /\ age = Idle

Older(t) == IF t < Idle THEN t + 1 ELSE t

Time ==
  /\ quiet' = Older(quiet) /\ age' = Older(age)
  /\ <<quiet', age'>> # <<quiet, age>>
  /\ UNCHANGED <<burst, configured, captureActive, captureFrameReady,
                 captureOverflow, pulses, attached>>

\* Faulty variant of captureEdge: no new frame after an idle gap.
captureEdgeMerging ==
  IF ~attached \/ ~captureActive \/ captureFrameReady
  THEN UNCHANGED service
  ELSE /\ IF age >= MinPulse /\ Len(pulses) < MaxPulses
            THEN pulses' = Append(pulses, [dur |-> IF age = Idle THEN Idle-1 ELSE age, burst |-> burst'])
            ELSE UNCHANGED pulses
       /\ age' = 0
       /\ UNCHANGED <<captureActive, captureFrameReady, captureOverflow, attached>>

(***************************************************************************)
(* captureEdge: quiescent while a frame waits; the first edge after an     *)
(* idle gap closes the frame; any other edge ends a pulse.                 *)
(***************************************************************************)
captureEdge ==
  IF ~attached \/ ~captureActive \/ captureFrameReady
  THEN UNCHANGED service
  ELSE /\ IF age >= Idle
            THEN /\ captureFrameReady' = (pulses # <<>>)
                 /\ UNCHANGED <<pulses, captureOverflow>>
            ELSE /\ IF age < MinPulse
                      THEN UNCHANGED <<pulses, captureOverflow>>
                      ELSE IF Len(pulses) < MaxPulses
                      THEN /\ pulses' = Append(pulses,
                                [dur |-> age, burst |-> burst'])
                           /\ UNCHANGED captureOverflow
                      ELSE captureOverflow' = TRUE /\ UNCHANGED pulses
                 /\ UNCHANGED captureFrameReady
       /\ age' = 0
       /\ UNCHANGED <<captureActive, attached>>

\* An edge on the wire: the interrupt runs.
Edge ==
  /\ quiet' = 0
  /\ burst' = IF quiet = Idle THEN 1 - burst ELSE burst
  /\ captureEdge
  /\ UNCHANGED configured

-----------------------------------------------------------------------------
\* What the main loop does to the capture.

\* captureStop.  The buffer and the times are not read before captureStart
\* sets them; they get fixed values here.
captureStop ==
  /\ captureActive' = FALSE /\ captureFrameReady' = FALSE /\ attached' = FALSE
  /\ pulses' = <<>> /\ captureOverflow' = FALSE
  /\ age' = Idle

\* captureStop and then captureStart (its caller has just stopped it).
captureRestart ==
  /\ captureActive' = configured /\ attached' = configured
  /\ pulses' = <<>> /\ captureOverflow' = FALSE /\ captureFrameReady' = FALSE
  /\ age' = 0

\* The second half of captureReady: detach, then mark the frame.  The times
\* are not read before captureRearm sets them.
closeFrame ==
  /\ attached' = FALSE /\ captureFrameReady' = TRUE
  /\ age' = Idle
  /\ UNCHANGED <<captureActive, captureOverflow, pulses>>

\* captureRearm, up to and including captureFrameReady = false ...
rearmEmpty ==
  /\ pulses' = <<>> /\ captureOverflow' = FALSE /\ captureFrameReady' = FALSE
  /\ UNCHANGED <<captureActive, age, attached>>

\* ... and the rest, after which an interrupt is measured from now.
rearmAttach ==
  /\ age' = 0 /\ attached' = TRUE
  /\ UNCHANGED <<captureActive, captureFrameReady, captureOverflow, pulses>>
=============================================================================
