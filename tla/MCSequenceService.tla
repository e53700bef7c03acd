--------------------------- MODULE MCSequenceService ---------------------------
(***************************************************************************)
(* Instances of the sequencer for TLC.                                     *)
(***************************************************************************)
EXTENDS SequenceService

\* Two compiled sequences: one channel, and one for every slot.
MCCompiled ==
  LET flash == [calls |-> "native", interval |-> 1, bitCount |-> 2]
  IN  { [s \in Slot |-> IF s = 0 THEN flash ELSE Blank],
        [s \in Slot |-> [flash EXCEPT !.bitCount = 1]] }
=============================================================================
