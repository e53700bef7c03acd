---------------------------- MODULE BoundedQueue ----------------------------
(***************************************************************************)
(* What a result queue promises (esp/common/PROGRAM_MODEL.md): at most     *)
(* Capacity records in the order they were pushed, the oldest dropped and  *)
(* counted when a push finds the queue full.                               *)
(***************************************************************************)
EXTENDS Integers, Sequences

CONSTANTS
  Capacity,  \* CAPACITY
  Modulus,   \* number of values of the counter dropped_ (2^32)
  Record     \* the records pushed

VARIABLES queue, dropped

qvars == <<queue, dropped>>

QInit == queue = <<>> /\ dropped = 0

QPush(r) ==
  \/ /\ Len(queue) < Capacity
     /\ queue' = Append(queue, r)
     /\ UNCHANGED dropped
  \/ /\ Len(queue) = Capacity
     /\ queue' = Append(Tail(queue), r)
     /\ dropped' = IF dropped + 1 = Modulus THEN 0 ELSE dropped + 1

QPop(r) ==
  /\ queue # <<>>
  /\ r = Head(queue)
  /\ queue' = Tail(queue)
  /\ UNCHANGED dropped

QClear == queue' = <<>> /\ dropped' = 0

QNext == (\E r \in Record : QPush(r) \/ QPop(r)) \/ QClear

QSpec == QInit /\ [][QNext]_qvars
=============================================================================
