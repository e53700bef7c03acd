----------------------------- MODULE RecordQueue -----------------------------
(***************************************************************************)
(* NoobRecordQueue (esp/common/src/core/noob_record.h): a ring of Capacity *)
(* slots with head, tail and count.  A record is a member of Record; slots *)
(* keep what was last stored in them, also after a pop or a clear.         *)
(***************************************************************************)
EXTENDS Integers, Sequences

CONSTANTS Capacity, Modulus, Record

\* An empty record: what the slots hold initially.
CONSTANT Blank

ASSUME CapacityAssumption == Capacity \in Nat \ {0}
ASSUME ModulusAssumption == Modulus \in Nat \ {0}

VARIABLES records, head, tail, count, dropped

vars == <<records, head, tail, count, dropped>>

Slot == 0 .. Capacity-1

\* (i + 1) % CAPACITY
NextSlot(i) == IF i + 1 = Capacity THEN 0 ELSE i + 1

Init ==
  /\ records = [i \in Slot |-> Blank]
  /\ head = 0 /\ tail = 0 /\ count = 0 /\ dropped = 0

\* Faulty variant of Push: a push into a full queue forgets to move head.
PushOverwrite(r) ==
  /\ IF count = Capacity
       THEN /\ count' = Capacity
            /\ dropped' = IF dropped + 1 = Modulus THEN 0 ELSE dropped + 1
       ELSE /\ count' = count + 1
            /\ UNCHANGED dropped
  /\ records' = [records EXCEPT ![tail] = r]
  /\ tail' = NextSlot(tail)
  /\ UNCHANGED head

\* push: the oldest record goes when the ring is full; dropped_ is 32 bits.
Push(r) ==
  /\ IF count = Capacity
       THEN /\ head' = NextSlot(head)
            /\ count' = count
            /\ dropped' = IF dropped + 1 = Modulus THEN 0 ELSE dropped + 1
       ELSE /\ count' = count + 1
            /\ UNCHANGED <<head, dropped>>
  /\ records' = [records EXCEPT ![tail] = r]
  /\ tail' = NextSlot(tail)

\* pop
Pop ==
  /\ count > 0
  /\ head' = NextSlot(head)
  /\ count' = count - 1
  /\ UNCHANGED <<records, tail, dropped>>

\* clear
Clear ==
  /\ head' = 0 /\ tail' = 0 /\ count' = 0 /\ dropped' = 0
  /\ UNCHANGED records

Next == (\E r \in Record : Push(r)) \/ Pop \/ Clear

Spec == Init /\ [][Next]_vars

-----------------------------------------------------------------------------
\* The slot k places behind the head.
Place(k) == IF head + k >= Capacity THEN head + k - Capacity ELSE head + k

\* The records in the ring, oldest first.
Contents == [k \in 1 .. count |-> records[Place(k - 1)]]

\* The type of every variable: the three indices stay inside the ring.
TypeOK ==
  /\ head \in Slot /\ tail \in Slot
  /\ count \in 0 .. Capacity
  /\ dropped \in 0 .. Modulus-1
  /\ records \in [Slot -> Record \cup {Blank}]

(***************************************************************************)
(* The three indices agree: tail is count slots behind head, also after    *)
(* the ring has wrapped and when it is full; and no slot between them is   *)
(* one that push never filled.                                             *)
(***************************************************************************)
RingOK ==
  /\ tail = IF count = Capacity THEN head ELSE Place(count)
  /\ \A k \in 1 .. count : Contents[k] \in Record

(***************************************************************************)
(* The ring implements the bounded queue: first in, first out, dropping    *)
(* and counting the oldest record on overflow.                             *)
(***************************************************************************)
Abstract == INSTANCE BoundedQueue WITH queue <- Contents
Implements == Abstract!QSpec
=============================================================================
