-------------------------- MODULE CouncilRotation --------------------------
(***************************************************************************)
(* The turn of the hub seen as a rotation.  The hub of CouncilService is   *)
(* given the history variable of TurnRotation: passed[d] is the number of  *)
(* times arbitration_next has given the turn to somebody else since d last *)
(* held the turn, spoke, or came online.                                   *)
(***************************************************************************)
EXTENDS CouncilService

VARIABLE passed

hubVars == <<vars, passed>>

\* A granted name that is not in the book is nobody's turn.
Rotation == INSTANCE TurnRotation WITH
              current_speaker <- IF current_speaker = Stranger THEN None ELSE current_speaker

\* The two callers of arbitration_next: a broadcast that was delivered, and a
\* STATUS that found the speaker gone.
Rotates(c) == SettleBroadcast(c) \/ Pass(c)

Previous(c) == IF pc[c] = "settle" THEN job[c].person ELSE job[c].arg

Counted(previous, n) ==
  [d \in Contact |-> IF d \in {n, previous} \/ d \notin online THEN 0 ELSE passed[d] + 1]

\* The presence of d changes, or d is given the turn.
Renewed(d) == (d \in online) # (d \in online') \/ (d = current_speaker' /\ d # current_speaker)

NotPassed == [c \in Contact |-> 0]

HubNext ==
  \/ \E c \in Conns : Rotates(c) /\ passed' = Counted(Previous(c), current_speaker')
  \/ /\ Work /\ ~\E c \in Conns : Rotates(c)
     /\ passed' = [d \in Contact |-> IF Renewed(d) THEN 0 ELSE passed[d]]
  \/ Restart /\ passed' = NotPassed

HubSpec == Init /\ passed = NotPassed /\ [][HubNext]_hubVars

-----------------------------------------------------------------------------
(***************************************************************************)
(* Nobody starves: a contact that stays online is passed over by           *)
(* arbitration_next at most N-1 times before it holds the turn or speaks,  *)
(* whatever the connections do at once: messages and STATUS probes share   *)
(* one next_index, deliveries change who is online in the middle of a      *)
(* fan-out, and GRANT and closures move the turn past the rotation.        *)
(***************************************************************************)
NoStarvation == \A d \in Contact : passed[d] <= N - 1

(***************************************************************************)
(* The hub implements the rotation: every change of the turn or of the     *)
(* scan position is a whole arbitration_next, a grant, the end of a turn   *)
(* or a restart, however the critical sections of handlers interleave.     *)
(***************************************************************************)
RotatesTurn == Rotation!Spec
=============================================================================
