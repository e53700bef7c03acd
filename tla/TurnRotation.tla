---------------------------- MODULE TurnRotation ----------------------------
(***************************************************************************)
(* The round-robin rotation that arbitration_next performs over the        *)
(* contact book, interleaved with explicit grants (a message addressed to  *)
(* one participant, GRANT, a continue vote), with presence changes and     *)
(* with restarts of the hub.                                               *)
(*                                                                         *)
(* passed[c] is a history variable: the number of times arbitration_next   *)
(* has given the turn to somebody else since c last held the turn, spoke,  *)
(* or came online.                                                         *)
(***************************************************************************)
EXTENDS Arbitration

VARIABLES next_index, current_speaker, online, passed

vars == <<next_index, current_speaker, online, passed>>

\* A hub starts with the speaker that its transcript names.
Init ==
  /\ next_index = 0
  /\ current_speaker \in Contact \cup {None}
  /\ online = {}
  /\ passed = [c \in Contact |-> 0]

\* arbitration_next(previous) stops at contact c.
Advance(previous, c) ==
  /\ IsPick(c, next_index, online, previous)
  /\ next_index' = Succ(c)
  /\ current_speaker' = c
  /\ passed' = [d \in Contact |->
                  IF d \in {c, previous} \/ d \notin online
                    THEN 0 ELSE passed[d] + 1]
  /\ UNCHANGED online

\* arbitration_next(previous) finds nobody: the turn is cleared.
Exhaust(previous) ==
  /\ Candidates(online, previous) = {}
  /\ current_speaker' = None
  /\ UNCHANGED <<next_index, online, passed>>

\* arbitration_grant(c) outside arbitration_next: next_index stays.
Grant(c) ==
  /\ current_speaker' = c
  /\ passed' = [passed EXCEPT ![c] = 0]
  /\ UNCHANGED <<next_index, online>>

\* The conversation ends: arbitration_grant with the empty name.
Clear ==
  /\ current_speaker' = None
  /\ UNCHANGED <<next_index, online, passed>>

\* A probe, a delivery or a connection changes what is known of c's presence.
Presence(c) ==
  /\ \/ c \in online /\ online' = online \ {c}
     \/ c \notin online /\ online' = online \cup {c}
  /\ passed' = [passed EXCEPT ![c] = 0]
  /\ UNCHANGED <<next_index, current_speaker>>

\* main: arbitration_init, then the speaker of the transcript.
Restart ==
  /\ next_index' = 0
  /\ current_speaker' \in Contact \cup {None}
  /\ online' = {}
  /\ passed' = [c \in Contact |-> 0]

\* The previous speaker is a contact, or (None) a granted name that is not in
\* the book.
Next ==
  \/ \E previous \in Contact \cup {None} :
       \/ \E c \in Contact : Advance(previous, c)
       \/ Exhaust(previous)
  \/ \E c \in Contact : Grant(c) \/ Presence(c)
  \/ Clear \/ Restart

Spec == Init /\ [][Next]_vars

-----------------------------------------------------------------------------
\* The type of every variable.
TypeOK ==
  /\ next_index \in Contact
  /\ current_speaker \in Contact \cup {None}
  /\ online \in SUBSET Contact
  /\ passed \in [Contact -> Nat]

(***************************************************************************)
(* Nobody starves: a contact that stays online is passed over by           *)
(* arbitration_next at most N-1 times before it holds the turn or speaks,  *)
(* however explicit grants and presence changes interleave (the single     *)
(* next_index shared by the message path and the offline path).            *)
(***************************************************************************)
NoStarvation == \A c \in Contact : passed[c] <= N - 1

(***************************************************************************)
(* What makes NoStarvation inductive: every time c is passed over the scan *)
(* position moves towards c, and never past it.                            *)
(***************************************************************************)
ScanApproaches ==
  \A c \in Contact : passed[c] + Distance(next_index, c) <= N - 1 \/ passed[c] = 0
=============================================================================
