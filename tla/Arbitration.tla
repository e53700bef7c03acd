----------------------------- MODULE Arbitration -----------------------------
(***************************************************************************)
(* The turn arbiter of the Council (council/src/arbitration.c).            *)
(*                                                                         *)
(* A contact is its index in the contact book, so the book is 0..N-1 and   *)
(* comparing two names is comparing two indices.  The operators of this    *)
(* module are the functions of arbitration.c on the two fields of          *)
(* arbitration_state, next_index and current_speaker.                      *)
(***************************************************************************)
EXTENDS Integers

CONSTANTS
  N,     \* number of contacts in the book (contact_book.count)
  None   \* the empty current_speaker: nobody holds the turn

ASSUME NAssumption == N \in Nat \ {0}
ASSUME NoneAssumption == None \notin Int

Contact == 0 .. N-1

\* Faulty variant of Succ: the scan stays at the contact just picked.
SuccStuck(i) == i

\* (i + 1) % b->count
Succ(i) == IF i + 1 = N THEN 0 ELSE i + 1

\* The number of entries the scan that starts at index i passes before j.
Distance(i, j) == IF i <= j THEN j - i ELSE j + N - i

\* The contacts arbitration_next may pick: online and not the previous speaker.
Candidates(online, previous) == online \ {previous}

\* c is the contact at which the scan from next_index stops.
IsPick(c, next_index, online, previous) ==
  /\ c \in Candidates(online, previous)
  /\ \A d \in Candidates(online, previous) :
        Distance(next_index, c) <= Distance(next_index, d)

\* arbitration_can_speak
CanSpeak(current_speaker, name) == current_speaker \in {None, name}
=============================================================================
