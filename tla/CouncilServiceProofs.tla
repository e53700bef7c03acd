------------------------ MODULE CouncilServiceProofs ------------------------
(***************************************************************************)
(* For every contact book, every set of connection threads and every       *)
(* choice of requests and delivery outcomes: the hub's state keeps its     *)
(* type, and the lease admits one initiation at a time.                    *)
(*                                                                         *)
(* Then for a hub whose connections come one after another: what survives  *)
(* a restart, what ends a conversation, what an accepted message holds.    *)
(*                                                                         *)
(* Then the rotation of the turn: nobody who is there is passed over N     *)
(* times in a row, proved of TurnRotation and carried over to the hub by   *)
(* a refinement.                                                           *)
(*                                                                         *)
(* Last the handlers: none takes more than 8 + 2 N steps, and none is ever *)
(* without a next one.                                                     *)
(***************************************************************************)
EXTENDS CouncilRotation, FiniteSetTheorems, WellFoundedInduction, TLAPS

\* The contact picked by the rotation is a contact, and so is its successor.
LEMMA PickType ==
  ASSUME NEW n \in Contact
  PROVE  Succ(n) \in Contact
BY NAssumption DEF Contact, Succ

\* A handler that returns keeps the types of pc and job.
LEMMA IdleType == Idle \in Job
BY DEF Idle, Job, Verb, Name

\* The locals of every handler have their types.
LocalsOK ==
  /\ pc \in [Conns -> Label]
  /\ job \in [Conns -> Job]
  /\ \A c \in Conns : pc[c] # "free" => job[c].person \in Contact
  /\ \A c \in Conns : pc[c] = "speak" => job[c].next \in AI

\* Returning from a handler.
LEMMA DoneLocals ==
  ASSUME LocalsOK, NEW c \in Conns, Done(c)
  PROVE  LocalsOK'
BY IdleType DEF LocalsOK, Done, Goto, Label, Idle

\* Moving on to a label other than "speak" without touching the locals.
LEMMA GotoLocals ==
  ASSUME LocalsOK, NEW c \in Conns, pc[c] # "free",
         NEW l \in Label \ {"speak"}, Goto(c, l), UNCHANGED job
  PROVE  LocalsOK'
BY DEF LocalsOK, Goto


\* The state the threads share has its type.
SharedOK ==
  /\ next_index \in Contact
  /\ current_speaker \in Name
  /\ online \in SUBSET Contact
  /\ recent \in SUBSET Human
  /\ activity_until \in BOOLEAN /\ activity \in BOOLEAN
  /\ initiations \in Nat /\ conversing \in BOOLEAN
  /\ closure_active \in BOOLEAN
  /\ closure_expected \in SUBSET Contact
  /\ closure_votes \in [Contact -> {-1, 0, 1}]
  /\ logged \in Name

LEMMA TypeSplit == TypeOK <=> SharedOK /\ LocalsOK
BY DEF TypeOK, SharedOK, LocalsOK

\* The rest of a handler's locals and its label change together.
LEMMA LocalsChange ==
  ASSUME LocalsOK, NEW c \in Conns, NEW j \in Job, NEW l \in Label,
         j.person \in Contact, l = "speak" => j.next \in AI,
         Goto(c, l), job' = [job EXCEPT ![c] = j]
  PROVE  LocalsOK'
BY DEF LocalsOK, Goto

\* Accepting a connection, or a step of one handler, keeps the types.
LEMMA AcceptType ==
  ASSUME TypeOK, NEW c \in Conns, NEW r \in Requests, Accept(c, r)
  PROVE  TypeOK'
<1>1. r \in Request
  BY RequestsAssumption
<1>2. [Idle EXCEPT !.person = r.person, !.verb = r.verb, !.arg = r.arg] \in Job
  BY ZenonT(60), <1>1 DEF Idle, Job, Request, Verb, Name
<1>3. LocalsOK'
  BY <1>1, <1>2, TypeSplit DEF Accept, LocalsOK, Goto, Request, Label, Idle
<1>4. SharedOK'
  BY <1>1, TypeSplit DEF Accept, SharedOK, Request, Human, arbitration, lease, closure
<1> QED
  BY <1>3, <1>4 DEF TypeOK, SharedOK, LocalsOK

LEMMA StepType ==
  ASSUME TypeOK, NEW c \in Conns, Step(c)
  PROVE  TypeOK'
<1> USE TypeSplit
<1> SUFFICES SharedOK' /\ LocalsOK'
  BY DEF TypeOK, SharedOK, LocalsOK
<1>1. CASE Drop(c) \/ Refuse(c) \/ ReserveBusy(c) \/ ProposeActive(c) \/ VoteRefused(c)
  BY <1>1, DoneLocals DEF Drop, Refuse, ReserveBusy, ProposeActive, VoteRefused,
     SharedOK, arbitration, presence, lease, closure
<1>2. CASE Admit(c)
  <2>1. job[c] \in Job /\ job[c].verb \in Verb
    BY <1>2 DEF LocalsOK, Job
  <2>2. Entry(job[c].verb) \in Label \ {"speak"}
    BY <2>1 DEF Entry, Label, Verb
  <2>3. LocalsOK'
    BY <1>2, <2>1, <2>2 DEF Admit, LocalsOK, Goto, Job
  <2> QED
    BY <1>2, <2>3 DEF Admit, SharedOK, arbitration, presence, lease, closure
<1>3. CASE Reserve(c)
  BY <1>3, GotoLocals DEF Reserve, SharedOK, Label, arbitration, presence, closure
<1>4. CASE RouteToSelf(c) \/ SettleOffline(c)
  BY <1>4, GotoLocals DEF RouteToSelf, SettleOffline, SharedOK, Label,
     arbitration, presence, lease, closure
<1>5. CASE Route(c)
  <2> DEFINE target == Target(job[c].arg)
             to == Destinations(job[c].person, target)
  <2>1. to \in SUBSET Contact
    BY RoleAssumption DEF Destinations
  <2>2. (IF target \in Human \cap online THEN target ELSE None) \in Name
    BY DEF Human, Name
  <2> DEFINE j == [job[c] EXCEPT !.next = IF target \in Human \cap online
                                            THEN target ELSE None,
                                 !.todo = to]
  <2>3. j \in Job /\ j.person \in Contact
    BY ZenonT(60), <1>5, <2>1, <2>2 DEF Route, LocalsOK, Job
  <2>4. job' = [job EXCEPT ![c] = j]
    BY ZenonT(60), <1>5 DEF Route, LocalsOK
  <2>5. LocalsOK'
    BY ZenonT(60), <1>5, <2>3, <2>4, LocalsChange DEF Route, Label
  <2> QED
    BY <1>5, <2>5 DEF Route, SharedOK, arbitration, presence, lease, closure
<1>6. CASE Fanout(c)
  <2>1. PICK d \in job[c].todo, ok \in BOOLEAN :
          /\ SetOnline(d, ok)
          /\ job' = [job EXCEPT ![c].todo = @ \ {d},
                                ![c].next = IF ok /\ Target(job[c].arg) # None
                                              THEN d ELSE @]
          /\ Goto(c, IF job[c].todo = {d} THEN "settle" ELSE "fanout")
    <3>1. PICK d \in job[c].todo : \E ok \in Reach[d] :
            /\ SetOnline(d, ok)
            /\ job' = [job EXCEPT ![c].todo = @ \ {d},
                                  ![c].next = IF ok /\ Target(job[c].arg) # None
                                                THEN d ELSE @]
            /\ Goto(c, IF job[c].todo = {d} THEN "settle" ELSE "fanout")
      BY <1>6, Zenon DEF Fanout
    <3>2. d \in Contact
      BY <3>1 DEF LocalsOK, Job
    <3>3. Reach[d] \subseteq BOOLEAN
      BY <3>2, ReachAssumption
    <3> QED
      BY <3>1, <3>3, Zenon
  <2>2. job[c] \in Job /\ d \in Contact /\ job[c].person \in Contact
    BY <1>6, <2>1 DEF Fanout, LocalsOK, Job
  <2> DEFINE j == [job[c] EXCEPT !.todo = @ \ {d},
                                 !.next = IF ok /\ Target(job[c].arg) # None
                                            THEN d ELSE @]
  <2>4. j \in Job /\ j.person \in Contact
    BY ZenonT(60), <2>2 DEF Job, Name
  <2>5. job' = [job EXCEPT ![c] = j]
    BY ZenonT(60), <2>1 DEF LocalsOK
  <2>3. LocalsOK'
    BY ZenonT(60), <2>1, <2>4, <2>5, LocalsChange DEF Label
  <2> QED
    BY <1>6, <2>1, <2>2, <2>3
       DEF Fanout, SetOnline, SharedOK, arbitration, lease, closure
<1>7. CASE SettleBroadcast(c) \/ Pass(c)
  <2>1. PICK n \in Contact : /\ current_speaker' = n
                             /\ next_index' = Succ(n)
                             /\ job' = [job EXCEPT ![c].next = n]
                             /\ Goto(c, Announce(n))
    BY <1>7 DEF SettleBroadcast, Pass, NextIs
  <2>2. LocalsOK'
    BY <1>7, <2>1 DEF SettleBroadcast, Pass, LocalsOK, Goto, Job, Label, Name, Announce
  <2> QED
    BY <1>7, <2>1, <2>2, PickType
       DEF SettleBroadcast, Pass, SharedOK, Name, presence, lease, closure
<1>8. CASE SettleNobody(c)
  BY <1>8, GotoLocals
     DEF SettleNobody, NextIsNobody, SharedOK, Label, Name, presence, lease, closure
<1>9. CASE SettleTarget(c)
  <2>1. job[c].next \in Name
    BY DEF LocalsOK, Job
  <2>2. LocalsOK'
    BY <1>9 DEF SettleTarget, LocalsOK, Goto, Label, Announce
  <2> QED
    BY <1>9, <2>1, <2>2 DEF SettleTarget, SharedOK, presence, lease, closure
<1>10. CASE Unrouted(c)
  <2>1. LocalsOK'
    BY <1>10, DoneLocals DEF Unrouted
  <2>2. CASE Reserved(job[c].verb)
    <3>1. Release
      BY <1>10, <2>2, Zenon DEF Unrouted
    <3> QED
      BY ZenonT(60), <1>10, <2>1, <3>1
         DEF Unrouted, Release, SharedOK, arbitration, presence, closure
  <2>3. CASE ~Reserved(job[c].verb)
    BY <1>10, <2>1, <2>3 DEF Unrouted, SharedOK, arbitration, presence, closure
  <2> QED
    BY <2>2, <2>3
<1>11. CASE Speak(c)
  BY <1>11, GotoLocals, RoleAssumption
     DEF Speak, SetOnline, SharedOK, LocalsOK, Label, arbitration, lease, closure
<1>12. CASE LogGrant(c)
  <2>1. job[c].next \in Name
    BY DEF LocalsOK, Job
  <2>2. LocalsOK'
    BY <1>12, DoneLocals, GotoLocals DEF LogGrant, Label
  <2> QED
    BY <1>12, <2>1, <2>2 DEF LogGrant, SharedOK, arbitration, presence, lease, closure
<1>13. CASE Mark(c)
  BY <1>13, GotoLocals DEF Mark, SharedOK, Label, arbitration, presence, closure
<1>14. CASE MarkFile(c)
  BY <1>14, DoneLocals DEF MarkFile, SharedOK, arbitration, presence, closure
<1>15. CASE Grant(c)
  <2>1. job[c].arg \in Name
    BY DEF LocalsOK, Job
  <2>2. LocalsOK'
    BY <1>15, <2>1 DEF Grant, LocalsOK, Goto, Job, Label
  <2> QED
    BY <1>15, <2>1, <2>2 DEF Grant, SharedOK, presence, lease, closure
<1>16. CASE Transfer(c)
  BY <1>16, DoneLocals, GotoLocals
     DEF Transfer, SharedOK, Label, arbitration, presence, lease, closure
<1>17. CASE Propose(c)
  <2>1. LocalsOK'
    BY <1>17 DEF Propose, StartTally, LocalsOK, Goto, Job, Label
  <2> QED
    BY <1>17, <2>1, RoleAssumption
       DEF Propose, SharedOK, Human, arbitration, presence, lease
<1>18. CASE Vote(c)
  <2>1. LocalsOK'
    BY SMTT(60), <1>18, GotoLocals DEF Vote, StartTally, LocalsOK, Goto, Job, Label
  <2> QED
    BY <1>18, <2>1 DEF Vote, SharedOK, arbitration, presence, lease
<1>19. CASE Tally(c)
  <2>1. PICK i \in job[c].todo :
          \/ /\ job' = [job EXCEPT ![c].todo = @ \ {i}]
             /\ Goto(c, IF job[c].todo = {i} THEN "endlog" ELSE "tally")
          \/ Done(c)
    BY <1>19 DEF Tally
  <2>2. LocalsOK'
    BY SMTT(60), <1>19, <2>1, DoneLocals DEF Tally, LocalsOK, Goto, Job, Label
  <2> QED
    BY <1>19, <2>2 DEF Tally, SharedOK, arbitration, presence, lease, closure
<1>20. CASE EndLog(c)
  BY <1>20, GotoLocals
     DEF EndLog, SharedOK, Label, Name, arbitration, presence, lease, closure
<1>21. CASE EndTurn(c)
  BY ZenonT(60), <1>21, GotoLocals DEF EndTurn, SharedOK, Label, Name, presence, lease
<1>22. CASE EndLease(c)
  BY ZenonT(60), <1>22, DoneLocals DEF EndLease, Release, SharedOK, arbitration, presence, closure
<1>23. CASE Cancel(c)
  <2>1. job[c].person \in Contact
    BY <1>23 DEF Cancel, LocalsOK
  <2>2. LocalsOK'
    BY SMTT(60), <1>23, <2>1 DEF Cancel, LocalsOK, Goto, Job, Label, Name
  <2> QED
    BY ZenonT(60), <1>23, <2>1, <2>2 DEF Cancel, SharedOK, Name, presence, lease
<1>24. CASE Probe(c)
  <2>1. PICK i \in job[c].todo :
          \E ok \in IF i \in AI THEN Reach[i] ELSE {i \in recent} :
            job' = [job EXCEPT ![c].ok = ok]
    BY ZenonT(60), <1>24 DEF Probe
  <2>2. i \in Contact
    BY <2>1 DEF LocalsOK, Job
  <2>3. PICK ok \in BOOLEAN : job' = [job EXCEPT ![c].ok = ok]
    BY ZenonT(60), <2>1, <2>2, ReachAssumption
  <2>4. LocalsOK'
    BY <1>24, <2>3 DEF Probe, LocalsOK, Goto, Job, Label
  <2> QED
    BY <1>24, <2>4 DEF Probe, SharedOK, arbitration, presence, lease, closure
<1>25. CASE Store(c)
  <2>1. PICK i \in job[c].todo :
          /\ SetOnline(i, job[c].ok)
          /\ job' = [job EXCEPT ![c].todo = @ \ {i}]
          /\ Goto(c, IF job[c].todo = {i} THEN "holder" ELSE "probe")
    BY ZenonT(60), <1>25 DEF Store
  <2>2. i \in Contact
    BY <2>1 DEF LocalsOK, Job
  <2>3. LocalsOK'
    BY <1>25, <2>1 DEF Store, LocalsOK, Goto, Job, Label
  <2> QED
    BY <1>25, <2>1, <2>2, <2>3
       DEF Store, SetOnline, SharedOK, arbitration, lease, closure
<1>26. CASE Holder(c)
  <2>1. CASE current_speaker = None
    BY <1>26, <2>1, DoneLocals DEF Holder, SharedOK, arbitration, presence, lease, closure
  <2>2. CASE current_speaker # None
    BY SMTT(60), <1>26, <2>2 DEF Holder, LocalsOK, SharedOK, Goto, Job, Label, arbitration,
       presence, lease, closure
  <2> QED
    BY <2>1, <2>2
<1>27. CASE Vacant(c)
  BY <1>27, DoneLocals, GotoLocals
     DEF Vacant, SharedOK, Label, arbitration, presence, lease, closure
<1>28. CASE PassNobody(c)
  BY <1>28, DoneLocals
     DEF PassNobody, NextIsNobody, SharedOK, Name, presence, lease, closure
<1> QED
  BY <1>1, <1>2, <1>3, <1>4, <1>5, <1>6, <1>7, <1>8, <1>9, <1>10, <1>11, <1>12,
     <1>13, <1>14, <1>15, <1>16, <1>17, <1>18, <1>19, <1>20, <1>21, <1>22, <1>23,
     <1>24, <1>25, <1>26, <1>27, <1>28 DEF Step

\* The start of the scan, and the empty ballot.
LEMMA StartType == 0 \in Contact /\ NoVotes \in [Contact -> {-1, 0, 1}]
BY NAssumption DEF Contact, NoVotes

\* The history variables when a lease runs out, or the process ends.
LEMMA ExpireType ==
  ASSUME initiations \in Nat, NEW running, Expire(running)
  PROVE  initiations' \in Nat /\ conversing' \in BOOLEAN
<1>1. initiations' \in Nat
  BY DEF Expire
<1>2. conversing' \in BOOLEAN
  BY Zenon DEF Expire
<1> QED
  BY <1>1, <1>2

\* Every variable keeps its type, in every interleaving and across restarts.
THEOREM TypeCorrect == Spec => []TypeOK
<1>1. Init => TypeOK
  <2> SUFFICES ASSUME Init PROVE SharedOK /\ LocalsOK
    BY TypeSplit
  <2>1. activity \in BOOLEAN
    BY Zenon DEF Init
  <2>3. SharedOK
    BY ZenonT(60), <2>1, StartType DEF Init, SharedOK, Name
  <2>2. LocalsOK
    BY IdleType DEF Init, LocalsOK, Label
  <2> QED
    BY <2>2, <2>3
<1>2. TypeOK /\ [Next]_vars => TypeOK'
  <2> SUFFICES ASSUME TypeOK, [Next]_vars PROVE TypeOK'
    OBVIOUS
  <2>1. CASE \E c \in Conns : Step(c) \/ \E r \in Requests : Accept(c, r)
    BY <2>1, StepType, AcceptType
  <2>2. CASE LapseMemory \/ LapseFile
    <3>1. initiations' \in Nat /\ conversing' \in BOOLEAN
      BY <2>2, ExpireType DEF LapseMemory, LapseFile, TypeOK
    <3> QED
      BY ZenonT(60), <2>2, <3>1 DEF LapseMemory, LapseFile, TypeOK, arbitration, presence, closure
  <2>3. ASSUME NEW h \in Human, Fade(h) PROVE TypeOK'
    BY <2>3 DEF Fade, TypeOK, arbitration, lease, closure
  <2>4. CASE Restart
    <3>1. LocalsOK'
      BY <2>4, IdleType DEF Restart, LocalsOK, Label
    <3>2. initiations' \in Nat /\ conversing' \in BOOLEAN
      BY <2>4, ExpireType DEF Restart, TypeOK
    <3>3. activity' \in BOOLEAN
      BY <2>4, Zenon DEF Restart
    <3>4. SharedOK'
      BY ZenonT(60), <2>4, <3>2, <3>3, StartType DEF Restart, SharedOK, TypeOK
    <3> QED
      BY <3>1, <3>4 DEF TypeOK, SharedOK, LocalsOK
  <2>5. CASE UNCHANGED vars
    BY <2>5 DEF vars, TypeOK, arbitration, presence, lease, closure
  <2> QED
    BY <2>1, <2>2, <2>3, <2>4, <2>5 DEF Next, Work
<1> QED
  BY <1>1, <1>2, PTL DEF Spec

\* A lease covers at most one initiation: the inductive invariant.
LeaseInv == OneInitiation /\ LeaseCoversInitiation

\* The steps that leave the whole lease alone.
LEMMA LeaseUntouched ==
  ASSUME LeaseInv, UNCHANGED lease
  PROVE  LeaseInv'
BY DEF LeaseInv, OneInitiation, LeaseCoversInitiation, Busy, lease

LEMMA StepLease ==
  ASSUME TypeOK, LeaseInv, NEW c \in Conns, Step(c)
  PROVE  LeaseInv'
<1> USE DEF LeaseInv, OneInitiation, LeaseCoversInitiation, Busy, TypeOK
<1>1. CASE Reserve(c)
  BY <1>1 DEF Reserve
<1>2. CASE Unrouted(c)
  <2>1. CASE Reserved(job[c].verb)
    <3>1. Release
      BY <1>2, <2>1, Zenon DEF Unrouted
    <3> QED
      BY <3>1 DEF Release
  <2>2. CASE ~Reserved(job[c].verb)
    BY <1>2, <2>2 DEF Unrouted
  <2> QED
    BY <2>1, <2>2
<1>3. CASE EndLease(c)
  BY <1>3 DEF EndLease, Release
<1>4. CASE Mark(c) \/ MarkFile(c)
  BY <1>4 DEF Mark, MarkFile
<1>5. CASE ~(Reserve(c) \/ Unrouted(c) \/ EndLease(c) \/ Mark(c) \/ MarkFile(c))
  <2>1. UNCHANGED lease
    BY <1>5 DEF Step, Drop, Refuse, Admit, ReserveBusy, RouteToSelf, Route, Fanout,
       SettleBroadcast, SettleNobody, SettleTarget, SettleOffline, Speak, LogGrant,
       Grant, Transfer, Propose, ProposeActive, Vote, VoteRefused, Tally, EndLog,
       EndTurn, Cancel, Probe, Store, Holder, Vacant, Pass, PassNobody
  <2> QED
    BY <2>1, LeaseUntouched, SMTT(60)
<1> QED
  BY <1>1, <1>2, <1>3, <1>4, <1>5

\* Test-and-set under the lock, together with two leases of which each blocks
\* a reservation, admits one initiation per lease whatever the other threads
\* do, and across restarts.
THEOREM LeaseIsExclusive == Spec => [](OneInitiation /\ LeaseCoversInitiation)
<1>1. Init => LeaseInv
  BY DEF Init, LeaseInv, OneInitiation, LeaseCoversInitiation
<1>2. TypeOK /\ LeaseInv /\ [Next]_vars => LeaseInv'
  <2> SUFFICES ASSUME TypeOK, LeaseInv, [Next]_vars PROVE LeaseInv'
    OBVIOUS
  <2>1. ASSUME NEW c \in Conns, Step(c) PROVE LeaseInv'
    BY <2>1, StepLease
  <2>2. ASSUME NEW c \in Conns, NEW r \in Requests, Accept(c, r) PROVE LeaseInv'
    BY <2>2, LeaseUntouched DEF Accept
  <2>3. CASE LapseMemory \/ LapseFile
    BY <2>3 DEF LapseMemory, LapseFile, Expire, LeaseInv, OneInitiation,
       LeaseCoversInitiation, Busy, TypeOK
  <2>4. ASSUME NEW h \in Human, Fade(h) PROVE LeaseInv'
    BY <2>4, LeaseUntouched DEF Fade
  <2>5. CASE Restart
    BY <2>5 DEF Restart, Expire, LeaseInv, OneInitiation, LeaseCoversInitiation,
       Busy, TypeOK
  <2>6. CASE UNCHANGED vars
    BY <2>6, LeaseUntouched DEF vars
  <2> QED
    BY <2>1, <2>2, <2>3, <2>4, <2>5, <2>6 DEF Next, Work
<1>3. LeaseInv => OneInitiation /\ LeaseCoversInitiation
  BY DEF LeaseInv
<1> QED
  BY <1>1, <1>2, <1>3, TypeCorrect, PTL DEF Spec

\* An initiation that was counted is covered by a lease in memory or on disk,
\* which is what makes a second one find the council busy.
THEOREM LeaseIsCover == Spec => []LeaseCoversInitiation
  BY LeaseIsExclusive, PTL

-----------------------------------------------------------------------------
(***************************************************************************)
(* Connections served one after another                                    *)
(*                                                                         *)
(* The remaining statements about the hub hold while no two handlers run   *)
(* at the same time, and only then: each of them is broken by two          *)
(* connections that meet between two critical sections.                    *)
(***************************************************************************)
Alone(c) == \A d \in Conns \ {c} : pc[d] = "free"

OneAtATime == \A c \in Conns : pc[c] # "free" => Alone(c)

\* Between the assignment of a turn and its line in the transcript.
Unlogged == {"speak", "loggrant", "endturn"}

\* The turn in memory is the turn in the transcript, except while the handler
\* that moved it is on its way to append the line.
TurnInv ==
  /\ (\A c \in Conns : pc[c] \notin Unlogged) => current_speaker \in {logged, None}
  /\ \A c \in Conns : pc[c] \in {"speak", "loggrant"} => current_speaker = job[c].next

\* The part of the ballot the count has gone through is unanimous.
BallotInv ==
  \A c \in Conns :
    /\ pc[c] = "tally" => \A i \in Contact \ job[c].todo : Closes(i)
    /\ pc[c] = "endlog" => \A i \in Contact : Closes(i)

\* An initiation that is still being routed was reserved on an idle council:
\* releasing it takes no lease from an accepted message.
HeldInv ==
  /\ LeaseHeld
  /\ \A c \in Conns :
       pc[c] \in {"route", "fanout", "settle", "unrouted"} /\ Reserved(job[c].verb)
         => ~conversing

\* A message on its way is one whose sender may speak.
RelayInv ==
  \A c \in Conns :
    /\ pc[c] = "reserve" => job[c].verb = "initiate"
    /\ pc[c] \in {"route", "fanout", "settle"} /\ job[c].verb = "say"
         => CanSpeak(current_speaker, job[c].person)

\* Routing a message, and one delivery of it.
LEMMA RouteMoves ==
  ASSUME TypeOK, NEW c \in Conns, Route(c) \/ Fanout(c)
  PROVE  /\ pc[c] \in {"route", "fanout"} /\ pc'[c] \in {"fanout", "settle"}
         /\ job'[c].verb = job[c].verb /\ job'[c].person = job[c].person
         /\ \A d \in Conns \ {c} : pc'[d] = pc[d] /\ job'[d] = job[d]
         /\ UNCHANGED <<arbitration, lease, logged>>
<1>1. CASE Route(c)
  <2>1. PICK n, to : job' = [job EXCEPT ![c].next = n, ![c].todo = to]
    BY <1>1, ZenonT(60) DEF Route
  <2>2. PICK l \in {"fanout", "settle"} : Goto(c, l)
    BY <1>1, ZenonT(60) DEF Route
  <2>3. pc[c] = "route" /\ UNCHANGED <<arbitration, lease, logged>>
    BY <1>1, ZenonT(60) DEF Route
  <2> QED
    BY <2>1, <2>2, <2>3, SMTT(60) DEF TypeOK, Goto, Job
<1>2. CASE Fanout(c)
  <2>1. PICK d, n : job' = [job EXCEPT ![c].todo = @ \ {d}, ![c].next = n]
    BY <1>2, ZenonT(60) DEF Fanout
  <2>2. PICK l \in {"fanout", "settle"} : Goto(c, l)
    BY <1>2, ZenonT(60) DEF Fanout
  <2>3. pc[c] = "fanout" /\ UNCHANGED <<arbitration, lease, logged>>
    BY <1>2, ZenonT(60) DEF Fanout
  <2> QED
    BY <2>1, <2>2, <2>3, SMTT(60) DEF TypeOK, Goto, Job
<1> QED
  BY <1>1, <1>2

\* A step of a handler moves that handler only.
LEMMA StepFrame ==
  ASSUME TypeOK, NEW c \in Conns, Step(c)
  PROVE  /\ pc[c] # "free"
         /\ \A d \in Conns \ {c} : pc'[d] = pc[d] /\ job'[d] = job[d]
<1> USE DEF TypeOK, Goto, Done
<1>1. CASE Drop(c) \/ Refuse(c) \/ Admit(c) \/ ReserveBusy(c) \/ Reserve(c)
  BY <1>1, SMTT(60) DEF Drop, Refuse, Admit, ReserveBusy, Reserve
<1>2. CASE RouteToSelf(c)
  BY <1>2, SMTT(60) DEF RouteToSelf
<1>8. CASE Route(c) \/ Fanout(c)
  BY <1>8, RouteMoves, SMTT(60)
<1>3. CASE SettleBroadcast(c) \/ SettleNobody(c) \/ SettleTarget(c) \/ SettleOffline(c)
  BY <1>3, SMTT(60) DEF SettleBroadcast, SettleNobody, SettleTarget, SettleOffline
<1>4. CASE Unrouted(c) \/ Speak(c) \/ LogGrant(c) \/ Mark(c) \/ MarkFile(c)
  BY <1>4, SMTT(60) DEF Unrouted, Speak, LogGrant, Mark, MarkFile
<1>5. CASE Grant(c) \/ Transfer(c) \/ Propose(c) \/ ProposeActive(c) \/ Vote(c)
  BY <1>5, SMTT(60) DEF Grant, Transfer, Propose, ProposeActive, Vote, StartTally
<1>6. CASE VoteRefused(c) \/ Tally(c) \/ EndLog(c) \/ EndTurn(c) \/ EndLease(c) \/ Cancel(c)
  BY <1>6, SMTT(60) DEF VoteRefused, Tally, EndLog, EndTurn, EndLease, Cancel
<1>7. CASE Probe(c) \/ Store(c) \/ Holder(c) \/ Vacant(c) \/ Pass(c) \/ PassNobody(c)
  BY <1>7, SMTT(60) DEF Probe, Store, Holder, Vacant, Pass, PassNobody
<1> QED
  BY <1>1, <1>2, <1>3, <1>4, <1>5, <1>6, <1>7, <1>8 DEF Step

\* What TurnInv says of the one handler that runs.
TurnAt(c) ==
  /\ pc[c] \notin Unlogged => current_speaker \in {logged, None}
  /\ pc[c] \in {"speak", "loggrant"} => current_speaker = job[c].next

LEMMA StepTurn ==
  ASSUME TypeOK, TurnInv, NEW c \in Conns, Alone(c), Step(c)
  PROVE  TurnInv'
<1>1. TurnAt(c)
  BY ZenonT(60) DEF TurnInv, TurnAt, Alone, Unlogged
<1>2. TurnAt(c)'
  <2> USE <1>1 DEF TypeOK, TurnAt, Unlogged, Goto, Done
  <2>1. CASE SettleBroadcast(c) \/ Pass(c)
    BY <2>1, SMTT(60) DEF SettleBroadcast, Pass, NextIs, Announce, Job
  <2>2. CASE SettleNobody(c) \/ PassNobody(c)
    BY <2>2, SMTT(60) DEF SettleNobody, PassNobody, NextIsNobody
  <2>3. CASE SettleTarget(c)
    BY <2>3, SMTT(60) DEF SettleTarget, Announce
  <2>4. CASE Grant(c) \/ Cancel(c)
    BY <2>4, SMTT(60) DEF Grant, Cancel, Job
  <2>5. CASE Speak(c) \/ LogGrant(c)
    BY <2>5, SMTT(60) DEF Speak, LogGrant, arbitration
  <2>6. CASE EndLog(c) \/ EndTurn(c)
    BY <2>6, SMTT(60) DEF EndLog, EndTurn, arbitration
  <2>7. CASE Drop(c) \/ Refuse(c) \/ ReserveBusy(c) \/ Reserve(c) \/ RouteToSelf(c)
               \/ SettleOffline(c) \/ Unrouted(c)
    BY <2>7, SMTT(60) DEF Drop, Refuse, ReserveBusy, Reserve, RouteToSelf, SettleOffline,
       Unrouted, arbitration
  <2>11. CASE Route(c) \/ Fanout(c)
    <3>1. pc[c] \notin Unlogged /\ pc'[c] \notin Unlogged
      BY <2>11, RouteMoves, SMTT(60)
    <3>2. UNCHANGED <<current_speaker, logged>>
      BY <2>11, RouteMoves, ZenonT(60) DEF arbitration
    <3> QED
      BY <3>1, <3>2, SMTT(60)
  <2>8. CASE Admit(c)
    <3>1. Entry(job[c].verb) \notin Unlogged
      BY SMTT(60) DEF Entry, Job, Verb
    <3> QED
      BY <2>8, <3>1, SMTT(60) DEF Admit, arbitration
  <2>9. CASE Mark(c) \/ MarkFile(c) \/ Transfer(c) \/ Propose(c) \/ ProposeActive(c)
               \/ Vote(c) \/ VoteRefused(c) \/ Tally(c) \/ EndLease(c)
    BY <2>9, SMTT(60) DEF Mark, MarkFile, Transfer, Propose, ProposeActive, Vote,
       VoteRefused, Tally, EndLease, StartTally, arbitration
  <2>10. CASE Probe(c) \/ Store(c) \/ Holder(c) \/ Vacant(c)
    BY <2>10, SMTT(60) DEF Probe, Store, Holder, Vacant, arbitration
  <2> QED
    BY <2>1, <2>2, <2>3, <2>4, <2>5, <2>6, <2>7, <2>8, <2>9, <2>10, <2>11, ZenonT(60) DEF Step
<1>3. \A d \in Conns \ {c} : pc'[d] = "free"
  BY StepFrame, ZenonT(60) DEF Alone
<1> QED
  BY <1>2, <1>3, SMTT(60) DEF TurnInv, TurnAt, Unlogged

\* What BallotInv says of one handler.
BallotAt(c) ==
  /\ pc[c] = "tally" => \A i \in Contact \ job[c].todo : Closes(i)
  /\ pc[c] = "endlog" => \A i \in Contact : Closes(i)

LEMMA StepBallot ==
  ASSUME TypeOK, BallotInv, NEW c \in Conns, Alone(c), Step(c)
  PROVE  BallotInv'
<1>1. BallotAt(c)
  BY ZenonT(60) DEF BallotInv, BallotAt
<1>2. BallotAt(c)'
  <2>1. ASSUME pc'[c] \notin {"tally", "endlog"} PROVE BallotAt(c)'
    BY <2>1, SMTT(60) DEF BallotAt
  <2> USE DEF TypeOK, Goto, Done
  <2>2. CASE Propose(c) \/ Vote(c)
    <3>1. \/ pc'[c] = "tally" /\ job'[c].todo = Contact
          \/ pc'[c] = "cancel"
      BY <2>2, SMTT(60) DEF Propose, Vote, StartTally, Job
    <3> QED
      BY <3>1, SMTT(60) DEF BallotAt
  <2>3. CASE Tally(c)
    <3>1. PICK i \in job[c].todo :
            IF Closes(i)
              THEN /\ job' = [job EXCEPT ![c].todo = @ \ {i}]
                   /\ Goto(c, IF job[c].todo = {i} THEN "endlog" ELSE "tally")
              ELSE Done(c)
      BY <2>3, ZenonT(60) DEF Tally
    <3>2. CASE ~Closes(i)
      BY <2>1, <3>1, <3>2, SMTT(60)
    <3>3. CASE Closes(i)
      <4>1. job'[c].todo = job[c].todo \ {i}
        BY <3>1, <3>3, SMTT(60) DEF Job
      <4>2. pc'[c] = IF job[c].todo = {i} THEN "endlog" ELSE "tally"
        BY <3>1, <3>3, SMTT(60)
      <4>3. \A k \in Contact \ (job[c].todo \ {i}) : Closes(k)
        BY <1>1, <2>3, <3>3, ZenonT(60) DEF BallotAt, Tally
      <4>4. \A k : Closes(k)' <=> Closes(k)
        BY <2>3, ZenonT(60) DEF Tally, closure, Closes
      <4>5. CASE job[c].todo = {i}
        <5>1. \A k \in Contact : Closes(k)
          BY <4>3, <4>5, ZenonT(60)
        <5> QED
          BY <4>2, <4>4, <4>5, <5>1, SMTT(60) DEF BallotAt
      <4>6. CASE job[c].todo # {i}
        BY <4>1, <4>2, <4>3, <4>4, <4>6, SMTT(60) DEF BallotAt
      <4> QED
        BY <4>5, <4>6
    <3> QED
      BY <3>2, <3>3
  <2>4. CASE Admit(c)
    <3>1. Entry(job[c].verb) \notin {"tally", "endlog"}
      BY SMTT(60) DEF Entry, Job, Verb
    <3> QED
      BY <2>1, <2>4, <3>1, SMTT(60) DEF Admit
  <2>5. CASE SettleBroadcast(c) \/ Pass(c) \/ SettleTarget(c)
    BY <2>1, <2>5, SMTT(60) DEF SettleBroadcast, Pass, SettleTarget, Announce
  <2>6. CASE Drop(c) \/ Refuse(c) \/ ReserveBusy(c) \/ Reserve(c) \/ RouteToSelf(c)
               \/ SettleNobody(c) \/ SettleOffline(c) \/ Unrouted(c)
    BY <2>1, <2>6, SMTT(60) DEF Drop, Refuse, ReserveBusy, Reserve, RouteToSelf, SettleNobody,
       SettleOffline, Unrouted
  <2>9. CASE Route(c) \/ Fanout(c)
    BY <2>1, <2>9, RouteMoves, SMTT(60)
  <2>7. CASE Speak(c) \/ LogGrant(c) \/ Mark(c) \/ MarkFile(c) \/ Grant(c) \/ Transfer(c)
               \/ ProposeActive(c) \/ VoteRefused(c) \/ EndLog(c) \/ EndTurn(c) \/ EndLease(c)
               \/ Cancel(c)
    BY <2>1, <2>7, SMTT(60) DEF Speak, LogGrant, Mark, MarkFile, Grant, Transfer, ProposeActive,
       VoteRefused, EndLog, EndTurn, EndLease, Cancel
  <2>8. CASE Probe(c) \/ Store(c) \/ Holder(c) \/ Vacant(c) \/ PassNobody(c)
    BY <2>1, <2>8, SMTT(60) DEF Probe, Store, Holder, Vacant, PassNobody
  <2> QED
    BY <2>2, <2>3, <2>4, <2>5, <2>6, <2>7, <2>8, <2>9 DEF Step
<1>3. \A d \in Conns \ {c} : pc'[d] = "free"
  BY StepFrame, ZenonT(60) DEF Alone
<1>4. \A d \in Conns \ {c} : BallotAt(d)'
  BY <1>3, SMTT(60) DEF BallotAt
<1>5. BallotInv' <=> \A d \in Conns : BallotAt(d)'
  BY ZenonT(60) DEF BallotInv, BallotAt
<1> QED
  BY <1>2, <1>4, <1>5, ZenonT(60)

\* Where a message is, from its admission to its acceptance or refusal.
Relaying == {"reserve", "route", "fanout", "settle", "unrouted"}

\* An admitted message starts on its way.
LEMMA AdmitMoves ==
  ASSUME TypeOK, NEW c \in Conns, Admit(c)
  PROVE  /\ pc'[c] \in Relaying => pc'[c] \in {"reserve", "route"}
         /\ pc'[c] = "reserve" <=> job[c].verb = "initiate"
         /\ pc'[c] = "route" <=> job[c].verb = "say"
         /\ job[c].verb = "say" => CanSpeak(current_speaker, job[c].person)
         /\ job'[c].verb = job[c].verb /\ job'[c].person = job[c].person
         /\ UNCHANGED <<arbitration, lease>>
<1>1. job[c].verb \in Verb
  BY SMTT(60) DEF TypeOK, Job
<1>2. pc'[c] = Entry(job[c].verb)
  BY SMTT(60) DEF Admit, TypeOK, Goto
<1>3. /\ Entry(job[c].verb) \in Relaying => Entry(job[c].verb) \in {"reserve", "route"}
      /\ Entry(job[c].verb) = "reserve" <=> job[c].verb = "initiate"
      /\ Entry(job[c].verb) = "route" <=> job[c].verb = "say"
  BY <1>1, SMTT(60) DEF Entry, Verb, Relaying
<1>4. job[c].verb = "say" => CanSpeak(current_speaker, job[c].person)
  BY ZenonT(60) DEF Admit, Admits
<1>5. job'[c].verb = job[c].verb /\ job'[c].person = job[c].person
  BY SMTT(60) DEF Admit, TypeOK, Job
<1>6. UNCHANGED <<arbitration, lease>>
  BY ZenonT(60) DEF Admit
<1> QED
  BY <1>2, <1>3, <1>4, <1>5, <1>6, ZenonT(60)

\* The steps a message takes on its way; every other step is not of a message
\* that is still being routed.
OnItsWay(c) ==
  Admit(c) \/ Reserve(c) \/ RouteToSelf(c) \/ Route(c) \/ Fanout(c) \/ SettleNobody(c)
    \/ SettleOffline(c)

LEMMA LeavesRelay ==
  ASSUME TypeOK, NEW c \in Conns, Step(c), ~OnItsWay(c)
  PROVE  pc'[c] \notin Relaying
<1> USE DEF TypeOK, Goto, Done, Relaying
<1>1. CASE SettleBroadcast(c) \/ Pass(c) \/ SettleTarget(c)
  BY <1>1, SMTT(60) DEF SettleBroadcast, Pass, SettleTarget, Announce
<1>2. CASE Drop(c) \/ Refuse(c) \/ ReserveBusy(c) \/ Unrouted(c) \/ Speak(c) \/ LogGrant(c)
             \/ Mark(c) \/ MarkFile(c) \/ Grant(c) \/ Transfer(c)
  BY <1>2, SMTT(60) DEF Drop, Refuse, ReserveBusy, Unrouted, Speak, LogGrant, Mark, MarkFile,
     Grant, Transfer
<1>3. CASE Propose(c) \/ Vote(c) \/ Tally(c)
  BY <1>3, SMTT(60) DEF Propose, Vote, Tally, StartTally
<1>4. CASE ProposeActive(c) \/ VoteRefused(c) \/ EndLog(c) \/ EndTurn(c) \/ EndLease(c)
             \/ Cancel(c) \/ Probe(c) \/ Store(c) \/ Holder(c) \/ Vacant(c) \/ PassNobody(c)
  BY <1>4, SMTT(60) DEF ProposeActive, VoteRefused, EndLog, EndTurn, EndLease, Cancel, Probe,
     Store, Holder, Vacant, PassNobody
<1> QED
  BY <1>1, <1>2, <1>3, <1>4, ZenonT(60) DEF Step, OnItsWay

HeldAt(c) ==
  pc[c] \in {"route", "fanout", "settle", "unrouted"} /\ Reserved(job[c].verb) => ~conversing

LEMMA StepHeld ==
  ASSUME TypeOK, HeldInv, NEW c \in Conns, Alone(c), Step(c)
  PROVE  HeldInv'
<1>1. LeaseHeld /\ HeldAt(c)
  BY ZenonT(60) DEF HeldInv, HeldAt
<1>2. LeaseHeld'
  <2> USE <1>1 DEF LeaseHeld, Busy
  <2>1. CASE Reserve(c) \/ Mark(c) \/ MarkFile(c) \/ EndLease(c)
    BY <2>1, ZenonT(60) DEF Reserve, Mark, MarkFile, EndLease
  <2>2. CASE Unrouted(c)
    <3>1. CASE Reserved(job[c].verb)
      <4>1. ~conversing
        BY <2>2, <3>1, ZenonT(60) DEF Unrouted, HeldAt
      <4> QED
        BY <2>2, <4>1, ZenonT(60) DEF Unrouted
    <3>2. CASE ~Reserved(job[c].verb)
      BY <2>2, <3>2, ZenonT(60) DEF Unrouted
    <3> QED
      BY <3>1, <3>2
  <2>3. CASE ~(Reserve(c) \/ Unrouted(c) \/ EndLease(c) \/ Mark(c) \/ MarkFile(c))
    <3>1. UNCHANGED lease
      BY <2>3 DEF Step, Drop, Refuse, Admit, ReserveBusy, RouteToSelf, Route, Fanout,
         SettleBroadcast, SettleNobody, SettleTarget, SettleOffline, Speak, LogGrant,
         Grant, Transfer, Propose, ProposeActive, Vote, VoteRefused, Tally, EndLog,
         EndTurn, Cancel, Probe, Store, Holder, Vacant, Pass, PassNobody
    <3> QED
      BY <3>1, ZenonT(60) DEF lease
  <2> QED
    BY <2>1, <2>2, <2>3
<1>3. HeldAt(c)'
  <2>1. CASE Admit(c)
    <3>1. /\ pc'[c] \in {"route", "fanout", "settle", "unrouted"} => job[c].verb = "say"
          /\ job'[c].verb = job[c].verb
      BY <2>1, AdmitMoves, SMTT(60) DEF Relaying
    <3> QED
      BY <3>1, SMTT(60) DEF HeldAt, Reserved
  <2>2. CASE Reserve(c)
    BY <1>1, <2>2, ZenonT(60) DEF Reserve, LeaseHeld, HeldAt
  <2>3. CASE Route(c) \/ Fanout(c)
    <3>1. /\ pc[c] \in {"route", "fanout"} /\ job'[c].verb = job[c].verb
          /\ conversing' = conversing
      BY <2>3, RouteMoves, ZenonT(60) DEF lease
    <3> QED
      BY <1>1, <3>1, ZenonT(60) DEF HeldAt
  <2>4. CASE RouteToSelf(c) \/ SettleNobody(c) \/ SettleOffline(c)
    <3>1. pc[c] \in {"route", "settle"} /\ job' = job /\ conversing' = conversing
      BY <2>4, ZenonT(60) DEF RouteToSelf, SettleNobody, SettleOffline, lease
    <3> QED
      BY <1>1, <3>1, ZenonT(60) DEF HeldAt
  <2>5. CASE ~OnItsWay(c)
    BY <2>5, LeavesRelay, ZenonT(60) DEF HeldAt, Relaying
  <2> QED
    BY <2>1, <2>2, <2>3, <2>4, <2>5, ZenonT(60) DEF OnItsWay
<1>4. \A d \in Conns \ {c} : pc'[d] = "free"
  BY StepFrame, ZenonT(60) DEF Alone
<1>5. \A d \in Conns \ {c} : HeldAt(d)'
  BY <1>4, SMTT(60) DEF HeldAt
<1>6. HeldInv' <=> LeaseHeld' /\ \A d \in Conns : HeldAt(d)'
  BY ZenonT(60) DEF HeldInv, HeldAt
<1> QED
  BY <1>2, <1>3, <1>5, <1>6, ZenonT(60)

RelayAt(c) ==
  /\ pc[c] = "reserve" => job[c].verb = "initiate"
  /\ pc[c] \in {"route", "fanout", "settle"} /\ job[c].verb = "say"
       => CanSpeak(current_speaker, job[c].person)

LEMMA StepRelay ==
  ASSUME TypeOK, RelayInv, NEW c \in Conns, Alone(c), Step(c)
  PROVE  RelayInv'
<1>1. RelayAt(c)
  BY ZenonT(60) DEF RelayInv, RelayAt
<1>2. RelayAt(c)'
  <2>1. CASE Admit(c)
    <3>1. current_speaker' = current_speaker
      BY <2>1, AdmitMoves, ZenonT(60) DEF arbitration
    <3> QED
      BY <2>1, <3>1, AdmitMoves, ZenonT(60) DEF RelayAt, CanSpeak
  <2>2. CASE Reserve(c)
    <3>1. pc[c] = "reserve" /\ pc'[c] = "route" /\ job' = job
      BY <2>2, SMTT(60) DEF Reserve, Goto, TypeOK
    <3> QED
      BY <1>1, <3>1, SMTT(60) DEF RelayAt
  <2>3. CASE Route(c) \/ Fanout(c)
    <3>1. current_speaker' = current_speaker
      BY <2>3, RouteMoves, ZenonT(60) DEF arbitration
    <3>2. /\ pc[c] \in {"route", "fanout"} /\ pc'[c] # "reserve"
          /\ job'[c].verb = job[c].verb /\ job'[c].person = job[c].person
      BY <2>3, RouteMoves, SMTT(60)
    <3> QED
      BY <1>1, <3>1, <3>2, ZenonT(60) DEF RelayAt, CanSpeak
  <2>4. CASE RouteToSelf(c) \/ SettleNobody(c) \/ SettleOffline(c)
    <3>1. pc'[c] = "unrouted"
      BY <2>4, SMTT(60) DEF RouteToSelf, SettleNobody, SettleOffline, Goto, TypeOK
    <3> QED
      BY <3>1, SMTT(60) DEF RelayAt
  <2>5. CASE ~OnItsWay(c)
    BY <2>5, LeavesRelay, ZenonT(60) DEF RelayAt, Relaying
  <2> QED
    BY <2>1, <2>2, <2>3, <2>4, <2>5, ZenonT(60) DEF OnItsWay
<1>3. \A d \in Conns \ {c} : pc'[d] = "free"
  BY StepFrame, ZenonT(60) DEF Alone
<1>4. \A d \in Conns \ {c} : RelayAt(d)'
  BY <1>3, SMTT(60) DEF RelayAt
<1>5. RelayInv' <=> \A d \in Conns : RelayAt(d)'
  BY ZenonT(60) DEF RelayInv, RelayAt
<1> QED
  BY <1>2, <1>4, <1>5, ZenonT(60)

SequentialInv == TurnInv /\ BallotInv /\ HeldInv /\ RelayInv

\* Steps outside the handlers: nobody's turn, ballot or message moves, and a
\* lease that lapses takes the conversation with it.
LEMMA TimeSequential ==
  ASSUME TypeOK, SequentialInv, LapseMemory \/ LapseFile \/ (\E h \in Human : Fade(h))
                                  \/ UNCHANGED vars
  PROVE  SequentialInv'
<1>1. UNCHANGED <<pc, job, current_speaker, logged, closure>>
  BY ZenonT(60) DEF LapseMemory, LapseFile, Fade, vars, arbitration
<1>2. TurnInv'
  BY <1>1, ZenonT(60) DEF SequentialInv, TurnInv
<1>3. BallotInv'
  BY <1>1, ZenonT(60) DEF SequentialInv, BallotInv, Closes, closure
<1>4. RelayInv'
  BY <1>1, ZenonT(60) DEF SequentialInv, RelayInv, CanSpeak
<1>5. (conversing' => conversing) /\ LeaseHeld'
  <2>1. CASE LapseMemory \/ LapseFile
    <3>1. CASE LapseMemory
      <4>1. conversing' = (conversing /\ activity) /\ activity' = activity
        BY <3>1, ZenonT(60) DEF LapseMemory, Expire
      <4> QED
        BY <4>1, ZenonT(60) DEF LeaseHeld, Busy
    <3>2. CASE LapseFile
      <4>1. conversing' = (conversing /\ activity_until) /\ activity_until' = activity_until
        BY <3>2, ZenonT(60) DEF LapseFile, Expire
      <4> QED
        BY <4>1, ZenonT(60) DEF LeaseHeld, Busy
    <3> QED
      BY <2>1, <3>1, <3>2
  <2>2. CASE UNCHANGED lease
    BY <2>2, ZenonT(60) DEF SequentialInv, HeldInv, LeaseHeld, Busy, lease
  <2> QED
    BY <2>1, <2>2, ZenonT(60) DEF Fade, vars
<1>6. HeldInv'
  BY <1>1, <1>5, ZenonT(60) DEF SequentialInv, HeldInv
<1> QED
  BY <1>2, <1>3, <1>4, <1>6 DEF SequentialInv

LEMMA AcceptSequential ==
  ASSUME TypeOK, SequentialInv, OneAtATime', NEW c \in Conns, NEW r \in Requests, Accept(c, r)
  PROVE  SequentialInv'
<1>1. pc[c] = "free" /\ pc'[c] = "accepted"
  BY SMTT(60) DEF Accept, Goto, TypeOK
<1>2. \A d \in Conns \ {c} : pc'[d] = "free" /\ pc[d] = pc'[d]
  <2>1. \A d \in Conns \ {c} : pc[d] = pc'[d]
    BY SMTT(60) DEF Accept, Goto, TypeOK
  <2>2. pc'[c] # "free"
    BY <1>1, SMTT(60)
  <2> QED
    BY <2>1, <2>2, ZenonT(60) DEF OneAtATime, Alone
<1>3. \A d \in Conns : pc[d] = "free" /\ pc'[d] \in {"free", "accepted"}
  BY <1>1, <1>2, ZenonT(60)
<1>4. UNCHANGED <<current_speaker, logged, lease>>
  BY ZenonT(60) DEF Accept, arbitration
<1>5. TurnInv'
  <2>1. current_speaker \in {logged, None}
    BY <1>3, SMTT(60) DEF SequentialInv, TurnInv, Unlogged
  <2> QED
    BY <1>3, <1>4, <2>1, SMTT(60) DEF TurnInv
<1>6. BallotInv'
  BY <1>3, SMTT(60) DEF BallotInv
<1>7. HeldInv'
  <2>1. LeaseHeld'
    BY <1>4, ZenonT(60) DEF SequentialInv, HeldInv, LeaseHeld, Busy, lease
  <2> QED
    BY <1>3, <2>1, SMTT(60) DEF HeldInv
<1>8. RelayInv'
  BY <1>3, SMTT(60) DEF RelayInv
<1> QED
  BY <1>5, <1>6, <1>7, <1>8 DEF SequentialInv

LEMMA RestartSequential ==
  ASSUME Restart
  PROVE  SequentialInv'
<1>1. \A d \in Conns : pc'[d] = "free"
  BY ZenonT(60) DEF Restart
<1>2. TurnInv'
  BY <1>1, SMTT(60) DEF Restart, TurnInv
<1>3. BallotInv' /\ RelayInv'
  BY <1>1, SMTT(60) DEF BallotInv, RelayInv
<1>4. LeaseHeld'
  BY ZenonT(60) DEF Restart, Expire, LeaseHeld, Busy
<1>5. HeldInv'
  BY <1>1, <1>4, SMTT(60) DEF HeldInv
<1> QED
  BY <1>2, <1>3, <1>5 DEF SequentialInv

(***************************************************************************)
(* The inductive invariant of a hub whose connections come one after       *)
(* another, through lapses of the lease and restarts at any step.          *)
(***************************************************************************)
THEOREM SequentialInvariant == Spec /\ []OneAtATime => []SequentialInv
<1>1. Init => SequentialInv
  <2> SUFFICES ASSUME Init PROVE SequentialInv
    OBVIOUS
  <2>1. \A d \in Conns : pc[d] = "free"
    BY ZenonT(60) DEF Init
  <2>2. TurnInv
    BY <2>1, SMTT(60) DEF Init, TurnInv
  <2>3. LeaseHeld
    BY ZenonT(60) DEF Init, LeaseHeld
  <2> QED
    BY <2>1, <2>2, <2>3, SMTT(60) DEF SequentialInv, BallotInv, RelayInv, HeldInv
<1>2. TypeOK /\ OneAtATime /\ OneAtATime' /\ SequentialInv /\ [Next]_vars => SequentialInv'
  <2> SUFFICES ASSUME TypeOK, OneAtATime, OneAtATime', SequentialInv, [Next]_vars
               PROVE  SequentialInv'
    OBVIOUS
  <2>1. ASSUME NEW c \in Conns, Step(c) PROVE SequentialInv'
    <3>1. pc[c] # "free"
      BY <2>1, StepFrame
    <3>2. Alone(c)
      BY <3>1 DEF OneAtATime
    <3> QED
      BY <2>1, <3>2, StepTurn, StepBallot, StepHeld, StepRelay DEF SequentialInv
  <2> QED
    BY <2>1, AcceptSequential, TimeSequential, RestartSequential, ZenonT(60) DEF Next, Work
<1> QED
  BY <1>1, <1>2, TypeCorrect, PTL DEF Spec

(***************************************************************************)
(* What a hub without overlapping connections promises: a restart between  *)
(* two requests gives the turn back to who held it; the conversation ends  *)
(* only on a unanimous ballot; an accepted message keeps the council busy; *)
(* a message moves the turn only if its sender holds it.                   *)
(***************************************************************************)
THEOREM TurnIsLogged == Spec /\ []OneAtATime => []TurnSurvivesRestart
<1>1. SequentialInv => TurnSurvivesRestart
  BY SMTT(60) DEF SequentialInv, TurnInv, Unlogged, TurnSurvivesRestart, Quiescent
<1> QED
  BY <1>1, SequentialInvariant, PTL

\* closure_finish runs only on a ballot that closure_complete found unanimous.
THEOREM EndIsUnanimous == Spec /\ []OneAtATime => []UnanimousEnd
<1>1. TypeOK /\ SequentialInv => UnanimousEnd
  BY ZenonT(60) DEF SequentialInv, BallotInv, Closes, UnanimousEnd, TypeOK
<1> QED
  BY <1>1, SequentialInvariant, TypeCorrect, PTL

\* release_initiation never takes the lease of an accepted message.
THEOREM MessageHoldsLease == Spec /\ []OneAtATime => []LeaseHeld
<1>1. SequentialInv => LeaseHeld
  BY DEF SequentialInv, HeldInv
<1> QED
  BY <1>1, SequentialInvariant, PTL

\* The has_turn flag is still true when relay_message moves the turn.
THEOREM SenderHoldsTurn == Spec /\ []OneAtATime => []SpeaksInTurn
<1>1. SequentialInv => SpeaksInTurn
  BY ZenonT(60) DEF SequentialInv, RelayInv, SpeaksInTurn
<1> QED
  BY <1>1, SequentialInvariant, PTL

-----------------------------------------------------------------------------
(***************************************************************************)
(* The rotation of the turn.  A name that is not in the book counts as     *)
(* nobody: it is online at no time and never picked.                       *)
(***************************************************************************)
\* The scan distance is a position in the book.
LEMMA DistanceRange ==
  ASSUME NEW i \in Contact, NEW j \in Contact
  PROVE  Distance(i, j) \in 0 .. N-1
BY NAssumption DEF Contact, Distance

\* Moving the scan to just behind a contact it meets before d brings it
\* strictly closer to d.
LEMMA ScanMovesOn ==
  ASSUME NEW i \in Contact, NEW c \in Contact, NEW d \in Contact, c # d,
         Distance(i, c) <= Distance(i, d)
  PROVE  /\ Succ(c) \in Contact
         /\ Distance(Succ(c), d) <= Distance(i, d) - 1
BY NAssumption DEF Contact, Distance, Succ

\* The names TurnRotation takes from Arbitration are those of the hub.
LEMMA SameArbitration ==
  /\ Rotation!Contact = Contact
  /\ \A i : Rotation!Succ(i) = Succ(i)
  /\ \A i, j : Rotation!Distance(i, j) = Distance(i, j)
  /\ \A on, previous : Rotation!Candidates(on, previous) = Candidates(on, previous)
  /\ \A c, i, on, previous : Rotation!IsPick(c, i, on, previous) = IsPick(c, i, on, previous)
BY ZenonT(60) DEF Rotation!Contact, Contact, Rotation!Succ, Succ, Rotation!Distance, Distance,
   Rotation!Candidates, Candidates, Rotation!IsPick, IsPick

\* next_index stays inside the book and the counters are natural numbers.
THEOREM RotationTypes == Rotation!Spec => []Rotation!TypeOK
<1>1. Rotation!Init => Rotation!TypeOK
  BY NAssumption, SMTT(60) DEF Rotation!Init, Rotation!TypeOK, Rotation!Contact
<1>2. Rotation!TypeOK /\ [Rotation!Next]_(Rotation!vars) => Rotation!TypeOK'
  <2> SUFFICES ASSUME Rotation!TypeOK, [Rotation!Next]_(Rotation!vars) PROVE Rotation!TypeOK'
    OBVIOUS
  <2> USE DEF Rotation!TypeOK
  <2>1. ASSUME NEW previous \in Rotation!Contact \cup {None}, NEW c \in Rotation!Contact,
               Rotation!Advance(previous, c)
        PROVE  Rotation!TypeOK'
    <3>1. Rotation!Succ(c) \in Rotation!Contact
      BY NAssumption, SMTT(60) DEF Rotation!Contact, Rotation!Succ
    <3>2. passed' \in [Rotation!Contact -> Nat]
      BY <2>1, SMTT(60) DEF Rotation!Advance
    <3> QED
      BY <2>1, <3>1, <3>2, ZenonT(60) DEF Rotation!Advance
  <2>2. ASSUME NEW previous \in Rotation!Contact \cup {None}, Rotation!Exhaust(previous)
        PROVE  Rotation!TypeOK'
    BY <2>2, ZenonT(60) DEF Rotation!Exhaust
  <2>3. ASSUME NEW c \in Rotation!Contact, Rotation!Grant(c) PROVE Rotation!TypeOK'
    <3>1. passed' \in [Rotation!Contact -> Nat]
      BY <2>3, SMTT(60) DEF Rotation!Grant
    <3> QED
      BY <2>3, <3>1, ZenonT(60) DEF Rotation!Grant
  <2>4. ASSUME NEW c \in Rotation!Contact, Rotation!Presence(c) PROVE Rotation!TypeOK'
    <3>1. passed' \in [Rotation!Contact -> Nat]
      BY <2>4, SMTT(60) DEF Rotation!Presence
    <3> QED
      BY <2>4, <3>1, ZenonT(60) DEF Rotation!Presence
  <2>5. CASE Rotation!Clear
    BY <2>5, ZenonT(60) DEF Rotation!Clear
  <2>6. CASE Rotation!Restart
    <3>1. passed' \in [Rotation!Contact -> Nat] /\ next_index' \in Rotation!Contact
      BY <2>6, NAssumption, SMTT(60) DEF Rotation!Restart, Rotation!Contact
    <3> QED
      BY <2>6, <3>1, ZenonT(60) DEF Rotation!Restart
  <2>7. CASE UNCHANGED Rotation!vars
    BY <2>7, ZenonT(60) DEF Rotation!vars
  <2> QED
    BY <2>1, <2>2, <2>3, <2>4, <2>5, <2>6, <2>7, ZenonT(60) DEF Rotation!Next
<1> QED
  BY <1>1, <1>2, PTL DEF Rotation!Spec

\* Every time a contact is passed over, the scan comes closer to it.
THEOREM ScanApproachesInvariant == Rotation!Spec => []Rotation!ScanApproaches
<1> DEFINE Closer(d) == passed'[d] + Distance(next_index', d) <= N - 1 \/ passed'[d] = 0
<1> USE SameArbitration
<1>1. Rotation!Init => Rotation!ScanApproaches
  BY SMTT(60) DEF Rotation!Init, Rotation!ScanApproaches
<1>2. Rotation!TypeOK /\ Rotation!ScanApproaches /\ [Rotation!Next]_(Rotation!vars)
        => Rotation!ScanApproaches'
  <2> SUFFICES ASSUME Rotation!TypeOK, Rotation!ScanApproaches,
                      [Rotation!Next]_(Rotation!vars), NEW d \in Contact
               PROVE  Closer(d)
    BY ZenonT(60) DEF Rotation!ScanApproaches, Rotation!Contact, Contact, Rotation!Distance, Distance
  <2>0. /\ next_index \in Contact /\ passed \in [Contact -> Nat]
        /\ passed[d] + Distance(next_index, d) <= N - 1 \/ passed[d] = 0
    BY ZenonT(60) DEF Rotation!TypeOK, Rotation!ScanApproaches
  <2>1. ASSUME NEW previous \in Contact \cup {None}, NEW c \in Contact,
               Rotation!Advance(previous, c)
        PROVE  Closer(d)
    <3>1. /\ IsPick(c, next_index, online, previous) /\ next_index' = Succ(c)
          /\ passed' = [e \in Contact |-> IF e \in {c, previous} \/ e \notin online
                                            THEN 0 ELSE passed[e] + 1]
      BY <2>1, ZenonT(60) DEF Rotation!Advance
    <3>2. CASE d \in {c, previous} \/ d \notin online
      BY <3>1, <3>2, SMTT(60)
    <3>3. CASE ~(d \in {c, previous} \/ d \notin online)
      <4>1. passed'[d] = passed[d] + 1
        BY <3>1, <3>3, SMTT(60)
      <4>2. c # d /\ Distance(next_index, c) <= Distance(next_index, d)
        BY <3>1, <3>3, ZenonT(60) DEF IsPick, Candidates
      <4>3. Distance(next_index', d) <= Distance(next_index, d) - 1 /\ next_index' \in Contact
        BY <2>0, <3>1, <4>2, ScanMovesOn, ZenonT(60)
      <4>4. Distance(next_index, d) \in 0 .. N-1 /\ Distance(next_index', d) \in 0 .. N-1
        BY <2>0, <4>3, DistanceRange, ZenonT(60)
      <4>5. passed[d] \in Nat
        BY <2>0, ZenonT(60)
      <4> QED
        BY <2>0, <4>1, <4>3, <4>4, <4>5, NAssumption, SMTT(60)
    <3> QED
      BY <3>2, <3>3
  <2>2. CASE UNCHANGED <<next_index, passed>>
    BY <2>0, <2>2, ZenonT(60)
  <2>3. ASSUME NEW c \in Contact, Rotation!Grant(c) \/ Rotation!Presence(c)
        PROVE  Closer(d)
    <3>1. next_index' = next_index /\ passed' = [passed EXCEPT ![c] = 0]
      BY <2>3, ZenonT(60) DEF Rotation!Grant, Rotation!Presence
    <3>2. passed'[d] \in {passed[d], 0}
      BY <2>0, <3>1, SMTT(60)
    <3> QED
      BY <2>0, <3>1, <3>2, ZenonT(60)
  <2>4. CASE Rotation!Restart
    BY <2>4, SMTT(60) DEF Rotation!Restart
  <2> QED
    BY <2>1, <2>2, <2>3, <2>4, ZenonT(60)
       DEF Rotation!Next, Rotation!Exhaust, Rotation!Clear, Rotation!vars
<1> QED
  BY <1>1, <1>2, RotationTypes, PTL DEF Rotation!Spec

\* A contact that stays online is passed over at most N-1 times in a row, in
\* a book of any size.
THEOREM NobodyStarves == Rotation!Spec => []Rotation!NoStarvation
<1>1. Rotation!TypeOK /\ Rotation!ScanApproaches => Rotation!NoStarvation
  <2> SUFFICES ASSUME Rotation!TypeOK, Rotation!ScanApproaches, NEW c \in Contact
               PROVE  passed[c] <= N - 1
    BY SameArbitration, ZenonT(60) DEF Rotation!NoStarvation
  <2>1. /\ next_index \in Contact /\ passed[c] \in Nat
        /\ passed[c] + Distance(next_index, c) <= N - 1 \/ passed[c] = 0
    BY SameArbitration, ZenonT(60) DEF Rotation!TypeOK, Rotation!ScanApproaches
  <2>2. Distance(next_index, c) \in 0 .. N-1
    BY <2>1, DistanceRange
  <2> QED
    BY <2>1, <2>2, NAssumption, SMTT(60)
<1> QED
  BY <1>1, RotationTypes, ScanApproachesInvariant, PTL

\* The history changes nothing of what the hub does.
LEMMA HubIsHub == HubSpec => Spec
<1>1. [HubNext]_hubVars => [Next]_vars
  <2>1. ASSUME NEW c \in Conns, Rotates(c) PROVE Next
    BY <2>1, ZenonT(60) DEF Rotates, Next, Work, Step
  <2> QED
    BY <2>1, ZenonT(60) DEF HubNext, Next, hubVars
<1> QED
  BY <1>1, PTL DEF HubSpec, Spec

\* What a step other than a rotation does to turn and presence.
LEMMA WorkMoves ==
  ASSUME TypeOK, Work, ~\E c \in Conns : Rotates(c)
  PROVE  /\ next_index' = next_index
         /\ \/ UNCHANGED <<current_speaker, online>>
            \/ \E d \in Contact, ok \in BOOLEAN : SetOnline(d, ok) /\ UNCHANGED current_speaker
            \/ current_speaker' \in Name /\ UNCHANGED online
<1> DEFINE Moves ==
      /\ next_index' = next_index
      /\ \/ UNCHANGED <<current_speaker, online>>
         \/ \E d \in Contact, ok \in BOOLEAN : SetOnline(d, ok) /\ UNCHANGED current_speaker
         \/ current_speaker' \in Name /\ UNCHANGED online
<1>1. ASSUME NEW c \in Conns, NEW r \in Requests, Accept(c, r) PROVE Moves
  <2>1. r.person \in Contact
    BY RequestsAssumption DEF Request
  <2> QED
    BY <1>1, <2>1, ZenonT(60) DEF Accept, SetOnline, arbitration
<1>2. CASE LapseMemory \/ LapseFile \/ \E h \in Human : Fade(h)
  BY <1>2, ZenonT(60) DEF LapseMemory, LapseFile, Fade, arbitration, presence
<1>3. ASSUME NEW c \in Conns, Step(c) PROVE Moves
  <2>1. job[c].todo \subseteq Contact /\ job[c].next \in Name /\ job[c].arg \in Name
    BY ZenonT(60) DEF TypeOK, Job
  <2>2. CASE Fanout(c)
    BY <2>1, <2>2, ReachAssumption, ZenonT(60) DEF Fanout, arbitration
  <2>3. CASE Speak(c)
    <3>1. job[c].next \in Contact
      BY <2>3, RoleAssumption, ZenonT(60) DEF Speak, TypeOK
    <3> QED
      BY <2>3, <3>1, ReachAssumption, ZenonT(60) DEF Speak, arbitration
  <2>4. CASE Store(c)
    <3>1. job[c].ok \in BOOLEAN
      BY ZenonT(60) DEF TypeOK, Job
    <3> QED
      BY <2>1, <2>4, <3>1, ZenonT(60) DEF Store, arbitration
  <2>5. CASE SettleNobody(c) \/ EndTurn(c) \/ PassNobody(c)
    BY <2>5, ZenonT(60) DEF SettleNobody, EndTurn, PassNobody, NextIsNobody, presence, Name
  <2>6. CASE SettleTarget(c) \/ Grant(c)
    BY <2>1, <2>6, ZenonT(60) DEF SettleTarget, Grant, presence
  <2>7. CASE Cancel(c)
    <3>1. job[c].person \in Contact
      BY <2>7, ZenonT(60) DEF Cancel, TypeOK
    <3> QED
      BY <2>7, <3>1, ZenonT(60) DEF Cancel, presence, Name
  <2>8. CASE Drop(c) \/ Refuse(c) \/ Admit(c) \/ ReserveBusy(c) \/ Reserve(c)
             \/ RouteToSelf(c) \/ Route(c) \/ SettleOffline(c) \/ Unrouted(c)
             \/ LogGrant(c) \/ Mark(c) \/ MarkFile(c) \/ Transfer(c)
    BY <2>8, ZenonT(60) DEF Drop, Refuse, Admit, ReserveBusy, Reserve, RouteToSelf, Route,
       SettleOffline, Unrouted, LogGrant, Mark, MarkFile, Transfer, arbitration, presence
  <2>9. CASE Propose(c) \/ ProposeActive(c) \/ Vote(c) \/ VoteRefused(c) \/ Tally(c)
             \/ EndLog(c) \/ EndLease(c) \/ Probe(c) \/ Holder(c) \/ Vacant(c)
    BY <2>9, ZenonT(60) DEF Propose, ProposeActive, Vote, VoteRefused, Tally, EndLog,
       EndLease, Probe, Holder, Vacant, arbitration, presence
  <2>10. ~(SettleBroadcast(c) \/ Pass(c))
    BY ZenonT(60) DEF Rotates
  <2> QED
    BY <1>3, <2>2, <2>3, <2>4, <2>5, <2>6, <2>7, <2>8, <2>9, <2>10, ZenonT(60) DEF Step
<1> QED
  BY <1>1, <1>2, <1>3, ZenonT(60) DEF Work

\* passed stays a function on the book, so that a step which renews nobody
\* leaves it as it is.
PassedType == passed \in [Contact -> Nat]

LEMMA HubPassedType == HubSpec => []PassedType
<1>1. passed = NotPassed => PassedType
  BY SMTT(60) DEF PassedType, NotPassed
<1>2. PassedType /\ [HubNext]_hubVars => PassedType'
  <2> SUFFICES ASSUME PassedType, [HubNext]_hubVars PROVE PassedType'
    OBVIOUS
  <2>1. ASSUME NEW previous, NEW n, passed' = Counted(previous, n) PROVE PassedType'
    BY <2>1, SMTT(60) DEF PassedType, Counted
  <2>2. CASE passed' = [d \in Contact |-> IF Renewed(d) THEN 0 ELSE passed[d]]
    <3>1. \A d \in Contact : (IF Renewed(d) THEN 0 ELSE passed[d]) \in Nat
      <4>1. 0 \in Nat
        OBVIOUS
      <4> QED
        BY <4>1, ZenonT(60) DEF PassedType
    <3> QED
      BY <2>2, <3>1, ZenonT(60) DEF PassedType
  <2>3. CASE passed' \in {NotPassed, passed}
    BY <1>1, <2>3, SMTT(60) DEF PassedType, NotPassed
  <2> QED
    BY <2>1, <2>2, <2>3, ZenonT(60) DEF HubNext, hubVars
<1> QED
  BY <1>1, <1>2, PTL DEF HubSpec

\* A contact is neither the empty name nor a name that is not in the book.
LEMMA ContactNames ==
  ASSUME NEW d \in Contact
  PROVE  d # None /\ d # Stranger
BY NoneAssumption, StrangerAssumption, NAssumption, SMTT(60) DEF Contact

\* The rotation's reading of a name.
Known(name) == IF name = Stranger THEN None ELSE name

LEMMA RotatesStep ==
  ASSUME TypeOK, NEW c \in Conns, Rotates(c), passed' = Counted(Previous(c), current_speaker')
  PROVE  Rotation!Next
<1> DEFINE previous == Previous(c)
<1>1. previous \in Name
  BY ZenonT(60) DEF Rotates, SettleBroadcast, Pass, Previous, TypeOK, Job, Name
<1>2. PICK n \in Contact : NextIs(previous, n)
  <2>1. CASE SettleBroadcast(c)
    BY <2>1, ZenonT(60) DEF SettleBroadcast, Previous
  <2>2. CASE Pass(c)
    <3>1. pc[c] # "settle"
      BY <2>2, ZenonT(60) DEF Pass
    <3> QED
      BY <2>2, <3>1, ZenonT(60) DEF Pass, Previous
  <2> QED
    BY <2>1, <2>2 DEF Rotates
<1>3. online' = online
  BY ZenonT(60) DEF Rotates, SettleBroadcast, Pass, presence
<1> HIDE DEF previous
<1>4. Known(previous) \in Contact \cup {None}
  BY <1>1, ZenonT(60) DEF Known, Name
<1>5. \A d \in Contact : d = previous <=> d = Known(previous)
  BY ContactNames, ZenonT(60) DEF Known
<1>6. Candidates(online, Known(previous)) = Candidates(online, previous)
  <2>1. online \subseteq Contact
    BY DEF TypeOK
  <2> QED
    BY <1>5, <2>1, ZenonT(60) DEF Candidates
<1>7. IsPick(n, next_index, online, Known(previous))
  BY <1>2, <1>6, ZenonT(60) DEF NextIs, IsPick
<1>8. Counted(previous, n) = Counted(Known(previous), n)
  BY <1>5, ZenonT(60) DEF Counted
<1>9. Rotation!Advance(Known(previous), n)
  <2>1. current_speaker' = n /\ n # Stranger
    BY <1>2, ContactNames, ZenonT(60) DEF NextIs
  <2>2. passed' = Counted(Known(previous), n)
    BY <1>8, <2>1, ZenonT(60) DEF previous
  <2> QED
    BY <1>2, <1>3, <1>7, <2>1, <2>2, SameArbitration, ZenonT(60)
       DEF Rotation!Advance, NextIs, Counted
<1> QED
  BY <1>4, <1>9, SameArbitration, ZenonT(60) DEF Rotation!Next

LEMMA OtherStep ==
  ASSUME TypeOK, PassedType, Work, ~\E c \in Conns : Rotates(c),
         passed' = [d \in Contact |-> IF Renewed(d) THEN 0 ELSE passed[d]]
  PROVE  [Rotation!Next]_(Rotation!vars)
<1>1. next_index' = next_index
  BY WorkMoves
<1>2. passed = [d \in Contact |-> passed[d]]
  BY DEF PassedType
<1>3. ASSUME UNCHANGED <<current_speaker, online>> PROVE UNCHANGED Rotation!vars
  <2>1. \A d \in Contact : ~Renewed(d)
    BY <1>3, ZenonT(60) DEF Renewed
  <2>2. passed' = passed
    BY <1>2, <2>1, ZenonT(60)
  <2> QED
    BY <1>1, <1>3, <2>2, ZenonT(60) DEF Rotation!vars
<1>4. ASSUME NEW d \in Contact, NEW ok \in BOOLEAN, SetOnline(d, ok), UNCHANGED current_speaker
      PROVE  [Rotation!Next]_(Rotation!vars)
  <2>1. CASE online' = online
    BY <1>3, <1>4, <2>1
  <2>2. CASE online' # online
    <3>1. \/ d \in online /\ online' = online \ {d}
          \/ d \notin online /\ online' = online \cup {d}
      BY <1>4, <2>2, ZenonT(60) DEF SetOnline
    <3>2. \A e \in Contact : Renewed(e) <=> e = d
      BY <1>4, <3>1, SMTT(60) DEF Renewed
    <3>3. passed' = [passed EXCEPT ![d] = 0]
      BY <3>2, ZenonT(60) DEF PassedType
    <3>4. Rotation!Presence(d)
      BY <1>1, <1>4, <3>1, <3>3, ZenonT(60) DEF Rotation!Presence
    <3> QED
      BY <3>4, SameArbitration, ZenonT(60) DEF Rotation!Next
  <2> QED
    BY <2>1, <2>2
<1>5. ASSUME current_speaker' \in Name, UNCHANGED online
      PROVE  [Rotation!Next]_(Rotation!vars)
  <2>1. CASE current_speaker' = current_speaker
    BY <1>3, <1>5, <2>1
  <2>2. CASE current_speaker' # current_speaker /\ current_speaker' \in Contact
    <3> DEFINE n == current_speaker'
    <3>1. \A e \in Contact : Renewed(e) <=> e = n
      BY <1>5, <2>2, ZenonT(60) DEF Renewed
    <3>2. passed' = [passed EXCEPT ![n] = 0]
      <4> HIDE DEF n
      <4> QED
        BY <3>1, ZenonT(60) DEF PassedType
    <3>3. n # Stranger
      BY <2>2, ContactNames
    <3>4. \E e \in Contact : Rotation!Grant(e)
      BY <1>1, <1>5, <2>2, <3>2, <3>3, ZenonT(60) DEF Rotation!Grant
    <3> QED
      BY <3>4, SameArbitration, ZenonT(60) DEF Rotation!Next
  <2>3. CASE current_speaker' \in {None, Stranger}
    <3>1. \A e \in Contact : ~Renewed(e)
      BY <1>5, <2>3, ContactNames, ZenonT(60) DEF Renewed
    <3>2. passed' = passed
      BY <1>2, <3>1, ZenonT(60)
    <3>3. Rotation!Clear
      BY <1>1, <1>5, <2>3, <3>2, ZenonT(60) DEF Rotation!Clear
    <3> QED
      BY <3>3, ZenonT(60) DEF Rotation!Next
  <2> QED
    BY <1>5, <2>1, <2>2, <2>3, ZenonT(60) DEF Name
<1> QED
  BY <1>3, <1>4, <1>5, WorkMoves, ZenonT(60)

(***************************************************************************)
(* The hub implements the rotation: whatever its connections do at once,   *)
(* every change of the turn is a rotation, a grant or the end of a turn.   *)
(***************************************************************************)
THEOREM HubRotatesTurn == HubSpec => RotatesTurn
<1>1. Init /\ passed = NotPassed => Rotation!Init
  <2> SUFFICES ASSUME Init, passed = NotPassed PROVE Rotation!Init
    OBVIOUS
  <2>1. Known(current_speaker) \in Contact \cup {None}
    BY ContactNames, ZenonT(60) DEF Init, Known
  <2> QED
    BY <2>1, SameArbitration, ZenonT(60) DEF Init, Rotation!Init, Known, NotPassed
<1>2. TypeOK /\ TypeOK' /\ PassedType /\ [HubNext]_hubVars
        => [Rotation!Next]_(Rotation!vars)
  <2> SUFFICES ASSUME TypeOK, TypeOK', PassedType, [HubNext]_hubVars
               PROVE  [Rotation!Next]_(Rotation!vars)
    OBVIOUS
  <2>1. CASE Restart /\ passed' = NotPassed
    <3>1. Known(current_speaker') \in Contact \cup {None}
      BY ZenonT(60) DEF TypeOK, Name, Known
    <3>2. Rotation!Restart
      BY <2>1, <3>1, SameArbitration, ZenonT(60) DEF Restart, Rotation!Restart, Known, NotPassed
    <3> QED
      BY <3>2, ZenonT(60) DEF Rotation!Next
  <2>2. CASE UNCHANGED hubVars
    BY <2>2, ZenonT(60) DEF hubVars, vars, arbitration, presence, Rotation!vars
  <2> QED
    BY <2>1, <2>2, RotatesStep, OtherStep, ZenonT(60) DEF HubNext, hubVars
<1> QED
  BY <1>1, <1>2, HubIsHub, HubPassedType, TypeCorrect, PTL DEF HubSpec, RotatesTurn, Rotation!Spec

(***************************************************************************)
(* In the hub nobody who stays online is passed over N times, for every    *)
(* number of connections, through offline speakers, grants to names that   *)
(* are not in the book, closures and restarts.                             *)
(***************************************************************************)
THEOREM HubStarvesNobody == HubSpec => []NoStarvation
<1>1. Rotation!NoStarvation => NoStarvation
  BY SameArbitration, ZenonT(60) DEF Rotation!NoStarvation, NoStarvation
<1> QED
  BY <1>1, HubRotatesTurn, NobodyStarves, PTL DEF RotatesTurn
-----------------------------------------------------------------------------
(***************************************************************************)
(* How long a handler works.  Left bounds the steps a handler at label l   *)
(* still takes when n contacts are left in the loop it is in.              *)
(***************************************************************************)
Left(l, n) ==
  CASE l = "free" -> 0
    [] l \in {"markfile", "unrouted", "endlease"} -> 1
    [] l \in {"mark", "transfer", "endturn"} -> 2
    [] l \in {"loggrant", "endlog"} -> 3
    [] l \in {"speak", "grant", "cancel"} -> 4
    [] l \in {"settle", "pass"} -> 5
    [] l = "vacant" -> 6
    [] l = "holder" -> 7
    [] l = "tally" -> 3 + n
    [] l = "fanout" -> 5 + n
    [] l = "store" -> 6 + 2 * n
    [] l = "probe" -> 7 + 2 * n
    [] l = "propose" -> 4 + N
    [] l = "vote" -> 5 + N
    [] l = "route" -> 6 + N
    [] l = "reserve" -> 7 + N
    [] l = "accepted" -> 8 + 2 * N

\* The flow of a handler: from label l with the contacts S left in its loop
\* to label m with T left.
Flow ==
  {<<"accepted", "route">>, <<"accepted", "reserve">>, <<"accepted", "grant">>,
   <<"accepted", "propose">>, <<"accepted", "vote">>, <<"accepted", "mark">>,
   <<"accepted", "transfer">>, <<"reserve", "route">>, <<"route", "unrouted">>,
   <<"route", "settle">>, <<"settle", "unrouted">>, <<"settle", "speak">>,
   <<"settle", "loggrant">>, <<"speak", "loggrant">>, <<"loggrant", "mark">>,
   <<"mark", "markfile">>, <<"grant", "loggrant">>, <<"transfer", "markfile">>,
   <<"vote", "cancel">>, <<"cancel", "loggrant">>, <<"endlog", "endturn">>,
   <<"endturn", "endlease">>, <<"holder", "vacant">>, <<"vacant", "pass">>,
   <<"pass", "speak">>, <<"pass", "loggrant">>}

\* One iteration of the loop at l, which goes on at again or, after the last
\* contact, at next.
Iterates(again, next, S, m, T) ==
  \E d \in S : /\ T = S \ {d}
               /\ \/ m = again /\ T # {}
                  \/ m = next

Goes(l, S, m, T) ==
  \/ l # "free" /\ m = "free"
  \/ <<l, m>> \in Flow
  \/ l = "accepted" /\ m = "probe" /\ T = Contact
  \/ l = "route" /\ m = "fanout" /\ T # {}
  \/ l \in {"propose", "vote"} /\ m = "tally" /\ T = Contact
  \/ l = "probe" /\ m = "store" /\ T = S /\ S # {}
  \/ l = "fanout" /\ Iterates("fanout", "settle", S, m, T)
  \/ l = "tally" /\ Iterates("tally", "endlog", S, m, T)
  \/ l = "store" /\ Iterates("probe", "holder", S, m, T)

\* Steps that return, and steps that only go on to another label.
LEMMA DoneGoes ==
  ASSUME TypeOK, NEW c \in Conns, Done(c), pc[c] # "free"
  PROVE  Goes(pc[c], job[c].todo, pc'[c], job'[c].todo)
<1>1. pc'[c] = "free"
  BY SMTT(60) DEF Done, Goto, TypeOK
<1> QED
  BY <1>1 DEF Goes

LEMMA GotoGoes ==
  ASSUME TypeOK, NEW c \in Conns, NEW l, Goto(c, l), <<pc[c], l>> \in Flow
  PROVE  Goes(pc[c], job[c].todo, pc'[c], job'[c].todo)
<1>1. pc'[c] = l
  BY SMTT(60) DEF Goto, TypeOK
<1> QED
  BY <1>1 DEF Goes

LEMMA StepGoes ==
  ASSUME TypeOK, NEW c \in Conns, Step(c)
  PROVE  Goes(pc[c], job[c].todo, pc'[c], job'[c].todo)
<1> DEFINE Going == Goes(pc[c], job[c].todo, pc'[c], job'[c].todo)
<1>1. CASE Drop(c) \/ Refuse(c) \/ ReserveBusy(c) \/ Unrouted(c) \/ MarkFile(c)
  BY <1>1, DoneGoes, SMTT(60) DEF Drop, Refuse, ReserveBusy, Unrouted, MarkFile
<1>2. CASE ProposeActive(c) \/ VoteRefused(c) \/ EndLease(c) \/ PassNobody(c)
  BY <1>2, DoneGoes, SMTT(60) DEF ProposeActive, VoteRefused, EndLease, PassNobody
<1>3. CASE Admit(c)
  <2>1. job[c].verb \in Verb
    BY ZenonT(60) DEF TypeOK, Job
  <2>2. pc[c] = "accepted" /\ pc'[c] = Entry(job[c].verb)
    BY <1>3, SMTT(60) DEF Admit, TypeOK, Goto
  <2>3. CASE job[c].verb = "status"
    <3>1. job'[c].todo = Contact
      BY <1>3, <2>3, SMTT(60) DEF Admit, TypeOK, Job
    <3>2. Entry(job[c].verb) = "probe"
      BY <2>3 DEF Entry
    <3> QED
      BY <2>2, <3>1, <3>2 DEF Goes
  <2>4. CASE job[c].verb # "status"
    <3>1. \/ Entry(job[c].verb) = "free"
          \/ Entry(job[c].verb) \in {"route", "reserve", "grant", "propose", "vote",
                                     "mark", "transfer"}
      BY <2>1, <2>4, SMTT(60) DEF Entry, Verb
    <3> QED
      BY <2>2, <3>1, SMTT(60) DEF Goes, Flow
  <2> QED
    BY <2>3, <2>4
<1>4. CASE Reserve(c) \/ RouteToSelf(c) \/ SettleNobody(c) \/ SettleOffline(c)
  <2>1. \E l : Goto(c, l) /\ <<pc[c], l>> \in Flow
    BY <1>4, SMTT(60) DEF Reserve, RouteToSelf, SettleNobody, SettleOffline, Flow
  <2> QED
    BY <2>1, GotoGoes
<1>5. CASE Speak(c) \/ Mark(c) \/ Grant(c) \/ EndLog(c) \/ EndTurn(c) \/ Cancel(c)
  <2>1. \E l : Goto(c, l) /\ <<pc[c], l>> \in Flow
    BY <1>5, SMTT(60) DEF Speak, Mark, Grant, EndLog, EndTurn, Cancel, Flow
  <2> QED
    BY <2>1, GotoGoes
<1>6. CASE SettleBroadcast(c) \/ SettleTarget(c) \/ Pass(c)
  <2>1. \E n : Goto(c, Announce(n)) /\ pc[c] \in {"settle", "pass"}
    BY <1>6, ZenonT(60) DEF SettleBroadcast, SettleTarget, Pass
  <2>2. \A n : Announce(n) \in {"speak", "loggrant"}
    BY DEF Announce
  <2>3. PICK n : Goto(c, Announce(n)) /\ pc[c] \in {"settle", "pass"}
    BY <2>1, ZenonT(60)
  <2>4. <<pc[c], Announce(n)>> \in Flow
    BY <2>2, <2>3, SMTT(60) DEF Flow
  <2> QED
    BY <2>3, <2>4, GotoGoes, ZenonT(60)
<1>7. CASE LogGrant(c)
  BY <1>7, DoneGoes, GotoGoes, SMTT(60) DEF LogGrant, Flow
<1>8. CASE Transfer(c)
  BY <1>8, DoneGoes, GotoGoes, SMTT(60) DEF Transfer, Flow
<1>9. CASE Route(c)
  <2>1. PICK n, to : /\ job' = [job EXCEPT ![c].next = n, ![c].todo = to]
                     /\ Goto(c, IF to = {} THEN "settle" ELSE "fanout")
    BY <1>9, ZenonT(60) DEF Route
  <2>2. job'[c].todo = to
    BY <2>1, SMTT(60) DEF TypeOK, Job
  <2>3. pc[c] = "route" /\ pc'[c] = IF to = {} THEN "settle" ELSE "fanout"
    BY <1>9, <2>1, SMTT(60) DEF TypeOK, Goto, Route
  <2> QED
    BY <2>2, <2>3, SMTT(60) DEF Goes, Flow
<1>10. CASE Fanout(c)
  <2>1. PICK d \in job[c].todo :
          /\ \E n : job' = [job EXCEPT ![c].todo = @ \ {d}, ![c].next = n]
          /\ Goto(c, IF job[c].todo = {d} THEN "settle" ELSE "fanout")
    BY <1>10, ZenonT(60) DEF Fanout
  <2>2. job'[c].todo = job[c].todo \ {d}
    BY <2>1, SMTT(60) DEF TypeOK, Job
  <2>3. pc[c] = "fanout" /\ pc'[c] = IF job[c].todo = {d} THEN "settle" ELSE "fanout"
    BY <1>10, <2>1, SMTT(60) DEF TypeOK, Goto, Fanout
  <2>4. Iterates("fanout", "settle", job[c].todo, pc'[c], job'[c].todo)
    BY <2>1, <2>2, <2>3, ZenonT(60) DEF Iterates
  <2> QED
    BY <2>3, <2>4 DEF Goes
<1>11. CASE Store(c)
  <2>1. PICK d \in job[c].todo :
          /\ job' = [job EXCEPT ![c].todo = @ \ {d}]
          /\ Goto(c, IF job[c].todo = {d} THEN "holder" ELSE "probe")
    BY <1>11, ZenonT(60) DEF Store
  <2>2. job'[c].todo = job[c].todo \ {d}
    BY <2>1, SMTT(60) DEF TypeOK, Job
  <2>3. pc[c] = "store" /\ pc'[c] = IF job[c].todo = {d} THEN "holder" ELSE "probe"
    BY <1>11, <2>1, SMTT(60) DEF TypeOK, Goto, Store
  <2>4. Iterates("probe", "holder", job[c].todo, pc'[c], job'[c].todo)
    BY <2>1, <2>2, <2>3, ZenonT(60) DEF Iterates
  <2> QED
    BY <2>3, <2>4 DEF Goes
<1>12. CASE Tally(c)
  <2>1. PICK i \in job[c].todo :
          \/ /\ job' = [job EXCEPT ![c].todo = @ \ {i}]
             /\ Goto(c, IF job[c].todo = {i} THEN "endlog" ELSE "tally")
          \/ Done(c)
    BY <1>12, ZenonT(60) DEF Tally
  <2>2. pc[c] = "tally"
    BY <1>12 DEF Tally
  <2>3. CASE Done(c)
    BY <2>2, <2>3, DoneGoes, SMTT(60)
  <2>4. CASE /\ job' = [job EXCEPT ![c].todo = @ \ {i}]
             /\ Goto(c, IF job[c].todo = {i} THEN "endlog" ELSE "tally")
    <3>1. job'[c].todo = job[c].todo \ {i}
      BY <2>4, SMTT(60) DEF TypeOK, Job
    <3>2. pc'[c] = IF job[c].todo = {i} THEN "endlog" ELSE "tally"
      BY <2>4, SMTT(60) DEF TypeOK, Goto
    <3>3. Iterates("tally", "endlog", job[c].todo, pc'[c], job'[c].todo)
      BY <2>1, <3>1, <3>2, ZenonT(60) DEF Iterates
    <3> QED
      BY <2>2, <3>3 DEF Goes
  <2> QED
    BY <2>1, <2>3, <2>4
<1>13. ASSUME StartTally(c), pc[c] \in {"propose", "vote"} PROVE Going
  <2>1. job'[c].todo = Contact
    BY <1>13, SMTT(60) DEF StartTally, TypeOK, Job
  <2>2. pc'[c] = "tally"
    BY <1>13, SMTT(60) DEF StartTally, TypeOK, Goto
  <2> QED
    BY <1>13, <2>1, <2>2 DEF Goes
<1>14. CASE Propose(c)
  BY <1>13, <1>14, SMTT(60) DEF Propose
<1>15. CASE Vote(c)
  <2>1. pc[c] = "vote" /\ (StartTally(c) \/ Goto(c, "cancel"))
    BY <1>15, ZenonT(60) DEF Vote
  <2>2. <<"vote", "cancel">> \in Flow
    BY DEF Flow
  <2> QED
    BY <1>13, <2>1, <2>2, GotoGoes
<1>16. CASE Probe(c)
  <2>1. PICK i \in job[c].todo : \E ok : job' = [job EXCEPT ![c].ok = ok]
    BY <1>16, ZenonT(60) DEF Probe
  <2>2. job'[c].todo = job[c].todo /\ job[c].todo # {}
    BY <2>1, SMTT(60) DEF TypeOK, Job
  <2>3. pc[c] = "probe" /\ pc'[c] = "store"
    BY <1>16, SMTT(60) DEF TypeOK, Goto, Probe
  <2> QED
    BY <2>2, <2>3 DEF Goes
<1>17. CASE Holder(c)
  BY <1>17, DoneGoes, GotoGoes, SMTT(60) DEF Holder, Flow
<1>18. CASE Vacant(c)
  BY <1>18, DoneGoes, GotoGoes, SMTT(60) DEF Vacant, Flow
<1> QED
  BY <1>1, <1>2, <1>3, <1>4, <1>5, <1>6, <1>7, <1>8, <1>9, <1>10, <1>11, <1>12, <1>14,
     <1>15, <1>16, <1>17, <1>18, Step(c), ZenonT(60) DEF Step

LEMMA ContactsFinite ==
  /\ IsFiniteSet(Contact) /\ Cardinality(Contact) = N
  /\ \A S \in SUBSET Contact : Cardinality(S) \in 0 .. N
<1>1. IsFiniteSet(Contact) /\ Cardinality(Contact) = N
  BY NAssumption, FS_Interval DEF Contact
<1>2. ASSUME NEW S \in SUBSET Contact PROVE Cardinality(S) \in 0 .. N
  <2>1. IsFiniteSet(S) /\ Cardinality(S) <= N
    BY <1>1, FS_Subset
  <2>2. Cardinality(S) \in Nat
    BY <2>1, FS_CardinalityType
  <2> QED
    BY <2>1, <2>2, NAssumption
<1> QED
  BY <1>1, <1>2

LEMMA OneFewer ==
  ASSUME NEW S \in SUBSET Contact, NEW d \in S
  PROVE  Cardinality(S \ {d}) = Cardinality(S) - 1
<1>1. IsFiniteSet(S)
  BY ContactsFinite, FS_Subset
<1> QED
  BY <1>1, FS_RemoveElement

LEMMA LeftAt ==
  ASSUME NEW n
  PROVE  /\ Left("free", n) = 0
         /\ Left("markfile", n) = 1 /\ Left("unrouted", n) = 1 /\ Left("endlease", n) = 1
         /\ Left("mark", n) = 2 /\ Left("transfer", n) = 2 /\ Left("endturn", n) = 2
         /\ Left("loggrant", n) = 3 /\ Left("endlog", n) = 3
         /\ Left("speak", n) = 4 /\ Left("grant", n) = 4 /\ Left("cancel", n) = 4
         /\ Left("settle", n) = 5 /\ Left("pass", n) = 5
         /\ Left("vacant", n) = 6 /\ Left("holder", n) = 7
         /\ Left("tally", n) = 3 + n /\ Left("fanout", n) = 5 + n
         /\ Left("store", n) = 6 + 2 * n /\ Left("probe", n) = 7 + 2 * n
         /\ Left("propose", n) = 4 + N /\ Left("vote", n) = 5 + N
         /\ Left("route", n) = 6 + N /\ Left("reserve", n) = 7 + N
         /\ Left("accepted", n) = 8 + 2 * N
BY SMTT(60) DEF Left

LEMMA LeftBounds ==
  ASSUME NEW l \in Label, NEW n \in 0 .. N
  PROVE  /\ Left(l, n) \in 0 .. 8 + 2 * N
         /\ l # "free" => Left(l, n) >= 1
<1>1. N \in Nat /\ n \in Nat /\ n <= N
  BY NAssumption
<1>2. CASE l \in {"free", "markfile", "unrouted", "endlease", "mark", "transfer",
                  "endturn", "loggrant", "endlog", "speak", "grant", "cancel", "settle",
                  "pass", "vacant", "holder"}
  <2>1. Left(l, n) \in 0 .. 7 /\ (l # "free" => Left(l, n) >= 1)
    BY <1>2, LeftAt, SMTT(60)
  <2> QED
    BY <1>1, <2>1
<1>3. CASE l \in {"tally", "fanout", "store", "probe", "propose", "vote", "route",
                  "reserve", "accepted"}
  BY <1>1, <1>3, LeftAt, SMTT(60)
<1> QED
  BY <1>2, <1>3, SMTT(60) DEF Label

\* The steps outside the loops.
LEMMA FlowDown ==
  ASSUME NEW l, NEW m, NEW s \in 0 .. N, NEW t \in 0 .. N, <<l, m>> \in Flow
  PROVE  Left(m, t) < Left(l, s)
<1>1. N \in Nat /\ N >= 1
  BY NAssumption
<1>2. CASE l \in {"accepted", "reserve", "route", "vote"}
  <2>1. Left(l, s) >= 6 /\ (l \in {"accepted", "reserve"} => Left(l, s) >= 7 + N)
                        /\ (l = "accepted" => Left(l, s) = 8 + 2 * N)
    BY <1>1, <1>2, LeftAt, SMTT(60)
  <2>2. \/ m = "reserve" /\ l = "accepted"
        \/ m \in {"route", "propose", "vote"} /\ l \in {"accepted", "reserve"}
        \/ m \in {"grant", "mark", "transfer", "unrouted", "settle", "cancel"}
    BY <1>2, SMTT(60) DEF Flow
  <2>3. /\ m = "reserve" => Left(m, t) = 7 + N
        /\ m \in {"route", "propose", "vote"} => Left(m, t) \in Int /\ Left(m, t) <= 6 + N
        /\ m \in {"grant", "mark", "transfer", "unrouted", "settle", "cancel"}
             => Left(m, t) \in Int /\ Left(m, t) <= 5
    BY <1>1, LeftAt, SMTT(60)
  <2>4. Left(l, s) \in Int
    BY <1>1, <1>2, LeftAt, SMTT(60)
  <2> QED
    BY <1>1, <2>1, <2>2, <2>3, <2>4
<1>3. CASE l \notin {"accepted", "reserve", "route", "vote"}
  BY <1>3, LeftAt, SMTT(60) DEF Flow
<1> QED
  BY <1>2, <1>3

LEMMA GoesDown ==
  ASSUME NEW l \in Label, NEW m \in Label, NEW S \in SUBSET Contact, NEW T \in SUBSET Contact,
         Goes(l, S, m, T)
  PROVE  Left(m, Cardinality(T)) < Left(l, Cardinality(S))
<1>1. /\ Cardinality(S) \in Nat /\ Cardinality(S) <= N /\ N \in Nat
      /\ Cardinality(T) \in Nat /\ Cardinality(T) <= N
  BY ContactsFinite, NAssumption
<1>2. ASSUME NEW d \in S, T = S \ {d} PROVE Cardinality(T) = Cardinality(S) - 1
  BY <1>2, OneFewer
<1>3. T = Contact => Cardinality(T) = N
  BY ContactsFinite
<1>4. CASE l # "free" /\ m = "free"
  <2>1. Left(m, Cardinality(T)) = 0
    BY <1>4, LeftAt
  <2>2. Left(l, Cardinality(S)) \in Int /\ Left(l, Cardinality(S)) >= 1
    BY <1>1, <1>4, LeftBounds
  <2> QED
    BY <2>1, <2>2
<1>5. CASE <<l, m>> \in Flow
  BY <1>1, <1>5, FlowDown
<1>6. CASE l = "accepted" /\ m = "probe" /\ T = Contact
  BY <1>1, <1>3, <1>6, LeftAt
<1>7. CASE l = "route" /\ m = "fanout" /\ T # {}
  BY <1>1, <1>7, LeftAt
<1>8. CASE l \in {"propose", "vote"} /\ m = "tally" /\ T = Contact
  BY <1>1, <1>3, <1>8, LeftAt
<1>9. CASE l = "probe" /\ m = "store" /\ T = S /\ S # {}
  BY <1>1, <1>9, LeftAt
<1>10. CASE l = "fanout" /\ Iterates("fanout", "settle", S, m, T)
  <2>1. Cardinality(T) = Cardinality(S) - 1 /\ m \in {"fanout", "settle"}
    BY <1>2, <1>10 DEF Iterates
  <2> QED
    BY <1>1, <1>10, <2>1, LeftAt
<1>11. CASE l = "tally" /\ Iterates("tally", "endlog", S, m, T)
  <2>1. Cardinality(T) = Cardinality(S) - 1 /\ m \in {"tally", "endlog"}
    BY <1>2, <1>11 DEF Iterates
  <2> QED
    BY <1>1, <1>11, <2>1, LeftAt
<1>12. CASE l = "store" /\ Iterates("probe", "holder", S, m, T)
  <2>1. Cardinality(T) = Cardinality(S) - 1 /\ m \in {"probe", "holder"}
    BY <1>2, <1>12 DEF Iterates
  <2> QED
    BY <1>1, <1>12, <2>1, LeftAt
<1> QED
  BY <1>4, <1>5, <1>6, <1>7, <1>8, <1>9, <1>10, <1>11, <1>12, ZenonT(60) DEF Goes

Remaining(c) == Left(pc[c], Cardinality(job[c].todo))

(***************************************************************************)
(* Every step of a handler takes it closer to its end, nobody else's step  *)
(* puts it back, and no handler takes more than 8 + 2 N steps.             *)
(***************************************************************************)
HandlersWorkDown ==
  [][\A c \in Conns :
       /\ Remaining(c) \in 0 .. 8 + 2 * N
       /\ Step(c) => Remaining(c)' < Remaining(c)
       /\ pc[c] # "free" => Remaining(c)' <= Remaining(c)]_vars

\* Whose label and locals a step of the hub may change.
LEMMA OthersWait ==
  ASSUME TypeOK, [Next]_vars, NEW c \in Conns, pc[c] # "free", ~Step(c)
  PROVE  \/ pc'[c] = "free"
         \/ pc'[c] = pc[c] /\ job'[c] = job[c]
<1>1. ASSUME NEW d \in Conns, Step(d) PROVE pc'[c] = pc[c] /\ job'[c] = job[c]
  BY <1>1, StepFrame, ZenonT(60)
<1>2. ASSUME NEW d \in Conns, NEW r \in Requests, Accept(d, r)
      PROVE  pc'[c] = pc[c] /\ job'[c] = job[c]
  BY <1>2, SMTT(60) DEF Accept, Goto, TypeOK
<1>3. CASE LapseMemory \/ LapseFile \/ (\E h \in Human : Fade(h)) \/ UNCHANGED vars
  BY <1>3, ZenonT(60) DEF LapseMemory, LapseFile, Fade, vars
<1>4. CASE Restart
  BY <1>4, ZenonT(60) DEF Restart
<1> QED
  BY <1>1, <1>2, <1>3, <1>4, ZenonT(60) DEF Next, Work

\* handle_connection runs to its end in a bounded number of steps, for every
\* request and every interleaving: no loop of it starts over.
THEOREM HandlersAreBounded == Spec => HandlersWorkDown
<1>1. ASSUME TypeOK, TypeOK', [Next]_vars, NEW c \in Conns
      PROVE  /\ Remaining(c) \in 0 .. 8 + 2 * N
             /\ Step(c) => Remaining(c)' < Remaining(c)
             /\ pc[c] # "free" => Remaining(c)' <= Remaining(c)
  <2>1. pc[c] \in Label /\ pc'[c] \in Label
    BY <1>1, ZenonT(60) DEF TypeOK
  <2>2. job[c].todo \in SUBSET Contact /\ job'[c].todo \in SUBSET Contact
    BY <1>1, ZenonT(60) DEF TypeOK, Job
  <2>3. Cardinality(job[c].todo) \in 0 .. N /\ Cardinality(job'[c].todo) \in 0 .. N
    BY <2>2, ContactsFinite, ZenonT(60)
  <2>4. Remaining(c) \in 0 .. 8 + 2 * N /\ Remaining(c)' \in 0 .. 8 + 2 * N
    BY <2>1, <2>3, LeftBounds, ZenonT(60) DEF Remaining
  <2>5. ASSUME Step(c) PROVE Remaining(c)' < Remaining(c)
    BY <1>1, <2>1, <2>2, <2>5, StepGoes, GoesDown, ZenonT(60) DEF Remaining
  <2>6. ASSUME pc[c] # "free", ~Step(c) PROVE Remaining(c)' <= Remaining(c)
    <3>1. CASE pc'[c] = "free"
      <4>1. Remaining(c)' = 0
        BY <3>1 DEF Remaining, Left
      <4> QED
        BY <2>4, <4>1
    <3>2. CASE pc'[c] = pc[c] /\ job'[c] = job[c]
      <4>1. Remaining(c)' = Remaining(c)
        BY <3>2, ZenonT(60) DEF Remaining
      <4> QED
        BY <2>4, <4>1
    <3> QED
      BY <1>1, <2>6, <3>1, <3>2, OthersWait
  <2> QED
    BY <2>4, <2>5, <2>6
<1>2. TypeOK /\ TypeOK' /\ [Next]_vars =>
        [\A c \in Conns :
           /\ Remaining(c) \in 0 .. 8 + 2 * N
           /\ Step(c) => Remaining(c)' < Remaining(c)
           /\ pc[c] # "free" => Remaining(c)' <= Remaining(c)]_vars
  BY <1>1
<1> QED
  BY <1>2, TypeCorrect, PTL DEF Spec, HandlersWorkDown

\* The loops of fan-out, count and probe.
Loops == {"fanout", "tally", "probe", "store"}

(***************************************************************************)
(* No handler gets stuck: a loop always has a first contact to go on with, *)
(* and the rotation picks a contact or finds that there is none.           *)
(***************************************************************************)
NobodyStuck ==
  \A c \in Conns :
    /\ pc[c] \in Loops => \E d \in job[c].todo : IsFirst(d, job[c].todo)
    /\ \A previous \in Name :
         \/ Candidates(online, previous) = {}
         \/ \E n \in Contact : IsPick(n, next_index, online, previous)

\* The loops are entered, and gone on with, only while there is work.
LoopsHaveWork == \A c \in Conns : pc[c] \in Loops => job[c].todo # {}

LEMMA GoesOn ==
  ASSUME NEW l \in Label, NEW m \in Loops, NEW S, NEW T, Goes(l, S, m, T)
  PROVE  T # {}
<1>1. Contact # {}
  BY NAssumption DEF Contact
<1>2. <<l, m>> \notin Flow /\ m # "free"
  BY SMTT(60) DEF Flow, Loops
<1>3. m \notin {"settle", "endlog", "holder"}
  BY SMTT(60) DEF Loops
<1> QED
  BY <1>1, <1>2, <1>3, ZenonT(60) DEF Goes, Iterates

LEMMA LoopsInvariant == Spec => []LoopsHaveWork
<1>1. Init => LoopsHaveWork
  BY SMTT(60) DEF Init, LoopsHaveWork, Loops
<1>2. ASSUME TypeOK, TypeOK', [Next]_vars, LoopsHaveWork PROVE LoopsHaveWork'
  <2> SUFFICES ASSUME NEW c \in Conns, pc'[c] \in Loops PROVE job'[c].todo # {}
    BY ZenonT(60) DEF LoopsHaveWork, Loops
  <2>1. pc[c] \in Label
    BY <1>2, ZenonT(60) DEF TypeOK
  <2>2. CASE Step(c)
    BY <1>2, <2>1, <2>2, StepGoes, GoesOn, ZenonT(60)
  <2>3. CASE ~Step(c) /\ pc[c] # "free"
    <3>1. pc'[c] # "free"
      BY SMTT(60) DEF Loops
    <3>2. pc'[c] = pc[c] /\ job'[c] = job[c]
      BY <1>2, <2>3, <3>1, OthersWait, ZenonT(60)
    <3> QED
      BY <1>2, <3>2, ZenonT(60) DEF LoopsHaveWork
  <2>4. CASE pc[c] = "free" /\ ~Step(c)
    <3>1. pc'[c] \in {"free", "accepted"}
      <4>1. ASSUME NEW d \in Conns, Step(d) PROVE pc'[c] = "free"
        BY <1>2, <2>4, <4>1, StepFrame, ZenonT(60)
      <4>2. ASSUME NEW d \in Conns, NEW r \in Requests, Accept(d, r)
            PROVE  pc'[c] \in {"free", "accepted"}
        BY <1>2, <2>4, <4>2, SMTT(60) DEF Accept, Goto, TypeOK
      <4>3. CASE LapseMemory \/ LapseFile \/ (\E h \in Human : Fade(h)) \/ UNCHANGED vars
        BY <2>4, <4>3, ZenonT(60) DEF LapseMemory, LapseFile, Fade, vars
      <4>4. CASE Restart
        BY <4>4, ZenonT(60) DEF Restart
      <4> QED
        BY <1>2, <4>1, <4>2, <4>3, <4>4, ZenonT(60) DEF Next, Work
    <3> QED
      BY <3>1, SMTT(60) DEF Loops
  <2> QED
    BY <2>2, <2>3, <2>4
<1>3. TypeOK /\ TypeOK' /\ [Next]_vars /\ LoopsHaveWork => LoopsHaveWork'
  BY <1>2
<1> QED
  BY <1>1, <1>3, TypeCorrect, PTL DEF Spec

LEMMA Smallest ==
  ASSUME NEW S, S \subseteq Nat, S # {}
  PROVE  \E n \in S : \A m \in S : n <= m
<1>1. PICK x \in S : \A y \in S : <<y, x>> \notin OpToRel(<, Nat)
  BY WFMin, NatLessThanWellFounded, ZenonT(60)
<1>2. \A y \in S : ~(y < x)
  BY <1>1, ZenonT(60) DEF OpToRel
<1>3. ASSUME NEW y \in S PROVE x <= y
  <2>1. x \in Nat /\ y \in Nat /\ ~(y < x)
    BY <1>2, ZenonT(60)
  <2> QED
    BY <2>1, SMTT(60)
<1> QED
  BY <1>3, ZenonT(60)

\* The scan of arbitration_next stops at the nearest candidate.
LEMMA ScanStops ==
  ASSUME TypeOK, NEW previous, Candidates(online, previous) # {}
  PROVE  \E n \in Contact : IsPick(n, next_index, online, previous)
<1> DEFINE C == Candidates(online, previous)
           D == {Distance(next_index, d) : d \in C}
<1>1. C \subseteq Contact /\ next_index \in Contact
  BY ZenonT(60) DEF TypeOK, Candidates
<1>2. \A d \in Contact : Distance(next_index, d) \in Nat
  BY <1>1, DistanceRange
<1>3. D \subseteq Nat /\ D # {}
  BY <1>1, <1>2, ZenonT(60)
<1>4. PICK x \in D : \A y \in D : x <= y
  <2> HIDE DEF D
  <2> QED
    BY <1>3, Smallest, ZenonT(60)
<1>5. PICK n \in C : x = Distance(next_index, n)
  BY <1>4
<1>6. \A d \in C : Distance(next_index, n) <= Distance(next_index, d)
  BY <1>4, <1>5, ZenonT(60)
<1> QED
  BY <1>1, <1>5, <1>6, ZenonT(60) DEF IsPick

\* The loops of fan-out, count and probe are left exactly when nothing is left to
\* do, and the scan of arbitration_next always stops.
THEOREM HandlersProceed == Spec => []NobodyStuck
<1>1. ASSUME TypeOK, LoopsHaveWork PROVE NobodyStuck
  <2>1. ASSUME NEW c \in Conns, pc[c] \in Loops
        PROVE  \E d \in job[c].todo : IsFirst(d, job[c].todo)
    <3>1. job[c].todo \subseteq Contact /\ job[c].todo # {}
      BY <1>1, <2>1, ZenonT(60) DEF TypeOK, Job, LoopsHaveWork
    <3>2. Contact \subseteq Nat
      BY NAssumption DEF Contact
    <3> QED
      BY <3>1, <3>2, Smallest, ZenonT(60) DEF IsFirst
  <2> QED
    BY <1>1, <2>1, ScanStops, ZenonT(60) DEF NobodyStuck
<1>2. TypeOK /\ LoopsHaveWork => NobodyStuck
  BY <1>1
<1> QED
  BY <1>2, TypeCorrect, LoopsInvariant, PTL
=============================================================================
