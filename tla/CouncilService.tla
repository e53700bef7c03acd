--------------------------- MODULE CouncilService ---------------------------
(***************************************************************************)
(* The hub of the Council (council/src/council_service.c): one thread per  *)
(* connection runs handle_connection, and the threads share the state of   *)
(* council_service under state_lock.                                       *)
(*                                                                         *)
(* A step of the model is one critical section of the code, one access to  *)
(* shared memory outside the lock, or one effect outside the process: a    *)
(* line appended to the transcript, a rewrite of the activity file, one    *)
(* outgoing command.  pc[c] names the step connection c takes next and     *)
(* job[c] holds the locals of its handler.                                 *)
(*                                                                         *)
(* The lease is two flags, the one in memory (activity_until) and the one  *)
(* in the activity file: the 300 seconds become the steps LapseMemory and  *)
(* LapseFile.  Of the transcript only what a restart reads back is kept:   *)
(* logged is the answer of transcript_last_speaker.                        *)
(***************************************************************************)
EXTENDS Arbitration, FiniteSets

CONSTANTS
  AI,        \* the contacts with role ai; the others are human
  Arbiter,   \* the contacts with arbiter_priority > 0
  Stranger,  \* a name that is not in the contact book
  Conns,     \* the connection threads
  Reach,     \* Reach[d]: the outcomes a command sent to contact d may have
  Requests   \* the requests clients send

Human == Contact \ AI

\* What a name in a command or in current_speaker can be.
Name == Contact \cup {None, Stranger}

\* "query" stands for PING, BUSY, EVENTS, CONTEXT, SPEAK and unknown commands,
\* which change nothing of the hub's state.
Verb == {"query", "say", "initiate", "grant", "propose", "close", "continue",
         "deliver", "file", "store", "status"}

Request == [person : Contact, verb : Verb, arg : Name]

Label == {"free", "accepted", "reserve", "route", "fanout", "settle", "speak",
          "loggrant", "mark", "markfile", "unrouted", "grant", "propose",
          "vote", "tally", "endlog", "endturn", "endlease", "cancel",
          "transfer", "probe", "store", "holder", "vacant", "pass"}

ASSUME RoleAssumption == AI \subseteq Contact /\ Arbiter \subseteq Contact
ASSUME StrangerAssumption == Stranger \notin Int /\ Stranger # None
ASSUME ReachAssumption == Reach \in [Contact -> SUBSET BOOLEAN]
ASSUME RequestsAssumption == Requests \subseteq Request

VARIABLES
  next_index, current_speaker,        \* arbitration
  online,                             \* contacts whose online flag is set
  recent,                             \* humans last seen within the window
  activity_until,                     \* the lease in memory is running
  activity,                           \* the lease in the activity file is
  closure_active, closure_expected, closure_votes,
  logged,                             \* transcript_last_speaker
  pc, job,
  initiations,                        \* history: reservations in this lease
  conversing                          \* history: a message was accepted in it

arbitration == <<next_index, current_speaker>>
presence == <<online, recent>>
lease == <<activity_until, activity, initiations, conversing>>
closure == <<closure_active, closure_expected, closure_votes>>
vars == <<arbitration, presence, lease, closure, logged, pc, job>>

Job == [person : Contact \cup {None}, verb : Verb, arg : Name,
        next : Name, todo : SUBSET Contact, ok : BOOLEAN]

Idle == [person |-> None, verb |-> "query", arg |-> None, next |-> None,
         todo |-> {}, ok |-> FALSE]

NoVotes == [c \in Contact |-> 0]

\* A hub that starts on an idle or on a running conversation.
Init ==
  /\ next_index = 0
  /\ logged \in Contact \cup {None}
  /\ current_speaker = logged
  /\ online = {} /\ recent = {}
  /\ activity_until = FALSE
  /\ activity \in {FALSE, logged # None}
  /\ closure_active = FALSE /\ closure_expected = {} /\ closure_votes = NoVotes
  /\ pc = [c \in Conns |-> "free"]
  /\ job = [c \in Conns |-> Idle]
  /\ initiations = 0 /\ conversing = FALSE

-----------------------------------------------------------------------------
Goto(c, label) == pc' = [pc EXCEPT ![c] = label]

\* The handler returns: done: network_close, free.
Done(c) == Goto(c, "free") /\ job' = [job EXCEPT ![c] = Idle]

IsFirst(i, S) == i \in S /\ \A j \in S : i <= j

\* online[i] = ok
SetOnline(i, ok) == online' = IF ok THEN online \cup {i} ELSE online \ {i}

\* Faulty variant of Announce: a human's turn is not logged.
AnnounceUnlogged(n) == IF n \in AI THEN "speak" ELSE "mark"

\* After a turn is assigned, an AI is sent SPEAK, a human only reads the log.
Announce(n) == IF n \in AI THEN "speak" ELSE "loggrant"

\* Faulty variant of NextIs: the scan goes on from where it was, not from the pick.
NextIsByOne(previous, n) ==
  /\ IsPick(n, next_index, online, previous)
  /\ next_index' = Succ(next_index)
  /\ current_speaker' = n

\* arbitration_next
NextIs(previous, n) ==
  /\ IsPick(n, next_index, online, previous)
  /\ next_index' = Succ(n)
  /\ current_speaker' = n

NextIsNobody(previous) ==
  /\ Candidates(online, previous) = {}
  /\ current_speaker' = None
  /\ UNCHANGED next_index

-----------------------------------------------------------------------------
(* handle_connection                                                       *)

\* protocol_accept_identity succeeded: mark_seen.
Accept(c, r) ==
  /\ pc[c] = "free"
  /\ online' = online \cup {r.person}
  /\ recent' = recent \cup ({r.person} \cap Human)
  /\ job' = [job EXCEPT ![c] = [Idle EXCEPT !.person = r.person,
                                            !.verb = r.verb, !.arg = r.arg]]
  /\ Goto(c, "accepted")
  /\ UNCHANGED <<arbitration, lease, closure, logged>>

\* The peer closed before sending a line.
Drop(c) ==
  /\ pc[c] = "accepted"
  /\ Done(c)
  /\ UNCHANGED <<arbitration, presence, lease, closure, logged>>

\* The checks made on the has_turn flag, the role and the priority before a
\* command touches shared state.
Admits(r, has_turn) ==
  /\ r.verb # "query"
  /\ r.verb \in {"say", "propose", "file"} => has_turn
  /\ r.verb = "propose" => r.person \in Arbiter
  /\ r.verb = "file" => r.person \in Human
  /\ r.verb = "store" => r.person \in AI

Entry(verb) ==
  CASE verb = "say" -> "route"
    [] verb = "initiate" -> "reserve"
    [] verb = "grant" -> "grant"
    [] verb = "propose" -> "propose"
    [] verb \in {"close", "continue"} -> "vote"
    [] verb = "deliver" -> "mark"
    [] verb \in {"file", "store"} -> "transfer"
    [] verb = "status" -> "probe"
    [] OTHER -> "free"

\* The line is read and has_turn is computed, once, under the lock.
Refuse(c) ==
  /\ pc[c] = "accepted"
  /\ ~Admits(job[c], CanSpeak(current_speaker, job[c].person))
  /\ Done(c)
  /\ UNCHANGED <<arbitration, presence, lease, closure, logged>>

Admit(c) ==
  /\ pc[c] = "accepted"
  /\ Admits(job[c], CanSpeak(current_speaker, job[c].person))
  /\ job' = [job EXCEPT ![c].todo =
                           IF job[c].verb = "status" THEN Contact ELSE {}]
  /\ Goto(c, Entry(job[c].verb))
  /\ UNCHANGED <<arbitration, presence, lease, closure, logged>>

-----------------------------------------------------------------------------
(* accept_message and relay_message, for SAY and INITIATE                  *)

\* busy_remaining is not 0.
Busy == activity_until \/ activity

\* reserve_initiation: test and set in one critical section.
ReserveBusy(c) ==
  /\ pc[c] = "reserve"
  /\ Busy
  /\ Done(c)
  /\ UNCHANGED <<arbitration, presence, lease, closure, logged>>

\* Faulty variant of Reserve: the test is not repeated under the lock.
ReserveUnguarded(c) ==
  /\ pc[c] = "reserve"
  /\ activity_until' = TRUE
  /\ activity' = TRUE
  /\ initiations' = initiations + 1
  /\ Goto(c, "route")
  /\ UNCHANGED <<conversing, arbitration, presence, closure, logged, job>>

Reserve(c) ==
  /\ pc[c] = "reserve"
  /\ ~Busy
  /\ activity_until' = TRUE
  /\ activity' = TRUE
  /\ initiations' = initiations + 1
  /\ Goto(c, "route")
  /\ UNCHANGED <<conversing, arbitration, presence, closure, logged, job>>

\* release_initiation
Release ==
  /\ activity_until' = FALSE
  /\ activity' = FALSE
  /\ initiations' = 0

\* message_target: a prefix that names no contact addresses nobody, and the
\* message is a broadcast like one without a prefix.
Target(arg) == IF arg \in Contact THEN arg ELSE None

\* The AIs the message is sent to.
Destinations(from, target) == {d \in AI \ {from} : target \in {None, d}}

RouteToSelf(c) ==
  /\ pc[c] = "route"
  /\ Target(job[c].arg) = job[c].person
  /\ Goto(c, "unrouted")
  /\ UNCHANGED <<arbitration, presence, lease, closure, logged, job>>

\* A human target is chosen if it is online; an AI target by its delivery.
Route(c) ==
  LET target == Target(job[c].arg)
      to == Destinations(job[c].person, target)
  IN  /\ pc[c] = "route"
      /\ target # job[c].person
      /\ job' = [job EXCEPT ![c].next = IF target \in Human \cap online
                                          THEN target ELSE None,
                            ![c].todo = to]
      /\ Goto(c, IF to = {} THEN "settle" ELSE "fanout")
      /\ UNCHANGED <<arbitration, presence, lease, closure, logged>>

\* deliver to the next destination, in the order of the contact book.
Fanout(c) ==
  /\ pc[c] = "fanout"
  /\ \E d \in job[c].todo : \E ok \in Reach[d] :
       /\ IsFirst(d, job[c].todo)
       /\ SetOnline(d, ok)
       /\ job' = [job EXCEPT ![c].todo = @ \ {d},
                             ![c].next = IF ok /\ Target(job[c].arg) # None
                                           THEN d ELSE @]
       /\ Goto(c, IF job[c].todo = {d} THEN "settle" ELSE "fanout")
  /\ UNCHANGED <<arbitration, recent, lease, closure, logged>>

\* The turn moves: by rotation after a broadcast, to the target otherwise.
SettleBroadcast(c) ==
  /\ pc[c] = "settle"
  /\ Target(job[c].arg) = None
  /\ \E n \in Contact :
       /\ NextIs(job[c].person, n)
       /\ job' = [job EXCEPT ![c].next = n]
       /\ Goto(c, Announce(n))
  /\ UNCHANGED <<presence, lease, closure, logged>>

SettleNobody(c) ==
  /\ pc[c] = "settle"
  /\ Target(job[c].arg) = None
  /\ NextIsNobody(job[c].person)
  /\ Goto(c, "unrouted")
  /\ UNCHANGED <<presence, lease, closure, logged, job>>

SettleTarget(c) ==
  /\ pc[c] = "settle"
  /\ Target(job[c].arg) # None
  /\ job[c].next # None
  /\ current_speaker' = job[c].next
  /\ Goto(c, Announce(job[c].next))
  /\ UNCHANGED <<next_index, presence, lease, closure, logged, job>>

SettleOffline(c) ==
  /\ pc[c] = "settle"
  /\ Target(job[c].arg) # None
  /\ job[c].next = None
  /\ Goto(c, "unrouted")
  /\ UNCHANGED <<arbitration, presence, lease, closure, logged, job>>

\* Faulty variant of Reserved: every refused message releases the lease.
ReservedAlways(verb) == TRUE

\* The argument reserved of accept_message.
Reserved(verb) == verb = "initiate"

\* The message was refused: a reserved initiation is released.
Unrouted(c) ==
  /\ pc[c] = "unrouted"
  /\ IF Reserved(job[c].verb)
       THEN Release
       ELSE UNCHANGED <<activity_until, activity, initiations>>
  /\ Done(c)
  /\ UNCHANGED <<conversing, arbitration, presence, closure, logged>>

\* SPEAK is delivered; its failure only clears the online flag.
Speak(c) ==
  /\ pc[c] = "speak"
  /\ \E ok \in Reach[job[c].next] : SetOnline(job[c].next, ok)
  /\ Goto(c, "loggrant")
  /\ UNCHANGED <<arbitration, recent, lease, closure, logged, job>>

\* The grant (or offline-grant) line is appended.  A message or a continue
\* vote goes on to mark_activity, GRANT and STATUS return.
LogGrant(c) ==
  /\ pc[c] = "loggrant"
  /\ logged' = job[c].next
  /\ IF job[c].verb \in {"say", "initiate", "continue"}
       THEN Goto(c, "mark") /\ UNCHANGED job
       ELSE Done(c)
  /\ UNCHANGED <<arbitration, presence, lease, closure>>

\* mark_activity: the memory lease under the lock, then the file.
Mark(c) ==
  /\ pc[c] = "mark"
  /\ activity_until' = TRUE
  /\ Goto(c, "markfile")
  /\ UNCHANGED <<arbitration, presence, activity, initiations, conversing, closure,
                 logged, job>>

MarkFile(c) ==
  /\ pc[c] = "markfile"
  /\ activity' = TRUE
  /\ conversing' = (conversing \/ job[c].verb \in {"say", "initiate"})
  /\ Done(c)
  /\ UNCHANGED <<arbitration, presence, activity_until, initiations, closure, logged>>

-----------------------------------------------------------------------------
(* GRANT, DELIVER, FILE and STORE                                          *)

\* arbitration_grant of whatever name the command carries; logged next.
Grant(c) ==
  /\ pc[c] = "grant"
  /\ current_speaker' = job[c].arg
  /\ job' = [job EXCEPT ![c].next = job[c].arg]
  /\ Goto(c, "loggrant")
  /\ UNCHANGED <<next_index, presence, lease, closure, logged>>

\* file_command_handle: a transfer that fails changes nothing of the hub's
\* state, one that succeeds renews the file lease only.
Transfer(c) ==
  /\ pc[c] = "transfer"
  /\ \/ Done(c)
     \/ Goto(c, "markfile") /\ UNCHANGED job
  /\ UNCHANGED <<arbitration, presence, lease, closure, logged>>

-----------------------------------------------------------------------------
(* closure_propose, closure_vote, closure_complete and closure_finish      *)

\* The count runs over the contact book outside the lock.
StartTally(c) ==
  /\ job' = [job EXCEPT ![c].todo = Contact]
  /\ Goto(c, "tally")

Propose(c) ==
  LET expected == (AI \cap online) \cup recent
  IN  /\ pc[c] = "propose"
      /\ ~closure_active
      /\ closure_active' = TRUE
      /\ closure_expected' = expected
      /\ closure_votes' = [i \in Contact |->
                             IF i \in expected \cap {job[c].person} THEN 1 ELSE 0]
      /\ StartTally(c)
      /\ UNCHANGED <<arbitration, presence, lease, logged>>

ProposeActive(c) ==
  /\ pc[c] = "propose"
  /\ closure_active
  /\ Done(c)
  /\ UNCHANGED <<arbitration, presence, lease, closure, logged>>

Vote(c) ==
  /\ pc[c] = "vote"
  /\ closure_active
  /\ job[c].person \in closure_expected
  /\ closure_votes' = [closure_votes EXCEPT ![job[c].person] =
                         IF job[c].verb = "close" THEN 1 ELSE -1]
  /\ IF job[c].verb = "close"
       THEN StartTally(c)
       ELSE Goto(c, "cancel") /\ UNCHANGED job
  /\ UNCHANGED <<arbitration, presence, lease, closure_active, closure_expected, logged>>

VoteRefused(c) ==
  /\ pc[c] = "vote"
  /\ ~(closure_active /\ job[c].person \in closure_expected)
  /\ Done(c)
  /\ UNCHANGED <<arbitration, presence, lease, closure, logged>>

\* Faulty variant of Closes: only a continue vote keeps the council open.
ClosesUnlessContinue(i) == i \in closure_expected => closure_votes[i] # -1

\* What closure_complete requires of contact i.
Closes(i) == i \in closure_expected => closure_votes[i] = 1

\* One iteration of the loop of closure_complete.
Tally(c) ==
  /\ pc[c] = "tally"
  /\ \E i \in job[c].todo :
       /\ IsFirst(i, job[c].todo)
       /\ IF Closes(i)
            THEN /\ job' = [job EXCEPT ![c].todo = @ \ {i}]
                 /\ Goto(c, IF job[c].todo = {i} THEN "endlog" ELSE "tally")
            ELSE Done(c)
  /\ UNCHANGED <<arbitration, presence, lease, closure, logged>>

\* closure_finish: the conversation-end line, the turn, the lease.
EndLog(c) ==
  /\ pc[c] = "endlog"
  /\ logged' = None
  /\ Goto(c, "endturn")
  /\ UNCHANGED <<arbitration, presence, lease, closure, job>>

EndTurn(c) ==
  /\ pc[c] = "endturn"
  /\ closure_active' = FALSE
  /\ current_speaker' = None
  /\ Goto(c, "endlease")
  /\ UNCHANGED <<next_index, presence, lease, closure_expected, closure_votes, logged, job>>

EndLease(c) ==
  /\ pc[c] = "endlease"
  /\ Release
  /\ conversing' = FALSE
  /\ Done(c)
  /\ UNCHANGED <<arbitration, presence, closure, logged>>

\* The second critical section of a continue vote.
Cancel(c) ==
  /\ pc[c] = "cancel"
  /\ closure_active' = FALSE
  /\ current_speaker' = job[c].person
  /\ job' = [job EXCEPT ![c].next = job[c].person]
  /\ Goto(c, "loggrant")
  /\ UNCHANGED <<next_index, presence, lease, closure_expected, closure_votes, logged>>

-----------------------------------------------------------------------------
(* send_status: probe everybody, then replace a speaker who is gone        *)

\* presence_check of an AI; for a human, last_seen read outside the lock.
Probe(c) ==
  /\ pc[c] = "probe"
  /\ \E i \in job[c].todo :
       /\ IsFirst(i, job[c].todo)
       /\ \E ok \in IF i \in AI THEN Reach[i] ELSE {i \in recent} :
            job' = [job EXCEPT ![c].ok = ok]
  /\ Goto(c, "store")
  /\ UNCHANGED <<arbitration, presence, lease, closure, logged>>

\* Faulty variant of Store: the loop does not advance.
StoreStuck(c) ==
  /\ pc[c] = "store"
  /\ \E i \in job[c].todo : IsFirst(i, job[c].todo) /\ SetOnline(i, job[c].ok)
  /\ Goto(c, "probe")
  /\ UNCHANGED <<arbitration, recent, lease, closure, logged, job>>

Store(c) ==
  /\ pc[c] = "store"
  /\ \E i \in job[c].todo :
       /\ IsFirst(i, job[c].todo)
       /\ SetOnline(i, job[c].ok)
       /\ job' = [job EXCEPT ![c].todo = @ \ {i}]
       /\ Goto(c, IF job[c].todo = {i} THEN "holder" ELSE "probe")
  /\ UNCHANGED <<arbitration, recent, lease, closure, logged>>

\* current = current_speaker, copied under the lock.
Holder(c) ==
  /\ pc[c] = "holder"
  /\ IF current_speaker = None
       THEN Done(c)
       ELSE /\ job' = [job EXCEPT ![c].arg = current_speaker]
            /\ Goto(c, "vacant")
  /\ UNCHANGED <<arbitration, presence, lease, closure, logged>>

\* Faulty variant of Present: a name that is no contact is left alone.
PresentOrUnknown(name) == name \in online \/ name \notin Contact

\* holder && online[holder]
Present(name) == name \in online

\* The holder's online flag, read outside the lock.
Vacant(c) ==
  /\ pc[c] = "vacant"
  /\ IF Present(job[c].arg)
       THEN Done(c)
       ELSE Goto(c, "pass") /\ UNCHANGED job
  /\ UNCHANGED <<arbitration, presence, lease, closure, logged>>

Pass(c) ==
  /\ pc[c] = "pass"
  /\ \E n \in Contact :
       /\ NextIs(job[c].arg, n)
       /\ job' = [job EXCEPT ![c].next = n]
       /\ Goto(c, Announce(n))
  /\ UNCHANGED <<presence, lease, closure, logged>>

PassNobody(c) ==
  /\ pc[c] = "pass"
  /\ NextIsNobody(job[c].arg)
  /\ Done(c)
  /\ UNCHANGED <<presence, lease, closure, logged>>

-----------------------------------------------------------------------------
(* Time and the process                                                    *)

\* A lease that is no longer running covers nothing.
Expire(running) ==
  /\ initiations' = IF running THEN initiations ELSE 0
  /\ conversing' = (conversing /\ running)

\* 300 seconds after the last mark.
LapseMemory ==
  /\ activity_until
  /\ activity_until' = FALSE
  /\ Expire(activity)
  /\ UNCHANGED <<arbitration, presence, activity, closure, logged, pc, job>>

LapseFile ==
  /\ activity
  /\ activity' = FALSE
  /\ Expire(activity_until)
  /\ UNCHANGED <<arbitration, presence, activity_until, closure, logged, pc, job>>

\* presence_seconds after the human h was last seen.
Fade(h) ==
  /\ h \in recent
  /\ recent' = recent \ {h}
  /\ UNCHANGED <<arbitration, online, lease, closure, logged, pc, job>>

\* The process dies and main starts it again: the turn comes back from the
\* transcript; if it names nobody, the lease in the file is cleared.
Restart ==
  /\ next_index' = 0
  /\ current_speaker' = logged
  /\ online' = {} /\ recent' = {}
  /\ activity_until' = FALSE
  /\ activity' = (activity /\ logged # None)
  /\ Expire(activity /\ logged # None)
  /\ closure_active' = FALSE /\ closure_expected' = {} /\ closure_votes' = NoVotes
  /\ pc' = [c \in Conns |-> "free"]
  /\ job' = [c \in Conns |-> Idle]
  /\ UNCHANGED logged

Step(c) ==
  \/ Drop(c) \/ Refuse(c) \/ Admit(c)
  \/ ReserveBusy(c) \/ Reserve(c)
  \/ RouteToSelf(c) \/ Route(c) \/ Fanout(c)
  \/ SettleBroadcast(c) \/ SettleNobody(c) \/ SettleTarget(c) \/ SettleOffline(c)
  \/ Unrouted(c) \/ Speak(c) \/ LogGrant(c) \/ Mark(c) \/ MarkFile(c)
  \/ Grant(c) \/ Transfer(c)
  \/ Propose(c) \/ ProposeActive(c) \/ Vote(c) \/ VoteRefused(c) \/ Tally(c)
  \/ EndLog(c) \/ EndTurn(c) \/ EndLease(c) \/ Cancel(c)
  \/ Probe(c) \/ Store(c) \/ Holder(c) \/ Vacant(c) \/ Pass(c) \/ PassNobody(c)

\* The hub at work, while its process lives.
Work ==
  \/ \E c \in Conns : Step(c) \/ \E r \in Requests : Accept(c, r)
  \/ LapseMemory \/ LapseFile
  \/ \E h \in Human : Fade(h)

Next == Work \/ Restart

Spec == Init /\ [][Next]_vars

(***************************************************************************)
(* Fairness.  The operating system schedules every thread, and each call a *)
(* handler makes has a time limit.  The web page sends STATUS every five   *)
(* seconds for as long as it is open (council/src/web_page.c), and not     *)
(* every one of these connections breaks before its line is read.          *)
(***************************************************************************)
AcceptStatus == \E c \in Conns : \E r \in Requests : r.verb = "status" /\ Accept(c, r)
AdmitStatus == \E c \in Conns : job[c].verb = "status" /\ Admit(c)

LiveSpec ==
  /\ Init /\ [][Work]_vars
  /\ \A c \in Conns : WF_vars(Step(c))
  /\ SF_vars(AcceptStatus) /\ SF_vars(AdmitStatus)

-----------------------------------------------------------------------------
\* The type of every variable, and whom a handler works for.
TypeOK ==
  /\ next_index \in Contact
  /\ current_speaker \in Name
  /\ online \in SUBSET Contact
  /\ recent \in SUBSET Human
  /\ activity_until \in BOOLEAN /\ activity \in BOOLEAN
  /\ initiations \in Nat /\ conversing \in BOOLEAN
  /\ closure_active \in BOOLEAN
  /\ closure_expected \in SUBSET Contact
  /\ closure_votes \in [Contact -> {-1, 0, 1}]
  /\ logged \in Name
  /\ pc \in [Conns -> Label]
  /\ job \in [Conns -> Job]
  /\ \A c \in Conns : pc[c] # "free" => job[c].person \in Contact
  /\ \A c \in Conns : pc[c] = "speak" => job[c].next \in AI

(***************************************************************************)
(* However INITIATEs, messages, file transfers, closures and restarts      *)
(* interleave, reserve_initiation accepts at most one initiation from the  *)
(* moment the lease is taken to the moment it is released or has lapsed.   *)
(***************************************************************************)
OneInitiation == initiations <= 1

(***************************************************************************)
(* What makes OneInitiation inductive: an initiation counted is covered by *)
(* a lease, in memory or in the file, so the next reservation sees it.     *)
(***************************************************************************)
LeaseCoversInitiation == initiations > 0 => Busy

Quiescent == \A c \in Conns : pc[c] = "free"

(***************************************************************************)
(* When no handler runs, a restart gives the turn to whoever holds it now: *)
(* current_speaker is the last speaker of the transcript, unless nobody    *)
(* holds the turn.                                                         *)
(***************************************************************************)
TurnSurvivesRestart == Quiescent => current_speaker \in {logged, None}

(***************************************************************************)
(* The conversation-end line is appended only while every expected         *)
(* participant's vote is close (docs: "the council closes only when        *)
(* everyone closes").                                                      *)
(***************************************************************************)
UnanimousEnd ==
  \A c \in Conns : pc[c] = "endlog" =>
    \A e \in closure_expected : closure_votes[e] = 1

(***************************************************************************)
(* An accepted message holds the lease until the conversation is closed or *)
(* the lease lapses (docs: "Each accepted message refreshes a persisted    *)
(* 300-second activity lease"): no other request makes the hub idle.       *)
(***************************************************************************)
LeaseHeld == conversing => Busy

(***************************************************************************)
(* A message moves the turn only while its sender may speak (docs: "Out-of-*)
(* turn messages and files are rejected").  Two connections that speak at  *)
(* once break it: the check and the pass are two critical sections.        *)
(***************************************************************************)
SpeaksInTurn ==
  \A c \in Conns : pc[c] = "settle" /\ job[c].verb = "say" =>
    CanSpeak(current_speaker, job[c].person)

(***************************************************************************)
(* Every handler returns, whatever the others do.                          *)
(***************************************************************************)
HandlersReturn == \A c \in Conns : (pc[c] # "free") ~> (pc[c] = "free")

\* Names that nobody answers to and that never connect.
Gone ==
  {Stranger} \cup
  {g \in Contact : /\ g \in AI => Reach[g] = {FALSE}
                   /\ \A r \in Requests : r.person # g}

(***************************************************************************)
(* A turn held by somebody who is gone (an AI that stopped, a human who    *)
(* left, a name granted by mistake) does not stay with them: a STATUS      *)
(* probe takes it away, whatever messages and grants interleave with it.   *)
(***************************************************************************)
TurnRecovers == \A g \in Gone : (current_speaker = g) ~> (current_speaker # g)
=============================================================================
