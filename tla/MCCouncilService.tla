-------------------------- MODULE MCCouncilService --------------------------
(***************************************************************************)
(* Small councils: contact 0 is the AI that arbitrates, 1 an AI, 2 a human. *)
(***************************************************************************)
EXTENDS CouncilService, TLC

CONSTANTS c1, c2, c3

AnyOutcome == [d \in Contact |-> BOOLEAN]

Req(p, v, a) == [person |-> p, verb |-> v, arg |-> a]

\* Every command, from the contacts it makes a difference for.
AllRequests ==
  {Req(p, v, None) : p \in Contact, v \in {"propose", "close", "continue"}}
  \cup {Req(p, v, a) : p \in {0, 2}, v \in {"say", "initiate"},
                       a \in Contact \cup {None}}
  \cup {Req(2, "grant", a) : a \in Name}
  \cup {Req(2, "status", None), Req(1, "query", None), Req(1, "deliver", None),
        Req(2, "file", None), Req(1, "store", None)}

\* Initiations, messages, files and closures that contend for the lease, in
\* a council of one AI (0) and one human (1).
LeaseRequests ==
  {Req(0, "initiate", None), Req(1, "initiate", 0), Req(0, "say", None),
   Req(1, "file", None), Req(0, "propose", None), Req(1, "close", None)}

\* Contact 0 answers, the AI 1 is gone, the human 2 has the page open.
OneGone == [d \in Contact |-> {d # 1}]
PollRequests ==
  {Req(2, "status", None), Req(0, "say", None), Req(2, "grant", Stranger)}

\* Requests of two connections that meet: with them SpeaksInTurn, LeaseHeld and
\* UnanimousEnd do not hold (README, "Where the code and its documents differ").
TurnRequests == {Req(p, "say", None) : p \in {0, 2}}
MixedLeaseRequests == {Req(0, "say", None), Req(2, "initiate", 1)}
ClosureRequests == {Req(0, "propose", None), Req(2, "close", None), Req(2, "continue", None)}

Connections == Permutations(Conns)
=============================================================================
