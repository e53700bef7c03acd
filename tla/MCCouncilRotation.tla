------------------------- MODULE MCCouncilRotation -------------------------
(***************************************************************************)
(* A council of two AIs (0 and 1) and a human (2), two connections at a    *)
(* time: broadcasts by two participants, a STATUS probe, a grant.          *)
(***************************************************************************)
EXTENDS CouncilRotation, MCCouncilService

\* The AI 1 answers or not, 0 always does.
OneUnsteady == [d \in Contact |-> IF d = 1 THEN BOOLEAN ELSE {TRUE}]

RotationRequests ==
  {Req(0, "say", None), Req(2, "say", None), Req(2, "status", None), Req(2, "grant", Stranger)}
=============================================================================
