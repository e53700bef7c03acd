------------------------------- MODULE SelfTest -------------------------------
(***************************************************************************)
(* The boot self test of the ESP runtime (esp/common/src/core/             *)
(* noob_self_test.cpp): probes are registered at boot and then called one  *)
(* by one from the runtime loop, a failed one again up to its attempts.    *)
(* A probe is [name, attempts, pendingOnFailure, registered], the last of  *)
(* which says whether the registry knows its function.                     *)
(***************************************************************************)
EXTENDS Integers, Sequences, FiniteSets

CONSTANTS
  Plans,       \* sequences of probes that a Noob registers at boot
  MAX_CHECKS,  \* 64
  MAX_PROBES   \* 40

Probe == [name : STRING, attempts : Nat, pendingOnFailure : BOOLEAN, registered : BOOLEAN]

ASSUME PlanAssumption == Plans \subseteq Seq(Probe) /\ MAX_PROBES \in Nat

VARIABLES
  plan,          \* what is still to be registered
  planReady, finished,
  checks,        \* the recorded state by name
  probes, nextProbe, tried

testVars == <<plan, planReady, finished, checks, probes, nextProbe, tried>>

testInit ==
  /\ plan \in Plans
  /\ planReady = FALSE /\ finished = FALSE
  /\ checks = [n \in {} |-> "untested"]
  /\ probes = <<>> /\ nextProbe = 1 /\ tried = 0

\* record(name, state): a new name needs a free check.
recordable(name) == name \in DOMAIN checks \/ Cardinality(DOMAIN checks) < MAX_CHECKS
recorded(name, state) ==
  [n \in DOMAIN checks \cup {name} |-> IF n = name THEN state ELSE checks[n]]

\* addProbe: refused when the table or the checks are full
addProbe ==
  /\ ~planReady /\ plan # <<>>
  /\ LET p == Head(plan)
     IN  IF Len(probes) = MAX_PROBES \/ ~recordable(p.name)
           THEN UNCHANGED <<checks, probes>>
           ELSE checks' = recorded(p.name, "pending") /\ probes' = Append(probes, p)
  /\ plan' = Tail(plan)
  /\ UNCHANGED <<planReady, finished, nextProbe, tried>>

finish ==
  /\ ~planReady /\ plan = <<>>
  /\ planReady' = TRUE
  /\ UNCHANGED <<plan, finished, checks, probes, nextProbe, tried>>

\* Faulty variant of probe: a failed probe is not tried again.
probeOnce(ok) ==
  LET p == probes[nextProbe]
      retry == ~ok /\ p.registered /\ tried + 1 < p.attempts
      state == IF ok THEN "ready" ELSE IF ~p.registered THEN "disabled"
               ELSE IF retry \/ p.pendingOnFailure THEN "pending" ELSE "failed"
  IN  /\ ok => p.registered
      /\ checks' = recorded(p.name, state)
      /\ nextProbe' = nextProbe + 1 /\ tried' = 0
      /\ UNCHANGED <<plan, planReady, finished, probes>>

\* Faulty variant of probe: the attempts are not counted.
probeForever(ok) ==
  LET p == probes[nextProbe]
      retry == ~ok /\ p.registered
      state == IF ok THEN "ready" ELSE IF ~p.registered THEN "disabled"
               ELSE IF retry \/ p.pendingOnFailure THEN "pending" ELSE "failed"
  IN  /\ ok => p.registered
      /\ checks' = recorded(p.name, state)
      /\ IF retry THEN UNCHANGED <<nextProbe, tried>>
                  ELSE nextProbe' = nextProbe + 1 /\ tried' = 0
      /\ UNCHANGED <<plan, planReady, finished, probes>>

\* The call of the next probe, whose outcome is ok.
probe(ok) ==
  LET p == probes[nextProbe]
      retry == ~ok /\ p.registered /\ tried + 1 < p.attempts
      state == IF ok THEN "ready" ELSE IF ~p.registered THEN "disabled"
               ELSE IF retry \/ p.pendingOnFailure THEN "pending" ELSE "failed"
  IN  /\ ok => p.registered
      /\ checks' = recorded(p.name, state)
      /\ IF retry THEN tried' = tried + 1 /\ UNCHANGED nextProbe
                  ELSE nextProbe' = nextProbe + 1 /\ tried' = 0
      /\ UNCHANGED <<plan, planReady, finished, probes>>

probing == planReady /\ ~finished /\ nextProbe <= Len(probes)

\* tick when the time of the next probe has come
testProbe == probing /\ \E ok \in BOOLEAN : probe(ok)

\* tick after the last probe; eventPending_ is set and cleared in this tick
testReport ==
  /\ planReady /\ ~finished /\ nextProbe > Len(probes)
  /\ finished' = TRUE
  /\ UNCHANGED <<plan, planReady, checks, probes, nextProbe, tried>>

-----------------------------------------------------------------------------
(***************************************************************************)
(* The report is final: once it is sent no check is left pending that a    *)
(* further attempt would have decided.  A check still pending belongs to a *)
(* probe that was registered as pending on failure.                        *)
(***************************************************************************)
ReportFinal ==
  finished =>
    \A n \in DOMAIN checks :
      checks[n] = "pending" =>
        \E i \in 1 .. Len(probes) : probes[i].name = n /\ probes[i].pendingOnFailure
=============================================================================
