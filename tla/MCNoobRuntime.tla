---------------------------- MODULE MCNoobRuntime ----------------------------
(* A small instance of the runtime for TLC: byte code and boot plans. *)
EXTENDS NoobRuntime

\* start the sampler, poll it in a loop with a wait, read a field of each result
Watcher ==
  <<32,0,1,0,0,  33,1,0,  32,0,5,0,0,  17,0,5,0,  1,1,0,0,0,0,  32,1,6,0,1,1,  16,5,0>>
\* a loop without a wait
Spinner == <<16,0,0>>
\* start with a duration and a text, then recurse until the stack is full
Recursive == <<1,0,60,0,0,0,  34,1,1,0,1,0,1,65,  19,14,0>>
\* a subroutine that counts down, then memory and a division by zero
Counter ==
  <<1,0,2,0,0,0,  1,1,255,0,0,0,  19,28,0,  18,0,12,0,  49,0,0,  48,1,0,  16,32,0,
    3,0,0,1, 20,  5,1,1,1,  4,1,1,1,  6,0,0,1>>
\* an instruction cut short, and a jump into the middle of an instruction
Broken == <<16,4,0,  1,2,9,0,0>>

MCPrograms == {Watcher, Spinner, Recursive, Counter, Broken}

P(name, attempts, pendingOnFailure, registered) ==
  [name |-> name, attempts |-> attempts, pendingOnFailure |-> pendingOnFailure, registered |-> registered]
MCPlans ==
  {<<>>,
   <<P("a", 2, FALSE, TRUE), P("b", 3, TRUE, TRUE), P("b", 1, FALSE, FALSE), P("c", 1, FALSE, TRUE), P("a", 1, FALSE, TRUE)>>}

MCCalls ==
  {<<0, <<>>, <<>>>>, <<Id.START, <<60, 60>>, <<>>>>, <<Id.START, <<>>, <<10>>>>, <<Id.FIELD, <<0>>, <<>>>>}
  \cup {<<id, <<>>, <<>>>> : id \in Natives}
MCRecord == 1 .. 4
MCLevels == [change |-> {0, 6, 20}, rise |-> {0, 1}, sample |-> {0}]
=============================================================================
