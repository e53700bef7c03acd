--------------------------- MODULE VoicePipeline ---------------------------
(***************************************************************************)
(* rose-voice speaking a text of Count sentences: three stage threads      *)
(* (piper makes the dry sound, sox the wet one, envelope the light levels) *)
(* and the main thread, which plays.  They share ready flags and one       *)
(* failure flag under a mutex with a condition variable; every critical    *)
(* section is one step here.  A stage runs on a worker host if one is      *)
(* assigned, and locally if that fails.                                    *)
(***************************************************************************)
EXTENDS VoiceWorker

CONSTANTS
    Count,   \* sentences of the text
    Remote   \* stages with an available preferred worker

ASSUME VoiceBounds == Count \in Nat \ {0} /\ Remote \subseteq Clients

Stages == {"piper", "sox", "envelope"}
Sentences == 1..Count
Kinds == {"text", "dry", "wet", "light"}
Input == [piper |-> "text", sox |-> "dry", envelope |-> "dry"]
Output == [piper |-> "dry", sox |-> "wet", envelope |-> "light"]
Threads == Stages \cup {"main"}

VARIABLES
    pc,       \* thread -> its place
    index,    \* thread -> the sentence it works on
    ready,    \* outputs published: dry_ready, wet_ready, envelope_ready
    failed,   \* pipeline.failed
    waiting,  \* threads asleep in pthread_cond_wait
    content,  \* temporary file -> absent, empty, partial or whole
    created,  \* stage threads started
    lock_held, result

voiceVars == <<pc, index, ready, failed, waiting, content, created, lock_held, result>>
vars == <<workerVars, voiceVars>>

Init ==
    /\ workerInit
    /\ pc = [t \in Threads |-> IF t = "main" THEN "files" ELSE "unborn"]
    /\ index = [t \in Threads |-> 1]
    /\ ready = {}
    /\ failed = FALSE
    /\ waiting = {}
    /\ content = [f \in Sentences \X Kinds |-> "absent"]
    /\ created = {}
    /\ lock_held = FALSE
    /\ result = "failure"

Goto(t, place) == pc' = [pc EXCEPT ![t] = place]

(***************************************************************************)
(* Stage threads                                                           *)
(***************************************************************************)
in(s) == <<index[s], Input[s]>>
out(s) == <<index[s], Output[s]>>

\* Faulty variant of pipeline_fail: whoever is asleep is not told.
pipeline_failSilent == failed' = TRUE /\ UNCHANGED waiting

pipeline_fail == failed' = TRUE /\ waiting' = {}

\* A stage thread looks at the flags before each sentence, and sleeps while its
\* input is neither there nor given up.
stageCheck(s) ==
    /\ pc[s] = "check"
    /\ s \notin waiting
    /\ IF failed THEN Goto(s, "done") /\ UNCHANGED waiting
       ELSE IF s # "piper" /\ in(s) \notin ready
       THEN waiting' = waiting \cup {s} /\ UNCHANGED pc
       ELSE Goto(s, IF s \in Remote THEN "connect" ELSE "local") /\ UNCHANGED waiting
    /\ UNCHANGED <<workerVars, index, ready, failed, content, created, lock_held, result>>

remoteConnect(s) ==
    /\ pc[s] = "connect"
    /\ \/ connect(s) /\ Goto(s, "remote")
       \/ Goto(s, "local") /\ UNCHANGED workerVars
    /\ UNCHANGED <<index, ready, failed, waiting, content, created, lock_held, result>>

\* The result replaces the output file in one rename.
remoteResult(s) ==
    /\ pc[s] = "remote"
    /\ conn[s] = "result"
    /\ disconnect(s)
    /\ \/ /\ content' = [content EXCEPT ![out(s)] = "whole"]
          /\ Goto(s, "publish")
       \/ /\ Goto(s, "local")   \* the file did not arrive whole, or rename() failed
          /\ UNCHANGED content
    /\ UNCHANGED <<index, ready, failed, waiting, created, lock_held, result>>

\* The worker gave up, or nothing came in time: the stage is done here.
remoteFailed(s) ==
    /\ pc[s] = "remote"
    /\ conn[s] \in {"open", "failed"}
    /\ disconnect(s)
    /\ Goto(s, "local")
    /\ UNCHANGED <<index, ready, failed, waiting, content, created, lock_held, result>>

\* voice_stage_*: a child process writes the output; the deadline kills it.
localStart(s) ==
    /\ pc[s] = "local"
    /\ content' = [content EXCEPT ![out(s)] = "partial"]
    /\ Goto(s, "running")
    /\ UNCHANGED <<workerVars, index, ready, failed, waiting, created, lock_held, result>>

localEnd(s) ==
    /\ pc[s] = "running"
    /\ \/ /\ content' = [content EXCEPT ![out(s)] = "whole"]
          /\ Goto(s, "publish")
          /\ UNCHANGED <<failed, waiting>>
       \/ /\ pipeline_fail
          /\ Goto(s, "done")
          /\ UNCHANGED content
    /\ UNCHANGED <<workerVars, index, ready, created, lock_held, result>>

\* Faulty variant of stagePublish: the flag is set and nobody is woken.
stagePublishSilent(s) ==
    /\ pc[s] = "publish"
    /\ ready' = ready \cup {out(s)}
    /\ index' = [index EXCEPT ![s] = IF index[s] < Count THEN index[s] + 1 ELSE index[s]]
    /\ Goto(s, IF index[s] < Count THEN "check" ELSE "done")
    /\ UNCHANGED <<workerVars, failed, waiting, content, created, lock_held, result>>

stagePublish(s) ==
    /\ pc[s] = "publish"
    /\ ready' = ready \cup {out(s)}
    /\ waiting' = {}
    /\ index' = [index EXCEPT ![s] = IF index[s] < Count THEN index[s] + 1 ELSE index[s]]
    /\ Goto(s, IF index[s] < Count THEN "check" ELSE "done")
    /\ UNCHANGED <<workerVars, failed, content, created, lock_held, result>>

(***************************************************************************)
(* Main thread                                                             *)
(***************************************************************************)
\* The temporary files of every sentence, or some of them before an error.
mainFiles ==
    /\ pc["main"] = "files"
    /\ \/ /\ content' = [f \in DOMAIN content |-> IF f[2] = "text" THEN "whole" ELSE "empty"]
          /\ Goto("main", "create")
          /\ UNCHANGED <<failed, waiting>>
       \/ /\ \E n \in Sentences :
               content' = [f \in DOMAIN content |-> IF f[1] <= n THEN "empty" ELSE "absent"]
          /\ pipeline_fail
          /\ Goto("main", "join")
    /\ UNCHANGED <<workerVars, index, ready, created, lock_held, result>>

\* pthread_create for piper, then sox, then envelope.
mainCreate(s) ==
    /\ pc["main"] = "create"
    /\ s = CASE created = {} -> "piper"
             [] created = {"piper"} -> "sox"
             [] OTHER -> "envelope"
    /\ \/ /\ created' = created \cup {s}
          /\ pc' = [pc EXCEPT ![s] = "check",
                              !["main"] = IF s = "envelope" THEN "wait" ELSE "create"]
          /\ UNCHANGED <<failed, waiting>>
       \/ /\ pipeline_fail
          /\ Goto("main", "join")
          /\ UNCHANGED created
    /\ UNCHANGED <<workerVars, index, ready, content, lock_held, result>>

\* Faulty variant of playable: either flag is enough.
playableEither(i) == <<i, "wet">> \in ready \/ <<i, "light">> \in ready

playable(i) == <<i, "wet">> \in ready /\ <<i, "light">> \in ready

mainWait ==
    /\ pc["main"] = "wait"
    /\ "main" \notin waiting
    /\ IF failed THEN Goto("main", "join") /\ UNCHANGED <<waiting, lock_held>>
       ELSE IF ~playable(index["main"])
       THEN waiting' = waiting \cup {"main"} /\ UNCHANGED <<pc, lock_held>>
       ELSE /\ Goto("main", "play")
            /\ lock_held' \in IF index["main"] = 1 THEN BOOLEAN ELSE {lock_held}
            /\ UNCHANGED waiting
    /\ UNCHANGED <<workerVars, index, ready, failed, content, created, result>>

\* play_sentence, then the sentence's files are removed.
mainPlay ==
    LET i == index["main"]
    IN /\ pc["main"] = "play"
       /\ \/ /\ content' = [f \in DOMAIN content |-> IF f[1] = i THEN "absent" ELSE content[f]]
             /\ index' = [index EXCEPT !["main"] = IF i < Count THEN i + 1 ELSE i]
             /\ Goto("main", IF i < Count THEN "wait" ELSE "join")
             /\ result' = IF i < Count THEN result ELSE "success"
             /\ UNCHANGED <<failed, waiting>>
          \/ /\ pipeline_fail
             /\ Goto("main", "join")
             /\ UNCHANGED <<content, index, result>>
       /\ UNCHANGED <<workerVars, ready, created, lock_held>>

\* Faulty variant of mainJoin: the files are removed before the threads are joined.
mainJoinLate ==
    /\ pc["main"] = "join"
    /\ Goto("main", "cleanup")
    /\ UNCHANGED <<workerVars, index, ready, failed, waiting, content, created, lock_held, result>>

\* pthread_join of every thread that was started.
mainJoin ==
    /\ pc["main"] = "join"
    /\ \A s \in created : pc[s] = "done"
    /\ Goto("main", "cleanup")
    /\ UNCHANGED <<workerVars, index, ready, failed, waiting, content, created, lock_held, result>>

\* The light goes dark, the lock is released, the remaining files are removed.
mainCleanup ==
    /\ pc["main"] = "cleanup"
    /\ lock_held' = FALSE
    /\ content' = [f \in DOMAIN content |-> "absent"]
    /\ Goto("main", "done")
    /\ UNCHANGED <<workerVars, index, ready, failed, waiting, created, result>>

stageStep(s) ==
    \/ stageCheck(s) \/ remoteConnect(s) \/ remoteResult(s) \/ remoteFailed(s)
    \/ localStart(s) \/ localEnd(s) \/ stagePublish(s)

mainStep ==
    mainFiles \/ (\E s \in Stages : mainCreate(s)) \/ mainWait \/ mainPlay \/ mainJoin \/ mainCleanup

Next ==
    \/ workerStep /\ UNCHANGED voiceVars
    \/ \E s \in Stages : stageStep(s)
    \/ mainStep

\* Every thread keeps running; every wait on a worker or a child is bounded by a
\* timeout, which is a step of the waiting thread.
Spec == Init /\ [][Next]_vars /\ WF_vars(mainStep) /\ \A s \in Stages : WF_vars(stageStep(s))

(***************************************************************************)
(* Properties                                                              *)
(***************************************************************************)
\* Every variable keeps its type and the worker's count stays within its limit;
\* only threads at a condition are asleep.
TypeOK ==
    /\ wpc \in {"poll", "fork", "count", "stopped"}
    /\ current \in Clients \cup {Gone}
    /\ active \in 0..MaxChildren
    /\ \A k \in Slots : kids[k].phase \in {"free", "input", "exec", "send", "zombie"}
    /\ conn \in [Clients -> {"none", "open", "failed", "result"}]
    /\ index \in [Threads -> Sentences]
    /\ ready \subseteq Sentences \X Kinds
    /\ \A t \in waiting : pc[t] \in {"check", "wait"}
    /\ content \in [Sentences \X Kinds -> {"absent", "empty", "partial", "whole"}]

ActiveIsLive ==
    wpc # "stopped" =>
      active + (IF wpc = "count" THEN 1 ELSE 0) = Cardinality({k \in Slots : kids[k] # Free})

\* The worker's hand-kept count is the number of its children not yet reaped, and
\* within the limit: no order of forks, exits and SIGCHLD makes it drift, which
\* would refuse tasks for good or admit too many.
PoolCounts == ActiveIsLive /\ active <= MaxChildren

\* What is played and what a stage reads is whole: sound and light of the sentence
\* are complete when main plays it, and a stage's input is complete and not yet
\* removed while the stage works, on a worker or here.
PlaysWhole ==
    /\ pc["main"] = "play" => /\ content[<<index["main"], "wet">>] = "whole"
                              /\ content[<<index["main"], "light">>] = "whole"
    /\ \A s \in Stages : pc[s] \in {"connect", "remote", "local", "running"} => content[in(s)] = "whole"

\* Temporary files are removed, including after failures: when rose-voice ends no
\* thread is left that could make one, and none is there; a worker's child that
\* has ended left none either.
CleanExit ==
    /\ pc["main"] = "done" => /\ \A f \in DOMAIN content : content[f] = "absent"
                              /\ \A s \in Stages : pc[s] \in {"unborn", "done"}
    /\ \A k \in Slots : kids[k].phase \in {"free", "zombie"} => kids[k].files = {}

\* What thread t sleeps for: the next input of a stage, the two outputs main plays.
awaited(t) == IF t = "main" THEN playable(index[t]) ELSE in(t) \in ready

\* Thread t cannot take a step before another thread has taken one.
blocked(t) ==
    \/ pc[t] \in {"unborn", "done"}
    \/ t \in waiting
    \/ t = "main" /\ pc[t] = "join" /\ \E s \in created : pc[s] # "done"

\* Nobody sleeps on: a thread in pthread_cond_wait has neither what it waits for
\* nor a failure to see, so no broadcast was missed, and until rose-voice ends
\* the threads are never all waiting for one another.
NobodySleepsOn ==
    /\ \A t \in waiting : ~failed /\ ~awaited(t)
    /\ pc["main"] # "done" => \E t \in Threads : ~blocked(t)

\* rose-voice always ends, whatever fails and whoever is asleep when it fails.
Finishes == <>(pc["main"] = "done")
=============================================================================
