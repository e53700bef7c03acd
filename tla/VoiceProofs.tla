----------------------------- MODULE VoiceProofs -----------------------------
(***************************************************************************)
(* Theorems about VoicePipeline, for texts of any length and workers of    *)
(* any size: the worker's count of its children, what is played and read,  *)
(* what is left behind, that no thread sleeps through its wakeup, and how  *)
(* many steps a thread can take.  The last section is about Rose's other   *)
(* tool, the lock file of the light sequences (HueLock).                   *)
(***************************************************************************)
EXTENDS VoicePipeline, FiniteSetTheorems, TLAPS

(***************************************************************************)
(* The pipeline.  A sentence is Played once its files are removed.         *)
(***************************************************************************)
Places == {"unborn", "check", "connect", "remote", "local", "running", "publish", "done",
           "files", "create", "wait", "play", "join", "cleanup"}
Working == {"connect", "remote", "local", "running"}

Played(i) == i < index["main"] \/ result = "success"

PipelineTypes ==
  /\ pc \in [Threads -> Places] /\ index \in [Threads -> Sentences]
  /\ ready \subseteq Sentences \X Kinds
  /\ content \in [Sentences \X Kinds -> {"absent", "empty", "partial", "whole"}]
  /\ pc["main"] \in {"files", "create", "wait", "play", "join", "cleanup", "done"}
  /\ \A s \in Stages : pc[s] \in Working \cup {"unborn", "check", "publish", "done"}

\* Which threads exist.
Born ==
  /\ \A s \in Stages \ created : pc[s] = "unborn"
  /\ pc["main"] = "files" => created = {} /\ ready = {}
  /\ pc["main"] = "create" => created \in {{}, {"piper"}, {"piper", "sox"}}
  /\ pc["main"] \in {"cleanup", "done"} => \A s \in Stages : pc[s] \in {"unborn", "done"}
  /\ result = "success" => pc["main"] \in {"join", "cleanup", "done"}

\* Outputs are published in order, each after the input it was made from, and
\* a sentence is played after its outputs.
Order ==
  /\ \A s \in Stages, i \in Sentences : pc[s] # "done" /\ <<i, Output[s]>> \in ready => i < index[s]
  /\ \A i \in Sentences : <<i, "wet">> \in ready \/ <<i, "light">> \in ready => <<i, "dry">> \in ready
  /\ \A s \in Stages \ {"piper"} : pc[s] \in Working \cup {"publish"} => in(s) \in ready
  /\ \A i \in Sentences : Played(i) => playable(i)
  /\ pc["main"] = "play" => playable(index["main"])

\* Files that somebody may still read are whole.
Files ==
  /\ pc["main"] # "done" => \A f \in ready : Played(f[1]) \/ content[f] = "whole"
  /\ pc["main"] # "done" /\ pc["piper"] # "unborn" =>
       \A i \in Sentences : Played(i) \/ content[<<i, "text">>] = "whole"
  /\ pc["main"] = "create" => \A i \in Sentences : content[<<i, "text">>] = "whole"
  /\ \A s \in Stages : pc[s] \in Working => content[in(s)] = "whole"
  /\ \A s \in Stages : pc[s] = "publish" => content[out(s)] = "whole"
  /\ pc["main"] = "done" => \A f \in Sentences \X Kinds : content[f] = "absent"

PipelineInv == PipelineTypes /\ Born /\ Order /\ Files

LEMMA Untouched == ASSUME PipelineInv, UNCHANGED voiceVars PROVE PipelineInv'
  BY SMTT(60)
     DEF PipelineInv, PipelineTypes, Born, Order, Files, voiceVars, Played, in, out, playable

\* Steps of a stage that move it on without a file or a flag.
LEMMA StageMoves ==
  ASSUME PipelineInv, NEW s \in Stages, NEW l \in Working \cup {"check", "done"},
         pc[s] \in Working \cup {"check"}, pc' = [pc EXCEPT ![s] = l],
         UNCHANGED <<index, ready, content, created, result>>,
         l \in Working => content[in(s)] = "whole" /\ (s # "piper" => in(s) \in ready)
  PROVE  PipelineInv'
<1>1. s # "main" /\ s \in Threads
  BY DEF Stages, Threads
<1>2. PipelineTypes' /\ Born'
  BY <1>1, SMTT(60) DEF PipelineInv, PipelineTypes, Born, Working, Places, Stages, Threads
<1>3. Order'
  BY <1>1, SMTT(60) DEF PipelineInv, PipelineTypes, Order, Working, Played, in, playable, Stages, Threads
<1>4. Files'
  BY <1>1, SMTT(60) DEF PipelineInv, PipelineTypes, Born, Files, Working, Played, in, out, Stages, Threads
<1> QED
  BY <1>2, <1>3, <1>4 DEF PipelineInv

\* A stage that is not done writes a file nobody else reads yet.
LEMMA StageWrites ==
  ASSUME PipelineInv, NEW s \in Stages, pc[s] \in Working,
         NEW l \in {"running", "publish"}, pc' = [pc EXCEPT ![s] = l],
         NEW c \in {"partial", "whole"}, content' = [content EXCEPT ![out(s)] = c],
         l = "publish" => c = "whole",
         UNCHANGED <<index, ready, created, result>>
  PROVE  PipelineInv'
<1>1. s # "main" /\ s \in Threads /\ "main" \in Threads
  BY DEF Stages, Threads
<1>2. out(s) \in Sentences \X Kinds /\ out(s) \notin ready /\ out(s)[2] # "text"
  BY <1>1, SMTT(60) DEF PipelineInv, PipelineTypes, Order, Working, out, Output, Kinds, Stages, Threads, Sentences
<1>3. \A t \in Stages : pc[t] \in Working => in(t) \in Sentences \X Kinds /\ in(t) # out(s)
  <2> SUFFICES ASSUME NEW t \in Stages, pc[t] \in Working
               PROVE  in(t) \in Sentences \X Kinds /\ in(t) # out(s)
    OBVIOUS
  <2>1. CASE t = "piper"
    BY <1>2, <2>1, SMTT(60) DEF PipelineInv, PipelineTypes, in, Input, Kinds, Threads, Stages
  <2>2. CASE t # "piper"
    BY <1>2, <2>2, SMTT(60) DEF PipelineInv, PipelineTypes, Order
  <2> QED
    BY <2>1, <2>2
<1>4. \A t \in Stages : t # s => out(t) # out(s)
  BY SMTT(60) DEF out, Output, Stages
<1>5. PipelineTypes' /\ Born'
  BY <1>1, <1>2, SMTT(60) DEF PipelineInv, PipelineTypes, Born, Working, Places, Stages, Threads
<1>6. Order'
  BY <1>1, SMTT(60) DEF PipelineInv, PipelineTypes, Order, Working, Played, in, playable, Stages, Threads
<1>7. /\ \A f \in ready : content'[f] = content[f]
      /\ \A j \in Sentences : content'[<<j, "text">>] = content[<<j, "text">>]
      /\ \A t \in Stages : pc[t] \in Working => content'[in(t)] = content[in(t)]
      /\ \A t \in Stages : t # s /\ pc[t] = "publish" => content'[out(t)] = content[out(t)]
      /\ content'[out(s)] = c
  BY <1>2, <1>3, <1>4, SMTT(60) DEF PipelineInv, PipelineTypes, Kinds
<1>8. Files'
  <2>1. pc["main"] # "done" /\ pc'["main"] = pc["main"]
    BY <1>1, SMTT(60) DEF PipelineInv, PipelineTypes, Born, Working
  <2> QED
    BY <1>1, <1>7, <2>1, SMTT(60) DEF PipelineInv, PipelineTypes, Files, Working, Played, in, out, Stages, Threads
<1> QED
  BY <1>5, <1>6, <1>8 DEF PipelineInv

LEMMA StagePublishes == ASSUME PipelineInv, NEW s \in Stages, stagePublish(s) PROVE PipelineInv'
<1>1. s # "main" /\ s \in Threads /\ "main" \in Threads
  BY DEF Stages, Threads
<1>2. /\ pc[s] = "publish" /\ ready' = ready \cup {out(s)}
      /\ index' = [index EXCEPT ![s] = IF index[s] < Count THEN index[s] + 1 ELSE index[s]]
      /\ pc' = [pc EXCEPT ![s] = IF index[s] < Count THEN "check" ELSE "done"]
      /\ UNCHANGED <<content, created, result>>
  BY DEF stagePublish, Goto
<1>3. index[s] \in Sentences /\ out(s) \in Sentences \X Kinds /\ content[out(s)] = "whole"
  BY <1>1, <1>2, SMTT(60) DEF PipelineInv, PipelineTypes, Files, out, Output, Kinds, Stages
<1>4. PipelineTypes'
  BY <1>1, <1>2, <1>3, VoiceBounds, SMTT(60) DEF PipelineInv, PipelineTypes, Working, Places, Stages, Threads, Sentences
<1>5. Born'
  BY <1>1, <1>2, SMTT(60) DEF PipelineInv, PipelineTypes, Born, Stages, Threads
<1>6. Order'
  <2>1. \A t \in Stages, j \in Sentences : pc'[t] # "done" /\ <<j, Output[t]>> \in ready' => j < index'[t]
    <3> SUFFICES ASSUME NEW t \in Stages, NEW j \in Sentences, pc'[t] # "done", <<j, Output[t]>> \in ready'
                 PROVE  j < index'[t]
      OBVIOUS
    <3>1. CASE t = s
      BY <1>1, <1>2, <1>3, <3>1, VoiceBounds, SMTT(60) DEF PipelineInv, PipelineTypes, Order, out, Sentences
    <3>2. CASE t # s
      BY <1>1, <1>2, <1>3, <3>2, SMTT(60) DEF PipelineInv, PipelineTypes, Order, out, Output, Stages, Threads
    <3> QED
      BY <3>1, <3>2
  <2>2. \A j \in Sentences : <<j, "wet">> \in ready' \/ <<j, "light">> \in ready' => <<j, "dry">> \in ready'
    BY <1>2, SMTT(60) DEF PipelineInv, Order, out, in, Output, Input, Stages
  <2>3. \A t \in Stages \ {"piper"} : pc'[t] \in Working \cup {"publish"} => in(t)' \in ready'
    BY <1>1, <1>2, SMTT(60) DEF PipelineInv, PipelineTypes, Order, in, Working, Stages, Threads
  <2>4. index'["main"] = index["main"] /\ pc'["main"] = pc["main"]
    BY <1>1, <1>2, SMTT(60) DEF PipelineInv, PipelineTypes
  <2> QED
    BY <1>2, <2>1, <2>2, <2>3, <2>4, SMTT(60) DEF PipelineInv, Order, Played, playable
<1>7. Files'
  <2>1. index'["main"] = index["main"] /\ pc'["main"] = pc["main"] /\ pc["main"] # "done"
    BY <1>1, <1>2, SMTT(60) DEF PipelineInv, PipelineTypes, Born
  <2> QED
    BY <1>1, <1>2, <1>3, <2>1, SMTT(60) DEF PipelineInv, PipelineTypes, Files, Working, Played, in, out, Stages, Threads
<1> QED
  BY <1>4, <1>5, <1>6, <1>7 DEF PipelineInv

LEMMA StageSteps == ASSUME PipelineInv, NEW s \in Stages, stageStep(s) PROVE PipelineInv'
<1>1. CASE stageCheck(s)
  <2>1. pc[s] = "check" /\ UNCHANGED <<index, ready, content, created, result>>
    BY <1>1 DEF stageCheck
  <2>2. CASE pc' = pc
    BY <2>1, <2>2, SMTT(60) DEF PipelineInv, PipelineTypes, Born, Order, Files, Played, in, out, playable
  <2>3. CASE pc' = [pc EXCEPT ![s] = "done"]
    <3>1. pc[s] \in Working \cup {"check"} /\ "done" \in Working \cup {"check", "done"} /\ "done" \notin Working
      BY <2>1 DEF Working
    <3> QED
      BY <2>1, <2>3, <3>1, StageMoves, ZenonT(60)
  <2>4. CASE pc' # pc /\ pc' # [pc EXCEPT ![s] = "done"]
    <3>1. (s = "piper" \/ in(s) \in ready) /\ \E l \in {"connect", "local"} : pc' = [pc EXCEPT ![s] = l]
      BY <1>1, <2>4 DEF stageCheck, Goto
    <3>2. s \in Threads /\ index[s] \in Sentences /\ ~Played(index[s]) /\ pc["main"] # "done"
      <4>1. s \in Threads /\ index[s] \in Sentences /\ pc["main"] # "done"
        BY <2>1, SMTT(60) DEF PipelineInv, PipelineTypes, Born, Stages, Threads
      <4>2. ASSUME Played(index[s]) PROVE FALSE
        <5>1. playable(index[s]) /\ <<index[s], "dry">> \in ready
          BY <4>1, <4>2, ZenonT(60) DEF PipelineInv, Order, playable
        <5>2. <<index[s], Output[s]>> \in ready
          BY <5>1, SMTT(60) DEF playable, Output, Stages
        <5> QED
          BY <2>1, <4>1, <5>2, VoiceBounds, SMTT(60) DEF PipelineInv, Order, Sentences
      <4> QED
        BY <4>1, <4>2
    <3>3. content[in(s)] = "whole"
      <4>1. CASE s = "piper"
        BY <2>1, <3>2, <4>1, SMTT(60) DEF PipelineInv, Files, in, Input
      <4>2. CASE s # "piper"
        BY <3>1, <3>2, <4>2, SMTT(60) DEF PipelineInv, Files, in
      <4> QED
        BY <4>1, <4>2
    <3>4. PICK l \in {"connect", "local"} : pc' = [pc EXCEPT ![s] = l]
      BY <3>1, ZenonT(60)
    <3>5. pc[s] \in Working \cup {"check"} /\ l \in Working \cup {"check", "done"}
      BY <2>1 DEF Working
    <3> QED
      BY <2>1, <3>1, <3>3, <3>4, <3>5, StageMoves, ZenonT(60)
  <2> QED
    BY <2>2, <2>3, <2>4
<1>2. ASSUME pc[s] \in Working, UNCHANGED <<index, ready, content, created, result>>,
             NEW l \in {"remote", "local", "done"}, pc' = [pc EXCEPT ![s] = l]
      PROVE  PipelineInv'
  <2>1. content[in(s)] = "whole" /\ (s # "piper" => in(s) \in ready)
    BY <1>2, SMTT(60) DEF PipelineInv, Order, Files
  <2>2. pc[s] \in Working \cup {"check"} /\ l \in Working \cup {"check", "done"}
    BY <1>2 DEF Working
  <2> QED
    BY <1>2, <2>1, <2>2, StageMoves, ZenonT(60)
<1>3. CASE remoteConnect(s) \/ remoteFailed(s)
  BY <1>2, <1>3 DEF remoteConnect, remoteFailed, Goto, Working
<1>4. CASE remoteResult(s)
  <2>1. pc[s] \in Working /\ UNCHANGED <<index, ready, created, result>>
    BY <1>4 DEF remoteResult, Working
  <2>2. CASE content' = [content EXCEPT ![out(s)] = "whole"] /\ pc' = [pc EXCEPT ![s] = "publish"]
    BY <2>1, <2>2, StageWrites, ZenonT(60)
  <2>3. CASE content' = content /\ pc' = [pc EXCEPT ![s] = "local"]
    BY <1>2, <2>1, <2>3
  <2> QED
    BY <1>4, <2>2, <2>3 DEF remoteResult, Goto
<1>5. CASE localStart(s)
  BY <1>5, StageWrites, ZenonT(60) DEF localStart, Goto, Working
<1>6. CASE localEnd(s)
  <2>1. pc[s] \in Working /\ UNCHANGED <<index, ready, created, result>>
    BY <1>6 DEF localEnd, Working
  <2>2. CASE content' = [content EXCEPT ![out(s)] = "whole"] /\ pc' = [pc EXCEPT ![s] = "publish"]
    BY <2>1, <2>2, StageWrites, ZenonT(60)
  <2>3. CASE content' = content /\ pc' = [pc EXCEPT ![s] = "done"]
    BY <1>2, <2>1, <2>3
  <2> QED
    BY <1>6, <2>2, <2>3 DEF localEnd, Goto
<1>7. CASE stagePublish(s)
  BY <1>7, StagePublishes
<1> QED
  BY <1>1, <1>3, <1>4, <1>5, <1>6, <1>7 DEF stageStep

LEMMA MainFiles == ASSUME PipelineInv, mainFiles PROVE PipelineInv'
<1>1. /\ "main" \in Threads /\ pc["main"] = "files" /\ UNCHANGED <<index, ready, created, result>>
      /\ created = {} /\ ready = {} /\ \A s \in Stages : s \in Threads /\ s # "main" /\ pc[s] = "unborn"
      /\ DOMAIN content = Sentences \X Kinds
  BY SMTT(60) DEF mainFiles, PipelineInv, PipelineTypes, Born, Stages, Threads
<1>2. PICK l \in {"create", "join"} : pc' = [pc EXCEPT !["main"] = l]
  BY DEF mainFiles, Goto
<1>3. /\ content' \in [Sentences \X Kinds -> {"absent", "empty", "partial", "whole"}]
      /\ l = "create" => \A i \in Sentences : content'[<<i, "text">>] = "whole"
  <2>1. CASE content' = [f \in DOMAIN content |-> IF f[2] = "text" THEN "whole" ELSE "empty"]
    BY <1>1, <2>1, SMTT(60) DEF Kinds
  <2>2. ASSUME NEW n \in Sentences, l = "join",
               content' = [f \in DOMAIN content |-> IF f[1] <= n THEN "empty" ELSE "absent"]
        PROVE  content' \in [Sentences \X Kinds -> {"absent", "empty", "partial", "whole"}]
    BY <1>1, <2>2, SMTT(60)
  <2>3. pc'["main"] = l
    BY <1>1, <1>2, SMTT(60) DEF PipelineInv, PipelineTypes
  <2>4. \/ content' = [f \in DOMAIN content |-> IF f[2] = "text" THEN "whole" ELSE "empty"]
        \/ /\ \E n \in Sentences :
                content' = [f \in DOMAIN content |-> IF f[1] <= n THEN "empty" ELSE "absent"]
           /\ pc' = [pc EXCEPT !["main"] = "join"]
    BY DEF mainFiles, Goto
  <2>5. pc' = [pc EXCEPT !["main"] = "join"] => l = "join"
    BY <1>1, <2>3, SMTT(60) DEF PipelineInv, PipelineTypes
  <2> QED
    BY <2>1, <2>2, <2>4, <2>5, ZenonT(60)
<1>4. PipelineTypes' /\ Born'
  BY <1>1, <1>2, <1>3, SMTT(60) DEF PipelineInv, PipelineTypes, Born, Places, Threads
<1>5. Order'
  BY <1>1, <1>2, SMTT(60) DEF PipelineInv, PipelineTypes, Order, Played, playable, in, Working
<1>6. Files'
  BY <1>1, <1>2, <1>3, SMTT(60) DEF PipelineInv, PipelineTypes, Files, Played, in, out, Working, Stages
<1> QED
  BY <1>4, <1>5, <1>6 DEF PipelineInv

LEMMA MainCreate == ASSUME PipelineInv, NEW s \in Stages, mainCreate(s) PROVE PipelineInv'
<1>1. /\ "main" \in Threads /\ pc["main"] = "create" /\ s \in Threads /\ s # "main"
      /\ UNCHANGED <<index, ready, content, result>> /\ result # "success"
  BY SMTT(60) DEF mainCreate, PipelineInv, PipelineTypes, Born, Stages, Threads
<1>2. CASE pc' = [pc EXCEPT !["main"] = "join"] /\ created' = created
  <2>1. PipelineTypes' /\ Born'
    BY <1>1, <1>2, SMTT(60) DEF PipelineInv, PipelineTypes, Born, Places, Stages, Threads
  <2>2. Order'
    BY <1>1, <1>2, SMTT(60) DEF PipelineInv, PipelineTypes, Order, Played, playable, in, Stages, Threads
  <2>3. Files'
    BY <1>1, <1>2, SMTT(60) DEF PipelineInv, PipelineTypes, Files, Played, in, out, Stages, Threads
  <2> QED
    BY <2>1, <2>2, <2>3 DEF PipelineInv
<1>3. ASSUME created' = created \cup {s}, NEW l \in {"wait", "create"},
             pc' = [pc EXCEPT ![s] = "check", !["main"] = l]
      PROVE  PipelineInv'
  <2>0. l = "create" => created' \in {{"piper"}, {"piper", "sox"}}
    <3>1. pc'["main"] = l
      BY <1>1, <1>3, SMTT(60) DEF PipelineInv, PipelineTypes
    <3>2. l = "create" => s # "envelope"
      BY <1>1, <1>3, <3>1, SMTT(60) DEF mainCreate, Goto, PipelineInv, PipelineTypes, Threads
    <3> QED
      BY <1>1, <1>3, <3>2, SMTT(60) DEF mainCreate, PipelineInv, Born
  <2>1. PipelineTypes' /\ Born'
    BY <1>1, <1>3, <2>0, SMTT(60) DEF PipelineInv, PipelineTypes, Born, Places, Stages, Threads
  <2>2. Order'
    <3>1. pc[s] # "done"
      <4>1. s \notin created
        BY <1>1, SMTT(60) DEF mainCreate, PipelineInv, Born
      <4> QED
        BY <4>1, SMTT(60) DEF PipelineInv, Born
    <3> QED
      BY <1>1, <1>3, <3>1, SMTT(60) DEF PipelineInv, PipelineTypes, Order, Played, playable, in, Working, Stages, Threads
  <2>3. Files'
    BY <1>1, <1>3, SMTT(60) DEF PipelineInv, PipelineTypes, Files, Played, in, out, Working, Stages, Threads
  <2> QED
    BY <2>1, <2>2, <2>3 DEF PipelineInv
<1>4. \/ pc' = [pc EXCEPT !["main"] = "join"] /\ created' = created
      \/ \E l \in {"wait", "create"} :
           created' = created \cup {s} /\ pc' = [pc EXCEPT ![s] = "check", !["main"] = l]
  BY DEF mainCreate, Goto
<1> QED
  BY <1>2, <1>3, <1>4

LEMMA MainWaits == ASSUME PipelineInv, mainWait \/ mainJoin PROVE PipelineInv'
<1>1. "main" \in Threads /\ UNCHANGED <<index, ready, content, created, result>>
  BY DEF mainWait, mainJoin, Threads
<1>2. CASE pc' = pc
  BY <1>1, <1>2, SMTT(60) DEF PipelineInv, PipelineTypes, Born, Order, Files, Played, in, out, playable
<1>3. ASSUME NEW l \in {"play", "join", "cleanup"}, pc' = [pc EXCEPT !["main"] = l],
             pc["main"] \notin {"files", "done"}, result = "success" => l # "play",
             l = "play" => playable(index["main"]),
             l = "cleanup" => \A s \in Stages : pc[s] \in {"unborn", "done"}
      PROVE  PipelineInv'
  <2>1. PipelineTypes' /\ Born'
    BY <1>1, <1>3, SMTT(60) DEF PipelineInv, PipelineTypes, Born, Places, Stages, Threads
  <2>2. Order'
    BY <1>1, <1>3, SMTT(60) DEF PipelineInv, PipelineTypes, Order, Played, playable, in, Stages, Threads
  <2>3. Files'
    BY <1>1, <1>3, SMTT(60) DEF PipelineInv, PipelineTypes, Files, Played, in, out, Stages, Threads
  <2> QED
    BY <2>1, <2>2, <2>3 DEF PipelineInv
<1>4. CASE mainWait
  <2>1. pc["main"] = "wait" /\ result # "success"
    BY <1>4, SMTT(60) DEF mainWait, PipelineInv, Born
  <2>2. \/ pc' = pc
        \/ pc' = [pc EXCEPT !["main"] = "join"]
        \/ pc' = [pc EXCEPT !["main"] = "play"] /\ playable(index["main"])
    BY <1>4 DEF mainWait, Goto
  <2> QED
    BY <1>2, <1>3, <2>1, <2>2
<1>5. CASE mainJoin
  <2>1. pc["main"] = "join" /\ pc' = [pc EXCEPT !["main"] = "cleanup"]
    BY <1>5 DEF mainJoin, Goto
  <2>2. \A s \in Stages : pc[s] \in {"unborn", "done"}
    BY <1>5, SMTT(60) DEF mainJoin, PipelineInv, Born
  <2> QED
    BY <1>3, <2>1, <2>2
<1> QED
  BY <1>4, <1>5

LEMMA MainPlays == ASSUME PipelineInv, mainPlay PROVE PipelineInv'
<1> DEFINE i == index["main"]
<1>1. /\ "main" \in Threads /\ pc["main"] = "play" /\ UNCHANGED <<ready, created>>
      /\ i \in Sentences /\ playable(i) /\ <<i, "dry">> \in ready /\ result # "success"
      /\ DOMAIN content = Sentences \X Kinds
  BY SMTT(60) DEF mainPlay, PipelineInv, PipelineTypes, Born, Order, playable, Threads
<1>2. CASE pc' = [pc EXCEPT !["main"] = "join"] /\ UNCHANGED <<content, index, result>>
  <2>1. PipelineTypes' /\ Born'
    BY <1>1, <1>2, SMTT(60) DEF PipelineInv, PipelineTypes, Born, Places, Stages, Threads
  <2>2. Order'
    BY <1>1, <1>2, SMTT(60) DEF PipelineInv, PipelineTypes, Order, Played, playable, in, Stages, Threads
  <2>3. Files'
    BY <1>1, <1>2, SMTT(60) DEF PipelineInv, PipelineTypes, Files, Played, in, out, Stages, Threads
  <2> QED
    BY <2>1, <2>2, <2>3 DEF PipelineInv
<1>3. ASSUME content' = [f \in DOMAIN content |-> IF f[1] = i THEN "absent" ELSE content[f]],
             index' = [index EXCEPT !["main"] = IF i < Count THEN i + 1 ELSE i],
             pc' = [pc EXCEPT !["main"] = IF i < Count THEN "wait" ELSE "join"],
             result' = IF i < Count THEN result ELSE "success"
      PROVE  PipelineInv'
  <2>1. PipelineTypes' /\ Born'
    BY <1>1, <1>3, VoiceBounds, SMTT(60) DEF PipelineInv, PipelineTypes, Born, Places, Stages, Threads, Sentences
  <2>2. /\ \A j \in Sentences : Played(j)' <=> Played(j) \/ j = i
        /\ \A s \in Stages : s \in Threads /\ pc'[s] = pc[s] /\ index'[s] = index[s]
        /\ \A f \in Sentences \X Kinds : f[1] # i => content'[f] = content[f]
    BY <1>1, <1>3, VoiceBounds, SMTT(60) DEF PipelineInv, PipelineTypes, Played, Sentences, Stages, Threads
  <2>3. \A s \in Stages : pc[s] # "done" => index[s] # i
    <3> SUFFICES ASSUME NEW s \in Stages, pc[s] # "done", index[s] = i PROVE FALSE
      OBVIOUS
    <3>1. <<i, Output[s]>> \in ready
      BY <1>1, SMTT(60) DEF playable, Output, Stages
    <3>2. i < i
      BY <1>1, <3>1 DEF PipelineInv, Order
    <3> QED
      BY <1>1, <3>2, VoiceBounds, SMTT(60) DEF Sentences
  <2>4. Order'
    <3>1. pc'["main"] # "play"
      BY <1>1, <1>3, SMTT(60) DEF PipelineInv, PipelineTypes
    <3> HIDE DEF i
    <3>2. \A j \in Sentences : Played(j)' => playable(j)
      BY <1>1, <2>2 DEF PipelineInv, Order
    <3>3. \A s \in Stages \ {"piper"} : pc'[s] \in Working \cup {"publish"} => in(s)' \in ready'
      BY <1>1, <2>2, SMTT(60) DEF PipelineInv, Order, in
    <3>4. \A s \in Stages, j \in Sentences : pc'[s] # "done" /\ <<j, Output[s]>> \in ready' => j < index'[s]
      BY <1>1, <2>2, SMTT(60) DEF PipelineInv, Order
    <3>5. \A j \in Sentences : <<j, "wet">> \in ready' \/ <<j, "light">> \in ready' => <<j, "dry">> \in ready'
      BY <1>1, SMTT(60) DEF PipelineInv, Order
    <3> QED
      BY <1>1, <3>1, <3>2, <3>3, <3>4, <3>5, SMTT(60) DEF Order, playable
  <2>5. Files'
    <3>1. pc'["main"] \in {"wait", "join"}
      BY <1>1, <1>3, SMTT(60) DEF PipelineInv, PipelineTypes
    <3>2. \A s \in Stages : pc[s] # "done" =>
            /\ in(s)' = in(s) /\ out(s)' = out(s)
            /\ content'[in(s)] = content[in(s)] /\ content'[out(s)] = content[out(s)]
      <4> HIDE DEF i
      <4> QED
        BY <2>2, <2>3, SMTT(60) DEF PipelineInv, PipelineTypes, in, out, Input, Output, Kinds, Stages, Threads
    <3>3. \A f \in ready : f \in Sentences \X Kinds /\ f[1] \in Sentences
      BY SMTT(60) DEF PipelineInv, PipelineTypes
    <3> HIDE DEF i
    <3>4. \A f \in ready : Played(f[1])' \/ content'[f] = "whole"
      BY <1>1, <2>2, <3>3, SMTT(60) DEF PipelineInv, Files
    <3>5. pc["piper"] # "unborn" => \A j \in Sentences : Played(j)' \/ content'[<<j, "text">>] = "whole"
      <4> SUFFICES ASSUME pc["piper"] # "unborn", NEW j \in Sentences, ~Played(j)'
                   PROVE  content'[<<j, "text">>] = "whole"
        BY ZenonT(60)
      <4>1. ~Played(j) /\ j # i
        BY <2>2
      <4>2. content[<<j, "text">>] = "whole"
        BY <1>1, <4>1 DEF PipelineInv, Files
      <4>3. content'[<<j, "text">>] = content[<<j, "text">>]
        BY <2>2, <4>1, SMTT(60) DEF Kinds
      <4> QED
        BY <4>2, <4>3
    <3>6. \A s \in Stages : /\ pc'[s] \in Working => content'[in(s)'] = "whole"
                            /\ pc'[s] = "publish" => content'[out(s)'] = "whole"
      BY <2>2, <3>2, SMTT(60) DEF PipelineInv, Files, Working
    <3>7. "piper" \in Stages
      BY DEF Stages
    <3> QED
      BY <1>1, <2>2, <3>1, <3>4, <3>5, <3>6, <3>7, SMTT(60) DEF Files
  <2> QED
    BY <2>1, <2>4, <2>5 DEF PipelineInv
<1> QED
  BY <1>2, <1>3 DEF mainPlay, Goto

LEMMA MainCleans == ASSUME PipelineInv, mainCleanup PROVE PipelineInv'
<1>1. /\ "main" \in Threads /\ pc["main"] = "cleanup" /\ UNCHANGED <<index, ready, created, result>>
      /\ pc' = [pc EXCEPT !["main"] = "done"] /\ DOMAIN content = Sentences \X Kinds
      /\ content' = [f \in DOMAIN content |-> "absent"]
      /\ \A s \in Stages : pc[s] \in {"unborn", "done"}
  BY SMTT(60) DEF mainCleanup, Goto, PipelineInv, PipelineTypes, Born, Threads
<1>2. PipelineTypes' /\ Born'
  BY <1>1, SMTT(60) DEF PipelineInv, PipelineTypes, Born, Places, Stages, Threads
<1>3. Order'
  BY <1>1, SMTT(60) DEF PipelineInv, PipelineTypes, Order, Played, playable, in, Stages, Threads
<1>4. Files'
  BY <1>1, <1>2, SMTT(60) DEF PipelineInv, PipelineTypes, Files, Working, Stages, Threads
<1> QED
  BY <1>2, <1>3, <1>4 DEF PipelineInv

LEMMA PipelineInvariant == Spec => []PipelineInv
<1>1. Init => PipelineInv
  <2> SUFFICES ASSUME Init PROVE PipelineInv
    OBVIOUS
  <2>1. PipelineTypes /\ Born
    BY VoiceBounds, SMTT(60) DEF Init, PipelineTypes, Born, Places, Sentences, Stages, Threads
  <2>2. Order
    BY VoiceBounds, SMTT(60) DEF Init, Order, Played, Working, Sentences, Stages, Threads
  <2>3. Files
    BY SMTT(60) DEF Init, Files, Working, Stages, Threads
  <2> QED
    BY <2>1, <2>2, <2>3 DEF PipelineInv
<1>2. PipelineInv /\ [Next]_vars => PipelineInv'
  BY Untouched, StageSteps, MainFiles, MainCreate, MainWaits, MainPlays, MainCleans
     DEF Next, mainStep, vars
<1> QED
  BY <1>1, <1>2, PTL DEF Spec

\* For a text of any length, what main plays and what a stage reads is whole
\* and not yet removed, whichever stages fail, time out or run elsewhere.
THEOREM WholeWhenUsed == Spec => []PlaysWhole
<1>1. PipelineInv => PlaysWhole
  <2> SUFFICES ASSUME PipelineInv PROVE PlaysWhole
    OBVIOUS
  <2>1. ASSUME pc["main"] = "play"
        PROVE  content[<<index["main"], "wet">>] = "whole" /\ content[<<index["main"], "light">>] = "whole"
    <3>1. playable(index["main"]) /\ index["main"] \in Sentences /\ ~Played(index["main"])
      BY <2>1, VoiceBounds, SMTT(60) DEF PipelineInv, PipelineTypes, Born, Order, Played, Threads, Sentences
    <3> QED
      BY <2>1, <3>1, SMTT(60) DEF PipelineInv, Files, playable
  <2>2. \A s \in Stages : pc[s] \in {"connect", "remote", "local", "running"} => content[in(s)] = "whole"
    BY DEF PipelineInv, Files, Working
  <2> QED
    BY <2>1, <2>2 DEF PlaysWhole
<1> QED
  BY <1>1, PipelineInvariant, PTL

(***************************************************************************)
(* The worker.  Only the phase of a child tells it from a free slot, and a *)
(* connection that is refused, lost or closed leaves the count alone.      *)
(***************************************************************************)
Phases == {"free", "input", "exec", "send", "zombie"}
Child == [peer : Clients \cup {Gone}, phase : Phases, files : SUBSET {"in", "out"}]

WorkerTypes ==
  /\ wpc \in {"poll", "fork", "count", "stopped"} /\ current \in Clients \cup {Gone}
  /\ backlog \in Seq(Clients \cup {Gone})
  /\ conn \in [Clients -> {"none", "open", "failed", "result"}]
  /\ \A s \in Stages : pc[s] \in {"connect", "remote"} => s \in Clients

KidsOK ==
  /\ kids \in [Slots -> Child]
  /\ \A k \in Slots : kids[k].phase = "free" => kids[k] = Free
  /\ \A k \in Slots : kids[k].phase = "zombie" => kids[k].peer = Gone /\ kids[k].files = {}

Limit == active \in 0 .. MaxChildren /\ (wpc \in {"fork", "count"} => active < MaxChildren)

Live == {k \in Slots : kids[k] # Free}

LEMMA FreeIsChild == Free \in Child
  BY SMTT(60) DEF Free, Child, Phases

\* What a step may do to the children, and to the count.
LEMMA ForkCounted ==
  ASSUME KidsOK, NEW k \in Slots, kids[k] = Free, NEW new \in Child, new.phase = "input",
         kids' = [kids EXCEPT ![k] = new]
  PROVE  KidsOK' /\ Cardinality(Live') = Cardinality(Live) + 1 /\ Cardinality(Live) \in Nat
<1>1. new # Free
  BY SMTT(60) DEF Free
<1>2. KidsOK'
  BY SMTT(60) DEF KidsOK
<1>3. Live' = Live \cup {k} /\ k \notin Live
  BY <1>1, SMTT(60) DEF KidsOK, Live
<1>4. IsFiniteSet(Live)
  BY FS_Subset, WorkerBounds DEF Live
<1>5. Cardinality(Live) \in Nat
  BY <1>4, FS_CardinalityType
<1>6. Cardinality(Live \cup {k}) = Cardinality(Live) + 1
  BY <1>3, <1>4, FS_AddElement, ZenonT(60)
<1> QED
  BY <1>2, <1>3, <1>5, <1>6

LEMMA ReapCounted ==
  ASSUME KidsOK, kids' = [k \in Slots |-> IF k \in Zombies THEN Free ELSE kids[k]]
  PROVE  /\ KidsOK' /\ Cardinality(Zombies) \in Nat /\ Cardinality(Live) \in Nat
         /\ Cardinality(Zombies) <= Cardinality(Live)
         /\ Cardinality(Live') = Cardinality(Live) - Cardinality(Zombies)
<1>0. Free.phase = "free"
  BY DEF Free
<1>1. KidsOK'
  BY <1>0, FreeIsChild, SMTT(60) DEF KidsOK, Zombies
<1>2. Zombies \subseteq Live
  BY SMTT(60) DEF Zombies, Live, Free
<1>3. Live' = Live \ Zombies
  BY <1>2, SMTT(60) DEF Live, KidsOK, Zombies
<1>4. IsFiniteSet(Live)
  BY FS_Subset, WorkerBounds DEF Live
<1>5. IsFiniteSet(Zombies) /\ IsFiniteSet(Live \ Zombies) /\ Cardinality(Zombies) <= Cardinality(Live)
  BY <1>2, <1>4, FS_Subset
<1>6. /\ Cardinality(Live) \in Nat /\ Cardinality(Zombies) \in Nat /\ Cardinality(Live \ Zombies) \in Nat
  BY <1>4, <1>5, FS_CardinalityType
<1>7. Live = (Live \ Zombies) \cup Zombies /\ (Live \ Zombies) \cap Zombies = {}
  BY <1>2
<1>8. Cardinality((Live \ Zombies) \cup Zombies)
        = Cardinality(Live \ Zombies) + Cardinality(Zombies) - Cardinality((Live \ Zombies) \cap Zombies)
  BY <1>5, FS_Union
<1>9. Cardinality((Live \ Zombies) \cap Zombies) = 0
  BY <1>7, FS_EmptySet
<1>10. Cardinality(Live) = Cardinality(Live \ Zombies) + Cardinality(Zombies)
  <2> DEFINE all == Cardinality(Live)   rest == Cardinality(Live \ Zombies)
             dead == Cardinality(Zombies)   both == Cardinality((Live \ Zombies) \cap Zombies)
  <2>1. all = rest + dead - both
    BY <1>7, <1>8, ZenonT(60)
  <2>2. both = 0 /\ rest \in Nat /\ dead \in Nat
    BY <1>6, <1>9, ZenonT(60)
  <2> HIDE DEF all, rest, dead, both
  <2>3. all = rest + dead
    BY <2>1, <2>2, SMTT(60)
  <2> QED
    BY <2>3 DEF all, rest, dead
<1> QED
  BY <1>1, <1>3, <1>5, <1>6, <1>10, SMTT(60)

LEMMA ChildMoves ==
  ASSUME KidsOK, NEW k \in Slots, kids[k].phase \in {"input", "exec", "send"},
         NEW new \in Child, new.phase \in {"exec", "send", "zombie"},
         new.phase = "zombie" => new.peer = Gone /\ new.files = {},
         kids' = [kids EXCEPT ![k] = new]
  PROVE  KidsOK' /\ Live' = Live
<1>1. new # Free /\ kids[k] # Free
  BY SMTT(60) DEF Free
<1> QED
  BY <1>1, SMTT(60) DEF KidsOK, Live

LEMMA Disconnected ==
  ASSUME KidsOK, NEW c, c # Gone, disconnect(c)
  PROVE  KidsOK' /\ Live' = Live
<1>1. kids' = [k \in Slots |-> IF kids[k].peer = c THEN [kids[k] EXCEPT !.peer = Gone] ELSE kids[k]]
  BY DEF disconnect
<1>2. \A k \in Slots : kids[k].peer = c => kids[k].phase \notin {"free", "zombie"}
  BY SMTT(60) DEF KidsOK, Free
<1>3. \A k \in Slots : /\ kids'[k] \in Child /\ kids'[k].phase = kids[k].phase
                       /\ kids[k].phase \in {"free", "zombie"} => kids'[k] = kids[k]
  BY <1>1, <1>2, SMTT(60) DEF KidsOK, Child
<1>4. Free.phase = "free"
  BY DEF Free
<1>5. KidsOK'
  BY <1>1, <1>3, <1>4, SMTT(60) DEF KidsOK
<1> QED
  BY <1>3, <1>4, <1>5, SMTT(60) DEF KidsOK, Live

WorkerInv == WorkerTypes /\ KidsOK /\ Limit /\ ActiveIsLive

\* A step that keeps the worker's place, count and live children.
LEMMA SameCount ==
  ASSUME Limit, ActiveIsLive, wpc' = wpc, active' = active, Live' = Live
  PROVE  Limit' /\ ActiveIsLive'
<1>1. Limit'
  BY DEF Limit
<1>2. wpc # "stopped" => active + (IF wpc = "count" THEN 1 ELSE 0) = Cardinality(Live)
  BY DEF ActiveIsLive, Live
<1>3. wpc' # "stopped" => active' + (IF wpc' = "count" THEN 1 ELSE 0) = Cardinality(Live')
  BY <1>2
<1> QED
  BY <1>1, <1>3 DEF ActiveIsLive, Live

LEMMA LostTypes ==
  ASSUME WorkerTypes, NEW c \in Clients \cup {Gone}
  PROVE  lost(c) \in [Clients -> {"none", "open", "failed", "result"}]
  BY SMTT(60) DEF WorkerTypes, lost

LEMMA Queueing ==
  ASSUME WorkerInv, accept \/ stop_worker, UNCHANGED voiceVars
  PROVE  WorkerInv'
<1>1. KidsOK' /\ Live' = Live /\ active' = active
  BY ZenonT(60) DEF WorkerInv, KidsOK, Live, accept, stop_worker
<1>2. \A s \in Stages : pc'[s] \in {"connect", "remote"} => s \in Clients
  BY DEF WorkerInv, WorkerTypes, voiceVars
<1>3. CASE accept
  <2>1. Head(backlog) \in Clients \cup {Gone} /\ Tail(backlog) \in Seq(Clients \cup {Gone})
    BY <1>3, SMTT(60) DEF WorkerInv, WorkerTypes, accept
  <2>2. lost(Head(backlog)) \in [Clients -> {"none", "open", "failed", "result"}]
    BY <2>1, LostTypes DEF WorkerInv
  <2>3. WorkerTypes'
    BY <1>2, <1>3, <2>1, <2>2, SMTT(60) DEF WorkerInv, WorkerTypes, accept
  <2>4. Limit'
    BY <1>3, WorkerBounds, SMTT(60) DEF WorkerInv, Limit, accept, atLimit
  <2>5. active = Cardinality(Live)
    BY <1>3, SMTT(60) DEF WorkerInv, Limit, ActiveIsLive, Live, accept
  <2>6. active' = Cardinality(Live') /\ wpc' # "count"
    BY <1>1, <1>3, <2>5 DEF accept
  <2>7. ActiveIsLive'
    BY <1>3, <2>6, SMTT(60) DEF ActiveIsLive, Live, accept, WorkerInv, Limit
  <2> QED
    BY <1>1, <2>3, <2>4, <2>7 DEF WorkerInv
<1>4. CASE stop_worker
  <2>1. WorkerTypes'
    BY <1>2, <1>4, SMTT(60) DEF WorkerInv, WorkerTypes, stop_worker
  <2>2. Limit' /\ ActiveIsLive'
    BY <1>1, <1>4 DEF WorkerInv, Limit, ActiveIsLive, stop_worker
  <2> QED
    BY <1>1, <2>1, <2>2 DEF WorkerInv
<1> QED
  BY <1>3, <1>4

LEMMA Forking ==
  ASSUME WorkerInv, fork, UNCHANGED voiceVars
  PROVE  WorkerInv'
<1>1. lost(current) \in [Clients -> {"none", "open", "failed", "result"}]
  BY LostTypes DEF WorkerInv, WorkerTypes
<1>2. WorkerTypes'
  BY <1>1, SMTT(60) DEF WorkerInv, WorkerTypes, fork, voiceVars
<1>3. active = Cardinality(Live) /\ active \in Nat /\ active < MaxChildren /\ active' = active /\ wpc = "fork"
  BY WorkerBounds, SMTT(60) DEF WorkerInv, Limit, ActiveIsLive, Live, fork
<1>4. Limit'
  BY <1>3, WorkerBounds, SMTT(60) DEF WorkerInv, Limit
<1>5. ASSUME NEW k \in Slots, kids[k] = Free, wpc' = "count",
             kids' = [kids EXCEPT ![k] = [peer |-> current, phase |-> "input", files |-> {}]]
      PROVE  KidsOK' /\ ActiveIsLive'
  <2> DEFINE new == [peer |-> current, phase |-> "input", files |-> {}]
  <2>1. new \in Child /\ new.phase = "input"
    BY SMTT(60) DEF WorkerInv, WorkerTypes, Child, Phases
  <2> HIDE DEF new
  <2>2. kids' = [kids EXCEPT ![k] = new]
    BY <1>5 DEF new
  <2>3. KidsOK' /\ Cardinality(Live') = Cardinality(Live) + 1
    BY <1>5, <2>1, <2>2, ForkCounted, ZenonT(60) DEF WorkerInv
  <2>4. ActiveIsLive'
    BY <1>3, <1>5, <2>3 DEF ActiveIsLive, Live
  <2> QED
    BY <2>3, <2>4, SMTT(60)
<1>6. ASSUME wpc' = "poll", UNCHANGED kids
      PROVE  KidsOK' /\ ActiveIsLive'
  <2>1. KidsOK' /\ Live' = Live
    BY <1>6 DEF WorkerInv, KidsOK, Live
  <2>2. ActiveIsLive'
    BY <1>3, <1>6, <2>1, SMTT(60) DEF ActiveIsLive, Live
  <2> QED
    BY <2>1, <2>2
<1>7. KidsOK' /\ ActiveIsLive'
  BY <1>5, <1>6 DEF fork
<1> QED
  BY <1>2, <1>4, <1>7 DEF WorkerInv

LEMMA Counting ==
  ASSUME WorkerInv, count \/ reap_workers, UNCHANGED voiceVars
  PROVE  WorkerInv'
<1>1. WorkerTypes'
  BY SMTT(60) DEF WorkerInv, WorkerTypes, count, reap_workers, voiceVars
<1>2. CASE count
  <2>1. KidsOK' /\ Live' = Live
    BY <1>2 DEF WorkerInv, KidsOK, Live, count
  <2>2. active + 1 = Cardinality(Live) /\ active \in Nat /\ active < MaxChildren
    BY <1>2, WorkerBounds, SMTT(60) DEF WorkerInv, Limit, ActiveIsLive, Live, count
  <2>3. active' = active + 1 /\ wpc' = "poll"
    BY <1>2 DEF count
  <2>4. Limit'
    BY <2>2, <2>3, WorkerBounds, SMTT(60) DEF Limit
  <2>5. active' = Cardinality(Live') /\ active' \in Nat
    BY <2>1, <2>2, <2>3
  <2>6. ActiveIsLive'
    BY <2>3, <2>5, SMTT(60) DEF ActiveIsLive, Live
  <2> QED
    BY <1>1, <2>1, <2>4, <2>6 DEF WorkerInv
<1>3. CASE reap_workers
  <2> DEFINE n == Cardinality(Zombies)
  <2>1. /\ KidsOK' /\ n \in Nat /\ Cardinality(Live) \in Nat /\ n <= Cardinality(Live)
        /\ Cardinality(Live') = Cardinality(Live) - n
    BY <1>3, ReapCounted DEF WorkerInv, reap_workers
  <2>2. active' = (IF active > n THEN active - n ELSE 0) /\ wpc' = wpc /\ wpc \notin {"count", "stopped"}
    BY <1>3 DEF reap_workers, masked
  <2> HIDE DEF n
  <2>3. active = Cardinality(Live) /\ active \in Nat
    BY <2>1, <2>2, SMTT(60) DEF WorkerInv, ActiveIsLive, Live, Limit
  <2>4. active' = Cardinality(Live') /\ active' \in Nat /\ active' <= active
    BY <2>1, <2>2, <2>3, SMTT(60)
  <2>5. Limit'
    BY <2>2, <2>3, <2>4, WorkerBounds, SMTT(60) DEF WorkerInv, Limit
  <2>6. ActiveIsLive'
    BY <2>2, <2>4, SMTT(60) DEF ActiveIsLive, Live
  <2> QED
    BY <1>1, <2>1, <2>5, <2>6 DEF WorkerInv
<1> QED
  BY <1>2, <1>3

LEMMA Handling ==
  ASSUME WorkerInv, UNCHANGED voiceVars, NEW k \in Slots,
         handleFailed(k) \/ handleStep(k) \/ handleDone(k)
  PROVE  WorkerInv'
<1>1. kids[k] \in Child
  BY SMTT(60) DEF WorkerInv, KidsOK
<1>2. kids[k].peer \in Clients \cup {Gone}
  BY <1>1, SMTT(60) DEF Child
<1>3. lost(kids[k].peer) \in [Clients -> {"none", "open", "failed", "result"}]
  BY <1>2, LostTypes DEF WorkerInv
<1>4. WorkerTypes'
  BY <1>2, <1>3, SMTT(60) DEF WorkerInv, WorkerTypes, handleFailed, handleStep, handleDone, voiceVars
<1>5. wpc' = wpc /\ active' = active
  BY DEF handleFailed, handleStep, handleDone
<1>6. KidsOK' /\ Live' = Live
  <2>1. CASE handleFailed(k) \/ handleDone(k)
    <3> DEFINE new == [peer |-> Gone, phase |-> "zombie", files |-> {}]
    <3>1. new \in Child /\ new.phase = "zombie" /\ new.peer = Gone /\ new.files = {}
      BY SMTT(60) DEF Child, Phases
    <3>2. kids' = [kids EXCEPT ![k] = new] /\ kids[k].phase \in {"input", "exec", "send"}
      BY <2>1 DEF handleFailed, handleDone, exit
    <3> HIDE DEF new
    <3> QED
      BY <3>1, <3>2, ChildMoves, ZenonT(60) DEF WorkerInv
  <2>2. CASE handleStep(k)
    <3>0. {"in"} \in SUBSET {"in", "out"} /\ {"in", "out"} \in SUBSET {"in", "out"}
      OBVIOUS
    <3>1. PICK place \in {"exec", "send"}, f \in SUBSET {"in", "out"} :
            /\ kids' = [kids EXCEPT ![k] = [peer |-> kids[k].peer, phase |-> place, files |-> f]]
            /\ kids[k].phase \in {"input", "exec", "send"}
      BY <2>2, <3>0, ZenonT(60) DEF handleStep
    <3> DEFINE new == [peer |-> kids[k].peer, phase |-> place, files |-> f]
    <3>2. new \in Child /\ new.phase = place
      BY <1>2, <3>1, SMTT(60) DEF Child, Phases
    <3>3. kids' = [kids EXCEPT ![k] = new]
      BY <3>1
    <3> HIDE DEF new
    <3>4. new.phase \in {"exec", "send", "zombie"} /\ new.phase # "zombie"
      BY <3>2
    <3> QED
      BY <3>1, <3>2, <3>3, <3>4, ChildMoves, ZenonT(60) DEF WorkerInv
  <2> QED
    BY <2>1, <2>2
<1>7. Limit' /\ ActiveIsLive'
  BY <1>5, <1>6, SameCount DEF WorkerInv
<1> QED
  BY <1>4, <1>6, <1>7 DEF WorkerInv

\* The client's side changes no child's phase.
LEMMA Calling ==
  ASSUME PipelineTypes, WorkerInv, NEW s \in Stages, stageStep(s)
  PROVE  WorkerInv'
<1>1. \A r \in Stages : pc'[r] \in {"connect", "remote"} => r \in Clients
  BY VoiceBounds, SMTT(60)
     DEF WorkerInv, WorkerTypes, PipelineTypes, Threads, stageStep, Goto, stageCheck, remoteConnect,
         remoteResult, remoteFailed, localStart, localEnd, stagePublish
<1>2. CASE UNCHANGED workerVars
  <2>1. WorkerTypes'
    BY <1>1, <1>2 DEF WorkerInv, WorkerTypes, workerVars
  <2>2. KidsOK' /\ Live' = Live
    BY <1>2 DEF WorkerInv, KidsOK, Live, workerVars
  <2>3. Limit' /\ ActiveIsLive'
    BY <1>2, <2>2, SameCount DEF WorkerInv, workerVars
  <2> QED
    BY <2>1, <2>2, <2>3 DEF WorkerInv
<1>3. ASSUME connect(s), s \in Clients
      PROVE  WorkerInv'
  <2>1. WorkerTypes'
    BY <1>1, <1>3, SMTT(60) DEF WorkerInv, WorkerTypes, connect
  <2>2. KidsOK' /\ Live' = Live
    BY <1>3 DEF WorkerInv, KidsOK, Live, connect
  <2>3. Limit' /\ ActiveIsLive'
    BY <1>3, <2>2, SameCount DEF WorkerInv, connect
  <2> QED
    BY <2>1, <2>2, <2>3 DEF WorkerInv
<1>4. ASSUME disconnect(s), s \in Clients
      PROVE  WorkerInv'
  <2>1. WorkerTypes'
    BY <1>1, <1>4, SMTT(60) DEF WorkerInv, WorkerTypes, disconnect
  <2>2. KidsOK' /\ Live' = Live
    BY <1>4, Disconnected, WorkerBounds DEF WorkerInv
  <2>3. Limit' /\ ActiveIsLive'
    BY <1>4, <2>2, SameCount, SMTT(60) DEF WorkerInv, disconnect
  <2> QED
    BY <2>1, <2>2, <2>3 DEF WorkerInv
<1>5. \/ UNCHANGED workerVars
      \/ s \in Clients /\ (connect(s) \/ disconnect(s))
  BY DEF WorkerInv, WorkerTypes, stageStep, stageCheck, remoteConnect, remoteResult, remoteFailed,
         localStart, localEnd, stagePublish
<1> QED
  BY <1>2, <1>3, <1>4, <1>5, SMTT(60)

LEMMA MainApart ==
  ASSUME PipelineTypes, WorkerInv, mainStep
  PROVE  WorkerInv'
<1>1. \A r \in Stages : pc'[r] \in {"connect", "remote"} => r \in Clients
  BY SMTT(60) DEF WorkerInv, WorkerTypes, PipelineTypes, Threads, Stages, mainStep, Goto, mainFiles,
                  mainCreate, mainWait, mainPlay, mainJoin, mainCleanup
<1>2. UNCHANGED workerVars
  BY ZenonT(60) DEF mainStep, mainFiles, mainCreate, mainWait, mainPlay, mainJoin, mainCleanup
<1>3. WorkerTypes'
  BY <1>1, <1>2 DEF WorkerInv, WorkerTypes, workerVars
<1>4. KidsOK' /\ Live' = Live
  BY <1>2 DEF WorkerInv, KidsOK, Live, workerVars
<1>5. Limit' /\ ActiveIsLive'
  BY <1>2, <1>4, SameCount DEF WorkerInv, workerVars
<1> QED
  BY <1>3, <1>4, <1>5 DEF WorkerInv

LEMMA WorkerInvariant == Spec => []WorkerInv
<1>1. Init => WorkerInv
  <2> SUFFICES ASSUME Init PROVE WorkerInv
    OBVIOUS
  <2>1. WorkerTypes
    BY SMTT(60) DEF Init, workerInit, WorkerTypes, Stages, Threads
  <2>2. KidsOK
    BY FreeIsChild, SMTT(60) DEF Init, workerInit, KidsOK, Free
  <2>3. Limit
    BY WorkerBounds, SMTT(60) DEF Init, workerInit, Limit
  <2>4. Live = {}
    BY SMTT(60) DEF Init, workerInit, Live
  <2>5. Cardinality(Live) = 0
    BY <2>4, FS_EmptySet
  <2>6. ActiveIsLive
    BY <2>5, SMTT(60) DEF Init, workerInit, ActiveIsLive, Live
  <2> QED
    BY <2>1, <2>2, <2>3, <2>6 DEF WorkerInv
<1>2. PipelineInv /\ WorkerInv /\ [Next]_vars => WorkerInv'
  <2> SUFFICES ASSUME PipelineInv, WorkerInv, [Next]_vars
               PROVE  WorkerInv'
    OBVIOUS
  <2>1. CASE workerStep /\ UNCHANGED voiceVars
    BY <2>1, Queueing, Forking, Counting, Handling DEF workerStep
  <2>2. CASE (\E s \in Stages : stageStep(s)) \/ mainStep
    BY <2>2, Calling, MainApart DEF PipelineInv
  <2>3. CASE UNCHANGED vars
    <3>1. WorkerTypes' /\ KidsOK' /\ Live' = Live
      BY <2>3 DEF WorkerInv, WorkerTypes, KidsOK, Live, vars, workerVars, voiceVars
    <3>2. Limit' /\ ActiveIsLive'
      BY <2>3, <3>1, SameCount DEF WorkerInv, vars, workerVars
    <3> QED
      BY <3>1, <3>2 DEF WorkerInv
  <2> QED
    BY <2>1, <2>2, <2>3 DEF Next
<1> QED
  BY <1>1, <1>2, PipelineInvariant, PTL DEF Spec

\* For any number of children and clients, no order of forks, exits and signals
\* makes the worker's own count differ from its children not yet reaped, or pass
\* its limit.
THEOREM CountIsExact == Spec => []PoolCounts
<1>1. WorkerInv => PoolCounts
  BY WorkerBounds, SMTT(60) DEF WorkerInv, Limit, PoolCounts
<1> QED
  BY <1>1, WorkerInvariant, PTL

\* When rose-voice ends, no temporary file and no stage thread is left; no child
\* of a worker leaves a file behind, however it ended.
THEOREM NothingLeft == Spec => []CleanExit
<1>1. PipelineInv /\ WorkerInv => CleanExit
  <2> SUFFICES ASSUME PipelineInv, WorkerInv PROVE CleanExit
    OBVIOUS
  <2>1. \A k \in Slots : kids[k].phase \in {"free", "zombie"} => kids[k].files = {}
    BY SMTT(60) DEF WorkerInv, KidsOK, Free
  <2>2. pc["main"] = "done" => /\ \A f \in DOMAIN content : content[f] = "absent"
                               /\ \A s \in Stages : pc[s] \in {"unborn", "done"}
    BY SMTT(60) DEF PipelineInv, PipelineTypes, Born, Files
  <2> QED
    BY <2>1, <2>2 DEF CleanExit
<1> QED
  BY <1>1, PipelineInvariant, WorkerInvariant, PTL

\* Threads asleep.
Asleep == waiting \subseteq Threads /\ \A t \in waiting : pc[t] \in {"check", "wait"}

LEMMA AsleepInvariant == Spec => []Asleep
<1>1. Init => Asleep
  BY DEF Init, Asleep
<1>2. PipelineTypes /\ Asleep /\ [Next]_vars => Asleep'
  <2> SUFFICES ASSUME PipelineTypes, Asleep, [Next]_vars PROVE Asleep'
    OBVIOUS
  <2>1. ASSUME NEW s \in Stages, stageStep(s) PROVE Asleep'
    <3>1. CASE stageCheck(s)
      BY <3>1, SMTT(60) DEF stageCheck, Goto, Asleep, PipelineTypes, Threads
    <3>2. CASE waiting' \in {waiting, {}} /\ pc[s] \notin {"check", "wait"} /\ \E p : Goto(s, p)
      BY <3>2, SMTT(60) DEF Goto, Asleep, PipelineTypes, Threads
    <3> QED
      BY <2>1, <3>1, <3>2
         DEF stageStep, remoteConnect, remoteResult, remoteFailed, localStart, localEnd, stagePublish,
             pipeline_fail
  <2>2. CASE mainStep
    BY <2>2, SMTT(60)
       DEF mainStep, mainFiles, mainCreate, mainWait, mainPlay, mainJoin, mainCleanup, Goto,
           pipeline_fail, Asleep, PipelineTypes, Threads, Stages
  <2>3. CASE UNCHANGED voiceVars
    BY <2>3 DEF voiceVars, Asleep
  <2> QED
    BY <2>1, <2>2, <2>3, SMTT(60) DEF Next, vars
<1> QED
  BY <1>1, <1>2, PipelineInvariant, PTL DEF Spec, PipelineInv

\* Every variable keeps its type, the worker's count never passes its limit, and
\* a thread asleep is one that looks at the flags again when it is woken.
THEOREM TypeCorrect == Spec => []TypeOK
<1>1. PipelineInv /\ WorkerInv /\ Asleep => TypeOK
  <2> SUFFICES ASSUME PipelineInv, WorkerInv, Asleep PROVE TypeOK
    OBVIOUS
  <2>1. \A k \in Slots : kids[k].phase \in {"free", "input", "exec", "send", "zombie"}
    BY SMTT(60) DEF WorkerInv, KidsOK, Child, Phases
  <2> QED
    BY <2>1 DEF TypeOK, PipelineInv, PipelineTypes, WorkerInv, WorkerTypes, Limit, Asleep
<1> QED
  BY <1>1, AsleepInvariant, PipelineInvariant, WorkerInvariant, PTL
-----------------------------------------------------------------------------
(***************************************************************************)
(* Waiting and ending.  A step of a stage is one of four: it falls asleep, *)
(* moves towards the end of its sentence, fails, or publishes.             *)
(***************************************************************************)
\* Steps left in a sentence, at most, for a thread at a place.
Rank(p) ==
  CASE p = "unborn" -> 7
    [] p \in {"check", "files"} -> 6
    [] p \in {"connect", "create"} -> 5
    [] p \in {"remote", "wait"} -> 4
    [] p \in {"local", "play"} -> 3
    [] p \in {"running", "join"} -> 2
    [] p \in {"publish", "cleanup"} -> 1
    [] OTHER -> 0

Sleeps(t) ==
  /\ t \notin waiting /\ waiting' = waiting \cup {t} /\ ~failed /\ ~awaited(t)
  /\ UNCHANGED <<pc, index, ready, failed, created, result>>

Moves(s) ==
  /\ s \notin waiting /\ UNCHANGED <<waiting, index, ready, failed, created, result>>
  /\ \E l \in Places : /\ pc' = [pc EXCEPT ![s] = l]
                       /\ l \in Working \cup {"publish"} \/ (l = "done" /\ failed)
                       /\ Rank(l) < Rank(pc[s])

Fails(s) ==
  /\ pc[s] = "running" /\ pc' = [pc EXCEPT ![s] = "done"] /\ failed' = TRUE /\ waiting' = {}
  /\ UNCHANGED <<index, ready, created, result>>

Publishes(s) ==
  /\ pc[s] = "publish" /\ ready' = ready \cup {out(s)} /\ waiting' = {}
  /\ \/ index[s] < Count /\ index' = [index EXCEPT ![s] = index[s] + 1] /\ pc' = [pc EXCEPT ![s] = "check"]
     \/ ~(index[s] < Count) /\ index' = index /\ pc' = [pc EXCEPT ![s] = "done"]
  /\ UNCHANGED <<failed, created, result>>

LEMMA StageShape ==
  ASSUME PipelineInv, Asleep, NEW s \in Stages, stageStep(s)
  PROVE  /\ pc[s] \in Working \cup {"check", "publish"}
         /\ \/ Sleeps(s) /\ s # "piper" /\ pc[s] = "check"
            \/ Moves(s) \/ Fails(s) \/ Publishes(s)
<1>1. s # "main" /\ s \in Threads /\ index \in [Threads -> Sentences]
  BY DEF Stages, Threads, PipelineInv, PipelineTypes
<1>2. pc[s] \in Working => s \notin waiting
  BY SMTT(60) DEF Asleep, Working
<1>3. CASE stageCheck(s)
  <2>1. pc[s] = "check" /\ s \notin waiting /\ UNCHANGED <<index, ready, failed, created, result>>
    BY <1>3 DEF stageCheck
  <2>2. CASE failed
    <3>1. pc' = [pc EXCEPT ![s] = "done"] /\ waiting' = waiting
      BY <1>3, <2>2 DEF stageCheck, Goto
    <3>2. "done" \in Places /\ Rank("done") < Rank(pc[s])
      BY <2>1, SMTT(60) DEF Places, Rank
    <3> QED
      BY <2>1, <2>2, <3>1, <3>2, ZenonT(60) DEF Moves
  <2>3. CASE ~failed /\ s # "piper" /\ in(s) \notin ready
    BY <1>1, <1>3, <2>1, <2>3, ZenonT(60) DEF stageCheck, Sleeps, awaited
  <2>4. CASE ~failed /\ ~(s # "piper" /\ in(s) \notin ready)
    <3>1. waiting' = waiting /\ \E l \in {"connect", "local"} : pc' = [pc EXCEPT ![s] = l]
      BY <1>3, <2>4 DEF stageCheck, Goto
    <3>2. \A l \in {"connect", "local"} : l \in Places /\ l \in Working /\ Rank(l) < Rank(pc[s])
      BY <2>1, SMTT(60) DEF Places, Rank, Working
    <3> QED
      BY <2>1, <3>1, <3>2, ZenonT(60) DEF Moves
  <2> QED
    BY <2>1, <2>2, <2>3, <2>4
<1>4. ASSUME pc[s] \in Working, NEW l \in Working \cup {"publish"}, Rank(l) < Rank(pc[s]),
             pc' = [pc EXCEPT ![s] = l],
             UNCHANGED <<waiting, index, ready, failed, created, result>>
      PROVE  Moves(s)
  <2>1. l \in Places
    BY DEF Working, Places
  <2> QED
    BY <1>2, <1>4, <2>1, ZenonT(60) DEF Moves
<1>5. CASE remoteConnect(s)
  <2>1. /\ pc[s] = "connect" /\ \E l \in {"remote", "local"} : pc' = [pc EXCEPT ![s] = l]
        /\ UNCHANGED <<waiting, index, ready, failed, created, result>>
    BY <1>5 DEF remoteConnect, Goto
  <2>2. \A l \in {"remote", "local"} : l \in Working \cup {"publish"} /\ Rank(l) < Rank("connect")
    BY SMTT(60) DEF Rank, Working
  <2> QED
    BY <1>4, <2>1, <2>2, ZenonT(60) DEF Working
<1>6. CASE remoteResult(s) \/ remoteFailed(s)
  <2>1. /\ pc[s] = "remote" /\ \E l \in {"publish", "local"} : pc' = [pc EXCEPT ![s] = l]
        /\ UNCHANGED <<waiting, index, ready, failed, created, result>>
    BY <1>6 DEF remoteResult, remoteFailed, Goto
  <2>2. \A l \in {"publish", "local"} : l \in Working \cup {"publish"} /\ Rank(l) < Rank("remote")
    BY SMTT(60) DEF Rank, Working
  <2> QED
    BY <1>4, <2>1, <2>2, ZenonT(60) DEF Working
<1>7. CASE localStart(s)
  <2>1. /\ pc[s] = "local" /\ pc' = [pc EXCEPT ![s] = "running"]
        /\ UNCHANGED <<waiting, index, ready, failed, created, result>>
    BY <1>7 DEF localStart, Goto
  <2>2. "running" \in Working \cup {"publish"} /\ Rank("running") < Rank("local")
    BY SMTT(60) DEF Rank, Working
  <2> QED
    BY <1>4, <2>1, <2>2, ZenonT(60) DEF Working
<1>8. CASE localEnd(s)
  <2>1. pc[s] = "running" /\ UNCHANGED <<index, ready, created, result>>
    BY <1>8 DEF localEnd
  <2>2. CASE Goto(s, "publish") /\ UNCHANGED <<failed, waiting>>
    <3>1. "publish" \in Working \cup {"publish"} /\ Rank("publish") < Rank("running")
      BY SMTT(60) DEF Rank, Working
    <3> QED
      BY <1>4, <2>1, <2>2, <3>1, ZenonT(60) DEF Working, Goto
  <2>3. CASE pipeline_fail /\ Goto(s, "done")
    BY <2>1, <2>3, ZenonT(60) DEF Fails, pipeline_fail, Goto, Working
  <2> QED
    BY <1>8, <2>2, <2>3 DEF localEnd
<1>9. CASE stagePublish(s)
  <2>1. index = [index EXCEPT ![s] = index[s]]
    BY <1>1
  <2> QED
    BY <1>9, <2>1, ZenonT(60) DEF stagePublish, Publishes, Goto
<1> QED
  BY <1>3, <1>5, <1>6, <1>7, <1>8, <1>9, ZenonT(60) DEF stageStep
\* The steps of main: it falls asleep, moves on, starts a thread, gives up, or
\* has played a sentence.
MainMoves ==
  /\ "main" \notin waiting /\ UNCHANGED <<waiting, index, ready, failed, created, result>>
  /\ \E l \in {"create", "play", "join", "cleanup", "done"} :
       /\ pc' = [pc EXCEPT !["main"] = l]
       /\ Rank(l) < Rank(pc["main"])
       /\ (l = "play" => pc["main"] = "wait") /\ (l = "join" => failed)

MainStarts(s) ==
  /\ pc["main"] = "create" /\ pc[s] = "unborn" /\ created' = created \cup {s}
  /\ \E l \in {"create", "wait"} :
       /\ pc' = [pc EXCEPT ![s] = "check", !["main"] = l]
       /\ l = "wait" => created' = Stages
  /\ UNCHANGED <<waiting, index, ready, failed, result>>

MainFails ==
  /\ pc["main"] \in {"files", "create", "play"} /\ pc' = [pc EXCEPT !["main"] = "join"]
  /\ failed' = TRUE /\ waiting' = {}
  /\ UNCHANGED <<index, ready, created, result>>

MainHasPlayed ==
  /\ pc["main"] = "play" /\ UNCHANGED <<waiting, ready, failed, created>>
  /\ \/ /\ index["main"] < Count /\ index' = [index EXCEPT !["main"] = index["main"] + 1]
        /\ pc' = [pc EXCEPT !["main"] = "wait"] /\ result' = result
     \/ /\ ~(index["main"] < Count) /\ index' = index
        /\ pc' = [pc EXCEPT !["main"] = "join"] /\ result' = "success"

LEMMA MainShape ==
  ASSUME PipelineInv, Asleep, mainStep
  PROVE  \/ Sleeps("main") /\ pc["main"] = "wait"
         \/ MainMoves \/ MainFails \/ MainHasPlayed
         \/ \E s \in Stages : MainStarts(s)
<1>1. index \in [Threads -> Sentences] /\ "main" \in Threads
  BY DEF Threads, PipelineInv, PipelineTypes
<1>2. pc["main"] # "wait" => "main" \notin waiting
  BY SMTT(60) DEF Asleep, PipelineInv, PipelineTypes
<1>3. CASE mainFiles
  <2>1. pc["main"] = "files" /\ UNCHANGED <<index, ready, created, result>>
    BY <1>3 DEF mainFiles
  <2>2. CASE Goto("main", "create") /\ UNCHANGED <<failed, waiting>>
    <3>1. Rank("create") < Rank("files") /\ "create" # "play" /\ "create" # "join"
      BY SMTT(60) DEF Rank
    <3> QED
      BY <1>2, <2>1, <2>2, <3>1, ZenonT(60) DEF Goto, MainMoves
  <2>3. CASE Goto("main", "join") /\ pipeline_fail
    BY <2>1, <2>3, ZenonT(60) DEF Goto, pipeline_fail, MainFails
  <2> QED
    BY <1>3, <2>2, <2>3, ZenonT(60) DEF mainFiles
<1>4. ASSUME NEW s \in Stages, mainCreate(s) PROVE MainFails \/ MainStarts(s)
  <2>1. pc["main"] = "create" /\ UNCHANGED <<index, ready, result>>
    BY <1>4 DEF mainCreate
  <2>2. CASE pipeline_fail /\ Goto("main", "join") /\ UNCHANGED created
    BY <2>1, <2>2, ZenonT(60) DEF Goto, pipeline_fail, MainFails
  <2>3. CASE /\ created' = created \cup {s} /\ UNCHANGED <<failed, waiting>>
             /\ pc' = [pc EXCEPT ![s] = "check",
                                 !["main"] = IF s = "envelope" THEN "wait" ELSE "create"]
    <3>1. created \in {{}, {"piper"}, {"piper", "sox"}}
      BY <2>1, ZenonT(60) DEF PipelineInv, Born
    <3>2. s \notin created /\ (s = "envelope" => created' = Stages)
      BY <1>4, <2>3, <3>1, SMTT(60) DEF mainCreate, Stages
    <3>3. pc[s] = "unborn"
      BY <3>2, ZenonT(60) DEF PipelineInv, Born
    <3>4. CASE s = "envelope"
      BY <2>1, <2>3, <3>2, <3>3, <3>4, ZenonT(60) DEF MainStarts
    <3>5. CASE s # "envelope"
      <4>1. "create" # "wait"
        OBVIOUS
      <4> QED
        BY <2>1, <2>3, <3>2, <3>3, <3>5, <4>1, ZenonT(60) DEF MainStarts
    <3> QED
      BY <3>4, <3>5
  <2> QED
    BY <1>4, <2>2, <2>3, ZenonT(60) DEF mainCreate
<1>5. CASE mainWait
  <2>1. pc["main"] = "wait" /\ "main" \notin waiting /\ UNCHANGED <<index, ready, failed, created, result>>
    BY <1>5 DEF mainWait
  <2>2. Rank("join") < Rank("wait") /\ Rank("play") < Rank("wait") /\ "join" # "play"
    BY SMTT(60) DEF Rank
  <2>3. CASE failed
    BY <1>5, <2>1, <2>2, <2>3, ZenonT(60) DEF mainWait, Goto, MainMoves
  <2>4. CASE ~failed /\ ~playable(index["main"])
    BY <1>5, <2>1, <2>4, ZenonT(60) DEF mainWait, Sleeps, awaited
  <2>5. CASE ~failed /\ playable(index["main"])
    BY <1>5, <2>1, <2>2, <2>5, ZenonT(60) DEF mainWait, Goto, MainMoves
  <2> QED
    BY <2>3, <2>4, <2>5
<1>6. CASE mainPlay
  <2>1. CASE pipeline_fail /\ Goto("main", "join") /\ UNCHANGED <<index, result>>
    BY <1>6, <2>1, ZenonT(60) DEF mainPlay, Goto, pipeline_fail, MainFails
  <2>2. CASE /\ index' = [index EXCEPT !["main"] = IF index["main"] < Count THEN index["main"] + 1 ELSE index["main"]]
             /\ Goto("main", IF index["main"] < Count THEN "wait" ELSE "join")
             /\ result' = IF index["main"] < Count THEN result ELSE "success"
             /\ UNCHANGED <<failed, waiting>>
    <3>1. index = [index EXCEPT !["main"] = index["main"]]
      BY <1>1
    <3> QED
      BY <1>6, <2>2, <3>1, ZenonT(60) DEF mainPlay, Goto, MainHasPlayed
  <2> QED
    BY <1>6, <2>1, <2>2, ZenonT(60) DEF mainPlay
<1>7. CASE mainJoin \/ mainCleanup
  <2>1. Rank("cleanup") < Rank("join") /\ Rank("done") < Rank("cleanup")
    BY SMTT(60) DEF Rank
  <2>2. \A l \in {"cleanup", "done"} : l # "play" /\ l # "join"
    BY SMTT(60)
  <2>3. pc["main"] # "wait"
    BY <1>7, SMTT(60) DEF mainJoin, mainCleanup
  <2> QED
    BY <1>2, <1>7, <2>1, <2>2, <2>3, ZenonT(60) DEF mainJoin, mainCleanup, Goto, MainMoves
<1> QED
  BY <1>3, <1>4, <1>5, <1>6, <1>7, ZenonT(60) DEF mainStep

\* Why a thread sleeps, which threads there are, and what is published: all of
\* a stage's outputs up to its sentence, unless the pipeline has failed.
Sleepers ==
  /\ waiting \subseteq {"sox", "envelope", "main"}
  /\ \A t \in waiting : /\ ~failed /\ ~awaited(t)
                        /\ pc[t] = IF t = "main" THEN "wait" ELSE "check"
Started ==
  /\ created \subseteq Stages /\ \A s \in created : pc[s] # "unborn"
  /\ pc["main"] \in {"wait", "play"} => created = Stages
  /\ pc["main"] = "join" => failed \/ result = "success"
Published ==
  failed \/ \A s \in Stages, i \in Sentences : i < index[s] \/ pc[s] = "done" => <<i, Output[s]>> \in ready

WakeInv == Sleepers /\ Started /\ Published

LEMMA WakeStage ==
  ASSUME PipelineInv, Asleep, WakeInv, NEW s \in Stages, stageStep(s)
  PROVE  WakeInv'
<1>1. s # "main" /\ s \in Threads /\ "main" \in Threads /\ pc \in [Threads -> Places]
  BY DEF Stages, Threads, PipelineInv, PipelineTypes
<1>2. index \in [Threads -> Sentences] /\ pc[s] \notin {"unborn", "done"}
  BY StageShape, SMTT(60) DEF PipelineInv, PipelineTypes, Working
<1>3. CASE Sleeps(s) /\ s # "piper" /\ pc[s] = "check"
  <2>1. Started' /\ Published'
    BY <1>3, SMTT(60) DEF WakeInv, Started, Published, Sleeps
  <2>2. Sleepers'
    BY <1>1, <1>3, SMTT(60) DEF WakeInv, Sleepers, Sleeps, Stages, awaited, playable, in
  <2> QED
    BY <2>1, <2>2 DEF WakeInv
<1>4. CASE Moves(s)
  <2>1. PICK l \in Places : /\ pc' = [pc EXCEPT ![s] = l] /\ Rank(l) < Rank(pc[s])
                            /\ l \in Working \cup {"publish"} \/ (l = "done" /\ failed)
    BY <1>4, ZenonT(60) DEF Moves
  <2>2. l # "unborn" /\ (l = "done" => failed)
    BY <2>1, SMTT(60) DEF Working
  <2>3. Started'
    BY <1>1, <1>4, <2>1, <2>2, SMTT(60) DEF WakeInv, Started, Moves, Stages, Threads
  <2>4. Published'
    BY <1>1, <1>4, <2>1, <2>2, SMTT(60) DEF WakeInv, Published, Moves, Stages, Threads
  <2>5. Sleepers'
    BY <1>1, <1>4, <2>1, SMTT(60) DEF WakeInv, Sleepers, Moves, awaited, playable, in, Threads
  <2> QED
    BY <2>3, <2>4, <2>5 DEF WakeInv
<1>5. CASE Fails(s)
  <2>1. Sleepers' /\ Published'
    BY <1>5, SMTT(60) DEF Sleepers, Published, Fails
  <2>2. Started'
    BY <1>1, <1>5, SMTT(60) DEF WakeInv, Started, Fails, Stages, Threads
  <2> QED
    BY <2>1, <2>2 DEF WakeInv
<1>6. CASE Publishes(s)
  <2>1. Sleepers'
    BY <1>6, SMTT(60) DEF Sleepers, Publishes
  <2>2. Started'
    BY <1>1, <1>6, SMTT(60) DEF WakeInv, Started, Publishes, Stages, Threads
  <2>3. Published'
    <3> SUFFICES ASSUME ~failed, NEW t \in Stages, NEW i \in Sentences, i < index'[t] \/ pc'[t] = "done"
                 PROVE  <<i, Output[t]>> \in ready'
      BY <1>6, ZenonT(60) DEF Published, Publishes
    <3>1. CASE t # s
      <4>1. index'[t] = index[t] /\ pc'[t] = pc[t]
        BY <1>1, <1>2, <1>6, <3>1, SMTT(60) DEF Publishes, Stages, Threads
      <4> QED
        BY <1>6, <4>1, ZenonT(60) DEF WakeInv, Published, Publishes
    <3>2. CASE t = s
      <4>1. i < index[s] \/ i = index[s]
        BY <1>1, <1>2, <1>6, <3>2, VoiceBounds, SMTT(60) DEF Publishes, Sentences
      <4> QED
        BY <1>6, <3>2, <4>1, ZenonT(60) DEF WakeInv, Published, Publishes, out
    <3> QED
      BY <3>1, <3>2
  <2> QED
    BY <2>1, <2>2, <2>3 DEF WakeInv
<1> QED
  BY <1>3, <1>4, <1>5, <1>6, StageShape

LEMMA WakeMain ==
  ASSUME PipelineInv, Asleep, WakeInv, mainStep
  PROVE  WakeInv'
<1>1. "main" \in Threads /\ pc \in [Threads -> Places] /\ index \in [Threads -> Sentences]
  BY DEF Threads, PipelineInv, PipelineTypes
<1>2. \A s \in Stages : s # "main" /\ s \in Threads
  BY DEF Stages, Threads
<1>3. CASE Sleeps("main") /\ pc["main"] = "wait"
  <2>1. Started' /\ Published'
    BY <1>3, SMTT(60) DEF WakeInv, Started, Published, Sleeps
  <2>2. Sleepers'
    BY <1>3, SMTT(60) DEF WakeInv, Sleepers, Sleeps, awaited, playable, in
  <2> QED
    BY <2>1, <2>2 DEF WakeInv
<1>4. CASE MainMoves
  <2>1. PICK l \in {"create", "play", "join", "cleanup", "done"} :
               /\ pc' = [pc EXCEPT !["main"] = l]
               /\ (l = "play" => pc["main"] = "wait") /\ (l = "join" => failed)
    BY <1>4, ZenonT(60) DEF MainMoves
  <2>2. pc'["main"] = l /\ \A s \in Stages : pc'[s] = pc[s]
    BY <1>1, <1>2, <2>1, SMTT(60)
  <2>3. Started' /\ Published'
    BY <1>4, <2>1, <2>2, SMTT(60) DEF WakeInv, Started, Published, MainMoves
  <2>4. Sleepers'
    BY <1>4, <2>2, SMTT(60) DEF WakeInv, Sleepers, MainMoves, awaited, playable, in, Stages
  <2> QED
    BY <2>3, <2>4 DEF WakeInv
<1>5. CASE MainFails
  <2>1. Sleepers' /\ Published'
    BY <1>5, SMTT(60) DEF Sleepers, Published, MainFails
  <2>2. Started'
    BY <1>1, <1>2, <1>5, SMTT(60) DEF WakeInv, Started, MainFails
  <2> QED
    BY <2>1, <2>2 DEF WakeInv
<1>6. CASE MainHasPlayed
  <2>1. "main" \notin waiting /\ \A s \in Stages : pc'[s] = pc[s] /\ index'[s] = index[s]
    BY <1>1, <1>2, <1>6, SMTT(60) DEF MainHasPlayed, WakeInv, Sleepers
  <2>2. pc'["main"] \in {"wait", "join"} /\ (pc'["main"] = "join" => result' = "success")
    BY <1>1, <1>6, SMTT(60) DEF MainHasPlayed
  <2>3. Started' /\ Published'
    BY <1>6, <2>1, <2>2, SMTT(60) DEF WakeInv, Started, Published, MainHasPlayed
  <2>4. Sleepers'
    BY <1>6, <2>1, SMTT(60) DEF WakeInv, Sleepers, MainHasPlayed, awaited, playable, in, Stages
  <2> QED
    BY <2>3, <2>4 DEF WakeInv
<1>7. ASSUME NEW s \in Stages, MainStarts(s) PROVE WakeInv'
  <2>1. PICK l \in {"create", "wait"} : /\ pc' = [pc EXCEPT ![s] = "check", !["main"] = l]
                                        /\ l = "wait" => created' = Stages
    BY <1>7, ZenonT(60) DEF MainStarts
  <2>2. /\ pc'["main"] = l /\ pc'[s] = "check" /\ \A t \in Stages : t # s => pc'[t] = pc[t]
        /\ pc["main"] = "create" /\ pc[s] = "unborn" /\ s \notin waiting /\ "main" \notin waiting
    <3>1. pc["main"] = "create" /\ pc[s] = "unborn"
      BY <1>7 DEF MainStarts
    <3>2. s \notin waiting /\ "main" \notin waiting
      <4>1. \A t \in waiting : pc[t] \in {"wait", "check"}
        BY ZenonT(60) DEF WakeInv, Sleepers
      <4> QED
        BY <3>1, <4>1, ZenonT(60)
    <3>3. pc'["main"] = l /\ pc'[s] = "check" /\ \A t \in Stages : t # s => pc'[t] = pc[t]
      BY <1>1, <1>2, <2>1, SMTT(60)
    <3> QED
      BY <3>1, <3>2, <3>3
  <2>3. Started' /\ Published'
    <3>1. created' = created \cup {s} /\ UNCHANGED <<index, ready, failed, result>>
      BY <1>7 DEF MainStarts
    <3>2. Started'
      <4>1. created' \subseteq Stages /\ \A t \in created' : pc'[t] # "unborn"
        BY <2>2, <3>1, ZenonT(60) DEF WakeInv, Started
      <4>2. pc'["main"] \in {"create", "wait"} /\ (pc'["main"] = "wait" => created' = Stages)
        BY <2>1, <2>2, ZenonT(60)
      <4> QED
        BY <4>1, <4>2, ZenonT(60) DEF Started
    <3>3. Published'
      BY <2>2, <3>1, SMTT(60) DEF WakeInv, Published
    <3> QED
      BY <3>2, <3>3
  <2>4. Sleepers'
    BY <1>7, <2>2, SMTT(60) DEF WakeInv, Sleepers, MainStarts, awaited, playable, in, Stages
  <2> QED
    BY <2>3, <2>4 DEF WakeInv
<1> QED
  BY <1>3, <1>4, <1>5, <1>6, <1>7, MainShape

LEMMA WakeInvariant == Spec => []WakeInv
<1>1. Init => WakeInv
  <2> SUFFICES ASSUME Init PROVE WakeInv
    OBVIOUS
  <2>1. Sleepers /\ Started
    BY SMTT(60) DEF Init, Sleepers, Started, Threads, Stages
  <2>2. Published
    BY VoiceBounds, SMTT(60) DEF Init, Published, Threads, Stages, Sentences
  <2> QED
    BY <2>1, <2>2 DEF WakeInv
<1>2. PipelineInv /\ Asleep /\ WakeInv /\ [Next]_vars => WakeInv'
  <2>1. ASSUME WakeInv, UNCHANGED voiceVars PROVE WakeInv'
    BY <2>1, SMTT(60)
       DEF WakeInv, Sleepers, Started, Published, voiceVars, awaited, playable, in
  <2> QED
    BY <2>1, WakeStage, WakeMain, ZenonT(60) DEF Next, vars
<1> QED
  BY <1>1, <1>2, PipelineInvariant, AsleepInvariant, PTL DEF Spec

(***************************************************************************)
(* No wakeup is lost and the threads never all wait for one another, for   *)
(* any number of sentences: a failure and a new output wake everybody, the *)
(* first stage waits for nobody, and once a stage is done without failure  *)
(* the threads behind it find everything they wait for.                    *)
(***************************************************************************)
THEOREM NobodyMissesWake == Spec => []NobodySleepsOn
<1>1. PipelineInv /\ WakeInv => NobodySleepsOn
  <2> SUFFICES ASSUME PipelineInv, WakeInv, pc["main"] # "done"
               PROVE  \E t \in Threads : ~blocked(t)
    BY ZenonT(60) DEF NobodySleepsOn, WakeInv, Sleepers
  <2>1. /\ Threads = {"piper", "sox", "envelope", "main"} /\ "piper" \notin waiting
        /\ Stages = {"piper", "sox", "envelope"} /\ \A s \in Stages : s # "main"
    BY SMTT(60) DEF Threads, Stages, WakeInv, Sleepers
  <2>2. ASSUME NEW s \in Stages, s \in created, pc[s] # "done", s \notin waiting
        PROVE  \E t \in Threads : ~blocked(t)
    <3>1. pc[s] # "unborn" /\ s # "main" /\ s \in Threads
      BY <2>1, <2>2, ZenonT(60) DEF WakeInv, Started, Threads
    <3> QED
      BY <2>2, <3>1, ZenonT(60) DEF blocked
  <2>3. CASE "main" \in waiting
    <3>1. pc["main"] = "wait" /\ ~failed /\ ~playable(index["main"]) /\ created = Stages
      BY <2>3, ZenonT(60) DEF WakeInv, Sleepers, Started, awaited
    <3>2. index["main"] \in Sentences
      BY <2>1 DEF PipelineInv, PipelineTypes
    <3>3. CASE pc["piper"] # "done"
      BY <2>1, <2>2, <3>1, <3>3, ZenonT(60)
    <3>4. CASE pc["piper"] = "done"
      <4>1. \A i \in Sentences : <<i, "dry">> \in ready
        <5>1. \A i \in Sentences : <<i, Output["piper"]>> \in ready
          BY <2>1, <3>1, <3>4, ZenonT(60) DEF WakeInv, Published
        <5>2. Output["piper"] = "dry"
          BY SMTT(60) DEF Output
        <5> QED
          BY <5>1, <5>2, ZenonT(60)
      <4>2. PICK s \in {"sox", "envelope"} : pc[s] # "done"
        BY <3>1, <3>2, SMTT(60) DEF WakeInv, Published, Stages, Output, playable
      <4>3. in(s) \in ready
        BY <2>1, <4>1, SMTT(60) DEF in, Input, PipelineInv, PipelineTypes
      <4>4. s \notin waiting
        BY <2>1, <4>3, ZenonT(60) DEF WakeInv, Sleepers, awaited
      <4> QED
        BY <2>1, <2>2, <3>1, <4>2, <4>4, ZenonT(60)
    <3> QED
      BY <3>3, <3>4
  <2>4. CASE pc["main"] = "join" /\ \E s \in created : pc[s] # "done"
    <3>1. PICK s \in created : pc[s] # "done"
      BY <2>4
    <3>2. s \in Stages
      BY DEF WakeInv, Started
    <3>3. s \notin waiting
      <4>1. CASE failed
        BY <4>1, ZenonT(60) DEF WakeInv, Sleepers
      <4>2. CASE s = "piper"
        BY <2>1, <4>2
      <4>3. CASE ~failed /\ s # "piper"
        <5>1. result = "success" /\ index[s] \in Sentences
          BY <2>1, <2>4, <3>2, <4>3, ZenonT(60) DEF WakeInv, Started, PipelineInv, PipelineTypes
        <5>2. <<index[s], "dry">> \in ready
          BY <5>1, ZenonT(60) DEF PipelineInv, Order, Played, playable
        <5>3. in(s) \in ready
          BY <2>1, <3>2, <4>3, <5>2, SMTT(60) DEF in, Input
        <5> QED
          BY <2>1, <3>2, <5>3, ZenonT(60) DEF WakeInv, Sleepers, awaited
      <4> QED
        BY <4>1, <4>2, <4>3
    <3> QED
      BY <2>2, <3>1, <3>2, <3>3
  <2>5. CASE "main" \notin waiting /\ ~(pc["main"] = "join" /\ \E s \in created : pc[s] # "done")
    <3>1. pc["main"] # "unborn" /\ "main" \in Threads
      BY <2>1, SMTT(60) DEF PipelineInv, PipelineTypes
    <3> QED
      BY <2>5, <3>1, ZenonT(60) DEF blocked
  <2> QED
    BY <2>3, <2>4, <2>5
<1> QED
  BY <1>1, PipelineInvariant, WakeInvariant, PTL
-----------------------------------------------------------------------------
(***************************************************************************)
(* The end.  Left(t) bounds the steps thread t still takes, sleeping aside *)
(* (7 for each sentence of a stage, 2 for each of main), and a thread is   *)
(* woken only when somebody else has less left.                            *)
(***************************************************************************)
Left(t) ==
  IF pc[t] \in {"done", "cleanup", "join"} THEN Rank(pc[t])
  ELSE (IF t = "main" THEN 2 ELSE 7) * (Count - index[t]) + Rank(pc[t])

Effort == 5 * (Left("piper") + Left("sox") + Left("envelope") + Left("main")) + 4 - Cardinality(waiting)

\* Every step of a thread of rose-voice, falling asleep included, leaves less to do.
WorksDown == [][mainStep \/ (\E s \in Stages : stageStep(s)) => Effort' \in Nat /\ Effort' < Effort]_vars

LEMMA RankRange == \A p : Rank(p) \in 0 .. 7
BY SMTT(60) DEF Rank

LEMMA LeftNat ==
  ASSUME PipelineInv, NEW t \in Threads
  PROVE  Left(t) \in Nat
<1>1. index[t] \in Sentences
  BY DEF PipelineInv, PipelineTypes
<1>2. Rank(pc[t]) \in Nat /\ Count - index[t] \in Nat
  BY <1>1, RankRange, VoiceBounds, SMTT(60) DEF Sentences
<1> QED
  BY <1>2, SMTT(60) DEF Left

LEMMA LeftSame ==
  ASSUME NEW t \in Threads, pc'[t] = pc[t], index'[t] = index[t]
  PROVE  Left(t)' = Left(t)
BY ZenonT(60) DEF Left, Rank

\* The threads asleep are few.
LEMMA AddOne ==
  ASSUME NEW S, NEW x, NEW n \in Nat, IsFiniteSet(S), Cardinality(S) <= n
  PROVE  IsFiniteSet(S \cup {x}) /\ Cardinality(S \cup {x}) <= n + 1
<1>1. /\ IsFiniteSet(S \cup {x})
      /\ Cardinality(S \cup {x}) = IF x \in S THEN Cardinality(S) ELSE Cardinality(S) + 1
  BY FS_AddElement
<1>2. Cardinality(S) \in Nat
  BY FS_CardinalityType
<1> QED
  BY <1>1, <1>2, SMTT(60)

Few == IsFiniteSet(waiting) /\ Cardinality(waiting) \in 0 .. 3

LEMMA SleepersCounted == Sleepers => Few
<1> SUFFICES ASSUME Sleepers PROVE Few
  OBVIOUS
<1> DEFINE W == (({} \cup {"sox"}) \cup {"envelope"}) \cup {"main"}
<1>0. 0 \in Nat /\ 0 + 1 \in Nat /\ 0 + 1 + 1 \in Nat
  OBVIOUS
<1>1. IsFiniteSet({}) /\ Cardinality({}) <= 0
  BY FS_EmptySet
<1>2. IsFiniteSet({} \cup {"sox"}) /\ Cardinality({} \cup {"sox"}) <= 0 + 1
  BY <1>0, <1>1, AddOne, ZenonT(60)
<1>3. /\ IsFiniteSet(({} \cup {"sox"}) \cup {"envelope"})
      /\ Cardinality(({} \cup {"sox"}) \cup {"envelope"}) <= 0 + 1 + 1
  BY <1>0, <1>2, AddOne, ZenonT(60)
<1>4. IsFiniteSet(W) /\ Cardinality(W) <= 0 + 1 + 1 + 1
  BY <1>0, <1>3, AddOne, ZenonT(60)
<1>5. waiting \subseteq W
  BY DEF Sleepers
<1>6. IsFiniteSet(waiting) /\ Cardinality(waiting) <= Cardinality(W)
  BY <1>4, <1>5, FS_Subset, ZenonT(60)
<1>7. Cardinality(waiting) \in Nat /\ Cardinality(W) \in Nat
  BY <1>4, <1>6, FS_CardinalityType, ZenonT(60)
<1> HIDE DEF W
<1> QED
  BY <1>4, <1>6, <1>7, SMTT(60) DEF Few

Measured == Few /\ \A t \in Threads : Left(t) \in Nat

LEMMA LessInSum ==
  ASSUME NEW a \in Nat, NEW b \in Nat, NEW c \in Nat, NEW d \in Nat, NEW m \in 0 .. 3,
         NEW a1 \in Nat, NEW b1 \in Nat, NEW c1 \in Nat, NEW d1 \in Nat, NEW m1 \in 0 .. 3,
         a1 <= a /\ b1 <= b /\ c1 <= c /\ d1 <= d,
         a1 < a \/ b1 < b \/ c1 < c \/ d1 < d
  PROVE  /\ 5 * (a1 + b1 + c1 + d1) + 4 - m1 \in Nat
         /\ 5 * (a1 + b1 + c1 + d1) + 4 - m1 < 5 * (a + b + c + d) + 4 - m
BY SMTT(60)

\* A step that leaves less for one thread and no more for the others.
LEMMA EffortLess ==
  ASSUME Measured, Measured',
         \A t \in Threads : Left(t)' <= Left(t), \E t \in Threads : Left(t)' < Left(t)
  PROVE  Effort' \in Nat /\ Effort' < Effort
<1>1. Threads = {"piper", "sox", "envelope", "main"}
  BY DEF Threads, Stages
<1>2. /\ Left("piper") \in Nat /\ Left("sox") \in Nat /\ Left("envelope") \in Nat /\ Left("main") \in Nat
      /\ Cardinality(waiting) \in 0 .. 3
  BY <1>1, ZenonT(60) DEF Measured, Few
<1>3. /\ Left("piper")' \in Nat /\ Left("sox")' \in Nat /\ Left("envelope")' \in Nat /\ Left("main")' \in Nat
      /\ Cardinality(waiting)' \in 0 .. 3
  BY <1>1, ZenonT(60) DEF Measured, Few
<1>4. /\ Left("piper")' <= Left("piper") /\ Left("sox")' <= Left("sox")
      /\ Left("envelope")' <= Left("envelope") /\ Left("main")' <= Left("main")
      /\ \/ Left("piper")' < Left("piper") \/ Left("sox")' < Left("sox")
         \/ Left("envelope")' < Left("envelope") \/ Left("main")' < Left("main")
  BY <1>1, ZenonT(60)
<1> QED
  BY <1>2, <1>3, <1>4, LessInSum, ZenonT(60) DEF Effort

LEMMA SleepLess ==
  ASSUME Measured, Measured', NEW t \in Threads, Sleeps(t)
  PROVE  Effort' \in Nat /\ Effort' < Effort
<1>1. \A u \in Threads : Left(u)' = Left(u)
  BY LeftSame, ZenonT(60) DEF Sleeps
<1>2. Cardinality(waiting)' = Cardinality(waiting) + 1
  <2>1. /\ waiting' = waiting \cup {t} /\ t \notin waiting
        /\ Cardinality(waiting \cup {t}) = IF t \in waiting THEN Cardinality(waiting) ELSE Cardinality(waiting) + 1
    BY FS_AddElement, ZenonT(60) DEF Sleeps, Measured, Few
  <2> QED
    BY <2>1, ZenonT(60)
<1>3. "piper" \in Threads /\ "sox" \in Threads /\ "envelope" \in Threads /\ "main" \in Threads
  BY DEF Threads, Stages
<1>4. Effort' = 5 * (Left("piper") + Left("sox") + Left("envelope") + Left("main")) + 4 - (Cardinality(waiting) + 1)
  BY <1>1, <1>2, <1>3, ZenonT(60) DEF Effort
<1>5. Cardinality(waiting) \in 0 .. 3 /\ \A u \in Threads : Left(u) \in Nat
  BY DEF Measured, Few
<1> QED
  BY <1>3, <1>4, <1>5, SMTT(60) DEF Effort

LEMMA StageLess ==
  ASSUME PipelineInv, NEW s \in Stages, pc[s] \in Working \cup {"check", "publish"},
         Moves(s) \/ Fails(s) \/ Publishes(s)
  PROVE  Left(s)' < Left(s) /\ \A t \in Threads \ {s} : Left(t)' = Left(t)
<1>1. /\ s # "main" /\ s \in Threads /\ pc \in [Threads -> Places] /\ index \in [Threads -> Sentences]
      /\ index[s] \in Sentences
  BY DEF Stages, Threads, PipelineInv, PipelineTypes
<1>2. Left(s) = 7 * (Count - index[s]) + Rank(pc[s])
  BY <1>1, SMTT(60) DEF Left, Working
<1>3. Count - index[s] \in Nat /\ Rank(pc[s]) \in 1 .. 7
  <2>1. Rank(pc[s]) # 0
    BY SMTT(60) DEF Rank, Working
  <2> QED
    BY <1>1, <2>1, RankRange, VoiceBounds, SMTT(60) DEF Sentences
<1>4. \A t \in Threads \ {s} : pc'[t] = pc[t] /\ index'[t] = index[t]
  BY <1>1, SMTT(60) DEF Moves, Fails, Publishes
<1>5. CASE Moves(s)
  <2>1. PICK l \in Places : /\ pc' = [pc EXCEPT ![s] = l] /\ Rank(l) < Rank(pc[s])
                            /\ l \in Working \cup {"publish"} \/ l = "done"
    BY <1>5, ZenonT(60) DEF Moves
  <2>2. pc'[s] = l /\ index'[s] = index[s]
    BY <1>1, <1>5, <2>1, ZenonT(60) DEF Moves
  <2>3. Left(s)' \in {Rank(l), 7 * (Count - index[s]) + Rank(l)}
    BY <1>1, <2>2, ZenonT(60) DEF Left, Rank
  <2>4. Rank(l) \in Nat
    BY RankRange, SMTT(60)
  <2> QED
    BY <1>2, <1>3, <1>4, <2>1, <2>3, <2>4, LeftSame, SMTT(60)
<1>6. CASE Fails(s)
  <2>1. pc'[s] = "done"
    BY <1>1, <1>6, ZenonT(60) DEF Fails
  <2>2. Left(s)' = 0
    BY <2>1, SMTT(60) DEF Left, Rank
  <2> QED
    BY <1>2, <1>3, <1>4, <2>2, LeftSame, SMTT(60)
<1>7. CASE Publishes(s)
  <2>1. CASE pc' = [pc EXCEPT ![s] = "done"]
    <3>1. pc'[s] = "done"
      BY <1>1, <2>1, ZenonT(60)
    <3>2. Left(s)' = 0
      BY <3>1, SMTT(60) DEF Left, Rank
    <3> QED
      BY <1>2, <1>3, <1>4, <3>2, LeftSame, SMTT(60)
  <2>2. CASE index' = [index EXCEPT ![s] = index[s] + 1] /\ pc' = [pc EXCEPT ![s] = "check"]
    <3>1. pc'[s] = "check" /\ index'[s] = index[s] + 1
      BY <1>1, <2>2, ZenonT(60)
    <3>2. Left(s)' = 7 * (Count - (index[s] + 1)) + 6
      BY <1>1, <3>1, SMTT(60) DEF Left, Rank
    <3> QED
      BY <1>1, <1>2, <1>3, <1>4, <3>2, LeftSame, VoiceBounds, SMTT(60) DEF Sentences
  <2> QED
    BY <1>7, <2>1, <2>2, ZenonT(60) DEF Publishes
<1> QED
  BY <1>5, <1>6, <1>7

LEMMA MainLess ==
  ASSUME PipelineInv, MainMoves \/ MainFails \/ MainHasPlayed
  PROVE  Left("main")' < Left("main") /\ \A t \in Threads \ {"main"} : Left(t)' = Left(t)
<1>1. /\ "main" \in Threads /\ pc \in [Threads -> Places] /\ index \in [Threads -> Sentences]
      /\ index["main"] \in Sentences /\ Count - index["main"] \in Nat
  BY VoiceBounds, SMTT(60) DEF Threads, PipelineInv, PipelineTypes, Sentences
<1>2. \A t \in Threads \ {"main"} : pc'[t] = pc[t] /\ index'[t] = index[t]
  BY <1>1, SMTT(60) DEF MainMoves, MainFails, MainHasPlayed
<1>3. \A t \in Threads \ {"main"} : Left(t)' = Left(t)
  BY <1>2, LeftSame, ZenonT(60)
<1>4. CASE MainMoves
  <2>1. PICK l \in {"create", "play", "join", "cleanup", "done"} :
               pc' = [pc EXCEPT !["main"] = l] /\ Rank(l) < Rank(pc["main"])
    BY <1>4, ZenonT(60) DEF MainMoves
  <2>2. pc'["main"] = l /\ index'["main"] = index["main"]
    BY <1>1, <1>4, <2>1, ZenonT(60) DEF MainMoves
  <2>3. Left("main")' = IF l \in {"done", "cleanup", "join"} THEN Rank(l)
                        ELSE 2 * (Count - index["main"]) + Rank(l)
    BY <2>2, ZenonT(60) DEF Left, Rank
  <2>4. Left("main") = IF pc["main"] \in {"done", "cleanup", "join"} THEN Rank(pc["main"])
                       ELSE 2 * (Count - index["main"]) + Rank(pc["main"])
    BY ZenonT(60) DEF Left
  <2>5. pc["main"] \in {"done", "cleanup", "join"} => l \in {"done", "cleanup", "join"}
    BY <2>1, SMTT(60) DEF Rank
  <2>6. Rank(l) \in Nat /\ Rank(pc["main"]) \in Nat
    BY RankRange, SMTT(60)
  <2> QED
    BY <1>1, <1>3, <2>1, <2>3, <2>4, <2>5, <2>6, SMTT(60)
<1>5. CASE MainFails
  <2>1. pc'["main"] = "join" /\ pc["main"] \in {"files", "create", "play"}
    BY <1>1, <1>5, ZenonT(60) DEF MainFails
  <2>2. Left("main")' = 2
    BY <2>1, SMTT(60) DEF Left, Rank
  <2>3. Left("main") >= 3
    BY <1>1, <2>1, SMTT(60) DEF Left, Rank
  <2>4. Left("main") \in Nat
    BY <1>1, LeftNat
  <2> QED
    BY <1>3, <2>2, <2>3, <2>4, SMTT(60)
<1>6. CASE MainHasPlayed
  <2>1. pc["main"] = "play" /\ Left("main") = 2 * (Count - index["main"]) + 3
    BY <1>6, SMTT(60) DEF MainHasPlayed, Left, Rank
  <2>2. CASE pc' = [pc EXCEPT !["main"] = "join"]
    <3>1. pc'["main"] = "join"
      BY <1>1, <2>2, ZenonT(60)
    <3>2. Left("main")' = 2
      BY <3>1, SMTT(60) DEF Left, Rank
    <3> QED
      BY <1>1, <1>3, <2>1, <3>2, SMTT(60)
  <2>3. CASE index' = [index EXCEPT !["main"] = index["main"] + 1] /\ pc' = [pc EXCEPT !["main"] = "wait"]
    <3>1. pc'["main"] = "wait" /\ index'["main"] = index["main"] + 1
      BY <1>1, <2>3, ZenonT(60)
    <3>2. Left("main")' = 2 * (Count - (index["main"] + 1)) + 4
      BY <3>1, SMTT(60) DEF Left, Rank
    <3> QED
      BY <1>1, <1>3, <2>1, <3>2, VoiceBounds, SMTT(60) DEF Sentences
  <2> QED
    BY <1>6, <2>2, <2>3, ZenonT(60) DEF MainHasPlayed
<1> QED
  BY <1>4, <1>5, <1>6

LEMMA StartLess ==
  ASSUME PipelineInv, NEW s \in Stages, MainStarts(s)
  PROVE  /\ Left(s)' < Left(s) /\ Left("main")' <= Left("main")
         /\ \A t \in Threads \ {s, "main"} : Left(t)' = Left(t)
<1>1. /\ "main" \in Threads /\ s \in Threads /\ s # "main" /\ pc \in [Threads -> Places]
      /\ \A t \in Threads : index[t] \in Sentences /\ Count - index[t] \in Nat
  BY VoiceBounds, SMTT(60) DEF Threads, Stages, PipelineInv, PipelineTypes, Sentences
<1>2. pc["main"] = "create" /\ pc[s] = "unborn" /\ index' = index
  BY DEF MainStarts
<1>3. PICK l \in {"create", "wait"} : pc' = [pc EXCEPT ![s] = "check", !["main"] = l]
  BY ZenonT(60) DEF MainStarts
<1>4. pc'[s] = "check" /\ pc'["main"] = l /\ \A t \in Threads \ {s, "main"} : pc'[t] = pc[t]
  BY <1>1, <1>3, SMTT(60)
<1>5. \A t \in Threads \ {s, "main"} : Left(t)' = Left(t)
  BY <1>2, <1>4, LeftSame, ZenonT(60)
<1>6. Left(s) = 7 * (Count - index[s]) + 7 /\ Left(s)' = 7 * (Count - index[s]) + 6
  BY <1>1, <1>2, <1>4, SMTT(60) DEF Left, Rank
<1>7. Left("main") = 2 * (Count - index["main"]) + 5
  BY <1>2, SMTT(60) DEF Left, Rank
<1>8. Left("main")' \in {2 * (Count - index["main"]) + 5, 2 * (Count - index["main"]) + 4}
  BY <1>2, <1>4, SMTT(60) DEF Left, Rank
<1> QED
  BY <1>1, <1>5, <1>6, <1>7, <1>8, SMTT(60)

(***************************************************************************)
(* rose-voice has a bounded number of steps to take for a text of any      *)
(* length, whatever fails and whoever is woken in vain: with               *)
(* NobodyMissesWake, by which some thread can always take one, it ends as  *)
(* soon as its threads are scheduled.                                      *)
(***************************************************************************)
THEOREM StepsAreBounded == Spec => WorksDown
<1>1. PipelineInv /\ WakeInv => Measured
  BY LeftNat, SleepersCounted, ZenonT(60) DEF Measured, WakeInv
<1>2. Spec => []Measured
  BY <1>1, PipelineInvariant, WakeInvariant, PTL
<1>3. PipelineInv /\ Asleep /\ Measured /\ Measured' =>
        [mainStep \/ (\E s \in Stages : stageStep(s)) => Effort' \in Nat /\ Effort' < Effort]_vars
  <2> SUFFICES ASSUME PipelineInv, Asleep, Measured, Measured', mainStep \/ \E s \in Stages : stageStep(s)
               PROVE  Effort' \in Nat /\ Effort' < Effort
    BY ZenonT(60)
  <2>1. \A t \in Threads : Left(t) \in Nat /\ Left(t)' \in Nat
    BY ZenonT(60) DEF Measured
  <2>2. "main" \in Threads /\ \A s \in Stages : s \in Threads
    BY DEF Threads
  <2>3. ASSUME NEW t \in Threads, Left(t)' < Left(t), \A u \in Threads \ {t} : Left(u)' = Left(u)
        PROVE  Effort' \in Nat /\ Effort' < Effort
    <3>1. \A u \in Threads : Left(u)' <= Left(u)
      BY <2>1, <2>3, SMTT(60)
    <3> QED
      BY <2>3, <3>1, EffortLess, ZenonT(60)
  <2>4. ASSUME NEW s \in Stages, stageStep(s) PROVE Effort' \in Nat /\ Effort' < Effort
    <3>1. CASE Sleeps(s)
      BY <2>2, <3>1, SleepLess, ZenonT(60)
    <3>2. CASE Moves(s) \/ Fails(s) \/ Publishes(s)
      <4>1. pc[s] \in Working \cup {"check", "publish"}
        BY <2>4, StageShape
      <4>2. Left(s)' < Left(s) /\ \A u \in Threads \ {s} : Left(u)' = Left(u)
        BY <3>2, <4>1, StageLess
      <4> QED
        BY <2>2, <2>3, <4>2, ZenonT(60)
    <3> QED
      BY <2>4, <3>1, <3>2, StageShape
  <2>5. CASE mainStep
    <3>1. CASE Sleeps("main")
      BY <2>2, <3>1, SleepLess, ZenonT(60)
    <3>2. CASE MainMoves \/ MainFails \/ MainHasPlayed
      <4>1. Left("main")' < Left("main") /\ \A u \in Threads \ {"main"} : Left(u)' = Left(u)
        BY <3>2, MainLess
      <4> QED
        BY <2>2, <2>3, <4>1, ZenonT(60)
    <3>3. ASSUME NEW s \in Stages, MainStarts(s) PROVE Effort' \in Nat /\ Effort' < Effort
      <4>1. /\ Left(s)' < Left(s) /\ Left("main")' <= Left("main")
            /\ \A t \in Threads \ {s, "main"} : Left(t)' = Left(t)
        BY <3>3, StartLess
      <4>2. \A u \in Threads : Left(u)' <= Left(u)
        BY <2>1, <2>2, <4>1, SMTT(60)
      <4> QED
        BY <2>2, <4>1, <4>2, EffortLess, ZenonT(60)
    <3> QED
      BY <2>5, <3>1, <3>2, <3>3, MainShape
  <2> QED
    BY <2>4, <2>5
<1> QED
  BY <1>2, <1>3, PipelineInvariant, AsleepInvariant, PTL DEF WorksDown
-----------------------------------------------------------------------------
(***************************************************************************)
(* The lock file under which rose-voice and rose-hue play (HueLock), in    *)
(* which HeldForFullRun fails after a process was killed: two processes    *)
(* find the stale file and the second removes the lock of the first.       *)
(***************************************************************************)
CONSTANTS Players, Offs, ATTEMPTS, MaxRows
VARIABLES lock, light, huePc, attempt, rows, killed, cleared

Hue == INSTANCE HueLock WITH pc <- huePc

\* A sequence that plays has its own lock file, as long as nobody was killed.
HeldUnlessKilled == killed = {} => Hue!HeldForFullRun

HuePlaces == {"start", "create", "write", "examine", "remove", "play", "darken", "release", "end", "off", "clear"}
Playing == {"play", "darken", "release"}

\* The lock file as its owner creates it, and once it names its owner.
Fresh(p) == [owner |-> p, written |-> FALSE]
Full(p) == [owner |-> p, written |-> TRUE]

LEMMA LockFiles ==
  ASSUME NEW p, NEW q
  PROVE  /\ p # q => Fresh(p) # Fresh(q) /\ Full(p) # Full(q)
         /\ Fresh(p) # Full(q) /\ Full(p) # Hue!NoLock
         /\ p # "nobody" => Fresh(p) # Hue!NoLock
         /\ Fresh(p).owner = p
<1>1. /\ Fresh(p).owner = p /\ Full(p).owner = p /\ Fresh(p).written = FALSE /\ Full(p).written = TRUE
      /\ Fresh(q).owner = q /\ Full(q).owner = q /\ Full(q).written = TRUE
      /\ Hue!NoLock.owner = "nobody" /\ Hue!NoLock.written = FALSE
  BY SMTT(60) DEF Fresh, Full, Hue!NoLock
<1> QED
  BY <1>1, ZenonT(60)

\* The process that has created the lock file is the only one past that point.
LockInv ==
  /\ cleared \in {TRUE, FALSE}
  /\ killed = {} /\ cleared = FALSE =>
    /\ huePc \in [Players \cup Offs -> HuePlaces]
    /\ \A p \in Players \cup Offs : huePc[p] \notin {"remove", "off", "clear"}
    /\ \A p \in Players : huePc[p] = "write" => lock = Fresh(p)
    /\ \A p \in Players : huePc[p] \in Playing => lock = Full(p)

\* A player goes from one place to another.
LEMMA PlayerMoves ==
  ASSUME NEW p \in Players, NEW l \in HuePlaces \ {"remove", "off", "clear"},
         killed = {}, cleared = FALSE, cleared' = FALSE, LockInv, huePc' = [huePc EXCEPT ![p] = l],
         l = "write" => lock' = Fresh(p), l \in Playing => lock' = Full(p),
         \A q \in Players \ {p} : huePc[q] \in Playing \cup {"write"} => lock' = lock
  PROVE  LockInv'
<1>1. /\ huePc \in [Players \cup Offs -> HuePlaces]
      /\ \A q \in Players \cup Offs : huePc[q] \notin {"remove", "off", "clear"}
      /\ \A q \in Players : huePc[q] = "write" => lock = Fresh(q)
      /\ \A q \in Players : huePc[q] \in Playing => lock = Full(q)
  BY ZenonT(60) DEF LockInv
<1>2. /\ huePc' \in [Players \cup Offs -> HuePlaces] /\ huePc'[p] = l
      /\ \A q \in Players \cup Offs : q # p => huePc'[q] = huePc[q]
  BY <1>1, SMTT(60)
<1>3. \A q \in Players \cup Offs : huePc'[q] \notin {"remove", "off", "clear"}
  BY <1>1, <1>2, ZenonT(60)
<1>4. \A q \in Players : huePc'[q] = "write" => lock' = Fresh(q)
  BY <1>1, <1>2, ZenonT(60)
<1>5. \A q \in Players : huePc'[q] \in Playing => lock' = Full(q)
  BY <1>1, <1>2, ZenonT(60)
<1> QED
  BY <1>2, <1>3, <1>4, <1>5, ZenonT(60) DEF LockInv

\* While no process has been killed and rose-hue-off was not used, a sequence
\* holds the lock for its full run, and no two play at a time: the removal of a
\* stale file is the only step of the players themselves that breaks it.
THEOREM LockHeldUnlessKilled ==
  ASSUME "nobody" \notin Players
  PROVE  Hue!Spec => []HeldUnlessKilled
<1>1. Hue!Init => LockInv
  <2> SUFFICES ASSUME Hue!Init PROVE LockInv
    OBVIOUS
  <2>1. huePc = [p \in Players \cup Offs |-> "start"]
    BY ZenonT(60) DEF Hue!Init, Hue!Processes
  <2>2. huePc \in [Players \cup Offs -> HuePlaces] /\ \A p \in Players \cup Offs : huePc[p] = "start"
    BY <2>1, SMTT(60) DEF HuePlaces
  <2>3. "start" \notin Playing /\ "start" # "write" /\ "start" \notin {"remove", "off", "clear"}
    BY SMTT(60) DEF Playing
  <2>4. cleared \in {TRUE, FALSE}
    BY ZenonT(60) DEF Hue!Init
  <2> QED
    BY <2>2, <2>3, <2>4, ZenonT(60) DEF LockInv
<1>2. LockInv /\ [Hue!Next]_(Hue!vars) => LockInv'
  <2>0. ASSUME LockInv, [Hue!Next]_(Hue!vars) PROVE cleared' \in {TRUE, FALSE}
    <3>1. cleared' \in {cleared, TRUE}
      BY <2>0, ZenonT(60) DEF Hue!Next, Hue!vars, Hue!hue_lock_acquire, Hue!play, Hue!hue_config_load, Hue!create,
         Hue!writeOwner, Hue!examine, Hue!remove, Hue!row, Hue!noRow, Hue!hue_dark, Hue!hue_lock_release,
         Hue!hue_lock_force_clear, Hue!off, Hue!clear, Hue!kill
    <3> QED
      BY <2>0, <3>1, ZenonT(60) DEF LockInv
  <2> SUFFICES ASSUME LockInv, [Hue!Next]_(Hue!vars), killed' = {}, cleared' = FALSE PROVE LockInv'
    BY <2>0, ZenonT(60) DEF LockInv
  <2>1. CASE UNCHANGED Hue!vars
    BY <2>1, ZenonT(60) DEF Hue!vars, LockInv
  <2>2. ASSUME NEW p \in Offs, Hue!hue_lock_force_clear(p) \/ Hue!off(p) \/ Hue!clear(p) PROVE LockInv'
    <3>1. CASE Hue!hue_lock_force_clear(p)
      BY <3>1, SMTT(60) DEF Hue!hue_lock_force_clear
    <3>2. CASE Hue!off(p) \/ Hue!clear(p)
      <4>1. killed = {} /\ cleared = FALSE /\ huePc[p] \in {"off", "clear"}
        BY <3>2, ZenonT(60) DEF Hue!off, Hue!clear, Hue!At
      <4> QED
        BY <4>1, ZenonT(60) DEF LockInv
    <3> QED
      BY <2>2, <3>1, <3>2
  <2>3. ASSUME NEW p \in Hue!Processes, Hue!kill(p) PROVE LockInv'
    BY <2>3, SMTT(60) DEF Hue!kill
  <2>4. ASSUME NEW p \in Players, Hue!hue_config_load(p) \/ Hue!hue_lock_acquire(p) \/ Hue!play(p)
        PROVE  LockInv'
    <3>1. killed = {} /\ cleared = FALSE
      BY <2>4, ZenonT(60) DEF Hue!hue_lock_acquire, Hue!play, Hue!hue_config_load, Hue!create,
         Hue!writeOwner, Hue!examine, Hue!remove, Hue!row, Hue!noRow, Hue!hue_dark, Hue!hue_lock_release
    <3>2. /\ \A q \in Players \cup Offs : huePc[q] \notin {"remove", "off", "clear"}
          /\ \A q \in Players : huePc[q] = "write" => lock = Fresh(q)
          /\ \A q \in Players : huePc[q] \in Playing => lock = Full(q)
      BY <3>1, ZenonT(60) DEF LockInv
    <3>3. /\ \A l \in {"start", "create", "examine", "end"} : /\ l \in HuePlaces \ {"remove", "off", "clear"}
                                                            /\ l # "write" /\ l \notin Playing
          /\ \A l \in Playing : l \in HuePlaces \ {"remove", "off", "clear"} /\ l # "write"
          /\ "write" \in HuePlaces \ {"remove", "off", "clear"} /\ "write" \notin Playing
      BY SMTT(60) DEF HuePlaces, Playing
    <3>4. \A q \in Players : huePc[q] \in Playing \cup {"write"} => lock # Hue!NoLock
      BY <3>2, LockFiles, ZenonT(60)
    <3>5. huePc[p] \in Playing \cup {"write"} =>
            \A q \in Players \ {p} : huePc[q] \notin Playing \cup {"write"}
      <4>1. \A q \in Players : huePc[q] \in Playing \cup {"write"} => lock \in {Fresh(q), Full(q)}
        BY <3>2, ZenonT(60)
      <4>2. \A q \in Players \ {p} : {Fresh(q), Full(q)} \cap {Fresh(p), Full(p)} = {}
        BY LockFiles, ZenonT(60)
      <4> QED
        BY <4>1, <4>2, ZenonT(60)
    <3>6. ASSUME lock' = lock, NEW l \in {"start", "create", "examine", "end"},
                 huePc' = [huePc EXCEPT ![p] = l]
          PROVE  LockInv'
      BY <3>1, <3>3, <3>6, PlayerMoves, ZenonT(60)
    <3>7. CASE Hue!hue_config_load(p)
      BY <3>6, <3>7, ZenonT(60) DEF Hue!hue_config_load, Hue!Goto
    <3>8. CASE Hue!create(p)
      <4>1. CASE lock = Hue!NoLock
        <5>1. \A q \in Players : huePc[q] \notin Playing \cup {"write"}
          BY <3>4, <4>1, ZenonT(60)
        <5>2. lock' = Fresh(p) /\ huePc' = [huePc EXCEPT ![p] = "write"]
          BY <3>8, <4>1, ZenonT(60) DEF Hue!create, Hue!Goto, Fresh
        <5> QED
          BY <3>1, <3>3, <5>1, <5>2, PlayerMoves, ZenonT(60)
      <4>2. CASE lock # Hue!NoLock
        BY <3>6, <3>8, <4>2, ZenonT(60) DEF Hue!create, Hue!Goto
      <4> QED
        BY <4>1, <4>2
    <3>9. CASE Hue!writeOwner(p)
      <4>1. huePc[p] = "write" /\ lock = Fresh(p)
        BY <3>2, <3>9, ZenonT(60) DEF Hue!writeOwner, Hue!At
      <4>2. \A q \in Players \ {p} : huePc[q] \notin Playing \cup {"write"}
        BY <3>5, <4>1, ZenonT(60)
      <4>3. \/ huePc' = [huePc EXCEPT ![p] = "play"] /\ lock' = Full(p)
            \/ huePc' = [huePc EXCEPT ![p] = "end"]
        BY <3>9, <4>1, LockFiles, ZenonT(60) DEF Hue!writeOwner, Hue!Goto, Full
      <4>4. "play" \in Playing
        BY DEF Playing
      <4> QED
        BY <3>1, <3>3, <4>2, <4>3, <4>4, PlayerMoves, ZenonT(60)
    <3>10. CASE Hue!examine(p)
      <4>1. ~Hue!stale_lock
        BY <3>1, ZenonT(60) DEF Hue!stale_lock
      <4>2. lock' = lock /\ \E l \in {"create", "end"} : huePc' = [huePc EXCEPT ![p] = l]
        BY <3>10, <4>1, ZenonT(60) DEF Hue!examine, Hue!nextAttempt, Hue!Goto
      <4> QED
        BY <3>6, <4>2, ZenonT(60)
    <3>11. CASE Hue!remove(p)
      BY <3>2, <3>11, ZenonT(60) DEF Hue!remove, Hue!At
    <3>12. CASE Hue!row(p) \/ Hue!noRow(p) \/ Hue!hue_dark(p)
      <4>1. lock' = lock /\ huePc[p] \in Playing
        BY <3>12, ZenonT(60) DEF Hue!row, Hue!noRow, Hue!hue_dark, Hue!At, Playing
      <4>2. huePc' = huePc \/ \E l \in {"darken", "release"} : huePc' = [huePc EXCEPT ![p] = l]
        BY <3>12, ZenonT(60) DEF Hue!row, Hue!noRow, Hue!hue_dark, Hue!Goto
      <4>3. CASE huePc' = huePc
        BY <3>1, <4>1, <4>3, ZenonT(60) DEF LockInv
      <4>4. ASSUME NEW l \in {"darken", "release"}, huePc' = [huePc EXCEPT ![p] = l] PROVE LockInv'
        <5>1. l \in Playing
          BY DEF Playing
        <5> QED
          BY <3>1, <3>2, <3>3, <4>1, <4>4, <5>1, PlayerMoves, ZenonT(60)
      <4> QED
        BY <4>2, <4>3, <4>4
    <3>13. CASE Hue!hue_lock_release(p)
      <4>1. huePc[p] \in Playing /\ huePc' = [huePc EXCEPT ![p] = "end"]
        BY <3>13, ZenonT(60) DEF Hue!hue_lock_release, Hue!At, Hue!Goto, Playing
      <4>2. \A q \in Players \ {p} : huePc[q] \notin Playing \cup {"write"}
        BY <3>5, <4>1, ZenonT(60)
      <4> QED
        BY <3>1, <3>3, <4>1, <4>2, PlayerMoves, ZenonT(60)
    <3> QED
      BY <2>4, <3>7, <3>8, <3>9, <3>10, <3>11, <3>12, <3>13, ZenonT(60) DEF Hue!hue_lock_acquire, Hue!play
  <2> QED
    BY <2>1, <2>2, <2>3, <2>4, ZenonT(60) DEF Hue!Next
<1>3. LockInv => HeldUnlessKilled
  <2>1. CASE cleared = TRUE
    BY <2>1, SMTT(60) DEF HeldUnlessKilled, Hue!HeldForFullRun
  <2>2. CASE cleared = FALSE
    BY <2>2, ZenonT(60) DEF LockInv, Full, Playing, HeldUnlessKilled, Hue!HeldForFullRun
  <2> QED
    BY <2>1, <2>2, ZenonT(60) DEF LockInv
<1> QED
  BY <1>1, <1>2, <1>3, PTL DEF Hue!Spec
=============================================================================
