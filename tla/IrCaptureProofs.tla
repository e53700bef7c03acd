--------------------------- MODULE IrCaptureProofs ---------------------------
(***************************************************************************)
(* Theorems about IrCaptureThread, for buffers, queues and idle times of   *)
(* any size: its types, the frame that stays still while it is read, one   *)
(* transmission per frame, what an acknowledgement says of the card, and   *)
(* that the alignment of two captures is the largest there is.             *)
(***************************************************************************)
EXTENDS IrCaptureThread, FiniteSetTheorems, WellFoundedInduction, TLAPS

(***************************************************************************)
(* Types of the service, by the operation that changes it.                 *)
(***************************************************************************)
CaptureOK ==
  /\ {captureActive, captureFrameReady, captureOverflow, attached} \subseteq BOOLEAN
  /\ pulses \in Seq(Pulse) /\ Len(pulses) <= MaxPulses
  /\ age \in 0 .. Idle

Operation ==
  captureEdge \/ captureStop \/ captureRestart \/ closeFrame \/ rearmEmpty \/ rearmAttach
    \/ UNCHANGED service

LEMMA CaptureTypes ==
  ASSUME ServiceTypeOK, burst' \in 0 .. 1, Operation
  PROVE  CaptureOK'
<1> DEFINE Bools == {captureActive, captureFrameReady, captureOverflow, attached} \subseteq BOOLEAN
           Rest == pulses \in Seq(Pulse) /\ Len(pulses) <= MaxPulses /\ age \in 0 .. Idle
<1>0. Bools /\ configured \in BOOLEAN /\ Rest
  BY ZenonT(60) DEF ServiceTypeOK
<1>e. <<>> \in Seq(Pulse) /\ Len(<<>>) = 0
  OBVIOUS
<1>1. CASE captureEdge
  <2>1. Bools'
    <3>1. (pulses # <<>>) \in BOOLEAN
      OBVIOUS
    <3> QED
      BY <1>0, <1>1, <3>1, ZenonT(60) DEF captureEdge, service
  <2>2. ASSUME UNCHANGED <<pulses, age>> PROVE Rest'
    BY <1>0, <2>2
  <2>3. ASSUME UNCHANGED pulses, age' = 0 PROVE Rest'
    BY <1>0, <2>3, IdleAssumption, SMTT(60)
  <2>4. ASSUME age < Idle, Len(pulses) < MaxPulses, age' = 0,
               pulses' = Append(pulses, [dur |-> age, burst |-> burst'])
        PROVE  Rest'
    <3>1. [dur |-> age, burst |-> burst'] \in Pulse
      BY <1>0, <2>4, IdleAssumption, SMTT(60) DEF Pulse
    <3>2. pulses' \in Seq(Pulse) /\ Len(pulses') = Len(pulses) + 1 /\ Len(pulses) \in Nat
      BY <1>0, <2>4, <3>1, SMTT(60)
    <3> QED
      BY <1>0, <2>4, <3>2, IdleAssumption, MaxPulsesAssumption, SMTT(60)
  <2>5. Rest'
    <3>1. CASE ~attached \/ ~captureActive \/ captureFrameReady
      BY <1>1, <2>2, <3>1, ZenonT(60) DEF captureEdge, service
    <3>2. CASE ~(~attached \/ ~captureActive \/ captureFrameReady)
      <4>1. age' = 0 /\ (age >= Idle => UNCHANGED pulses)
        BY <1>1, <3>2, ZenonT(60) DEF captureEdge
      <4>2. \/ UNCHANGED pulses
            \/ /\ ~(age >= Idle) /\ Len(pulses) < MaxPulses
               /\ pulses' = Append(pulses, [dur |-> age, burst |-> burst'])
        BY <1>1, <3>2, ZenonT(60) DEF captureEdge
      <4>3. ~(age >= Idle) => age < Idle
        BY <1>0, IdleAssumption, SMTT(60)
      <4> QED
        BY <2>3, <2>4, <4>1, <4>2, <4>3
    <3> QED
      BY <3>1, <3>2
  <2> QED
    BY <2>1, <2>5 DEF CaptureOK
<1>2. CASE captureStop \/ captureRestart \/ rearmEmpty
  <2>1. Bools'
    BY <1>0, <1>2, ZenonT(60) DEF captureStop, captureRestart, rearmEmpty
  <2>2. pulses' = <<>> /\ age' \in {0, Idle, age}
    BY <1>2, ZenonT(60) DEF captureStop, captureRestart, rearmEmpty
  <2>3. Rest'
    BY <1>0, <1>e, <2>2, IdleAssumption, MaxPulsesAssumption, SMTT(60)
  <2> QED
    BY <2>1, <2>3 DEF CaptureOK
<1>3. CASE closeFrame \/ rearmAttach \/ UNCHANGED service
  <2>1. Bools'
    BY <1>0, <1>3, ZenonT(60) DEF closeFrame, rearmAttach, service
  <2>2. pulses' = pulses /\ age' \in {0, Idle, age}
    BY <1>3, ZenonT(60) DEF closeFrame, rearmAttach, service
  <2>3. Rest'
    BY <1>0, <2>2, IdleAssumption, MaxPulsesAssumption, SMTT(60)
  <2> QED
    BY <2>1, <2>3 DEF CaptureOK
<1> QED
  BY <1>1, <1>2, <1>3 DEF Operation

\* Every step but the wire's and the clock's is one operation of the service
\* by the loop.
Loop ==
  \/ CallThread \/ \E why \in {"stopped", "expired", "capture_error"} : StopThread(why)
  \/ ReplayLast \/ CarrierCommand \/ PopResult \/ Remember
  \/ \E t \in Stamp : ReplayFile(t) \/ RemoveFile(t)
  \/ StepReady \/ CompareTimes \/ CountPulses \/ CopyPulse \/ CopyDone
  \/ StoreCapture \/ Rearm \/ Publish
  \/ VerifyLast \/ ReplayFailed \/ ReplayHeard \/ ReplayUnheard \/ VerifyCopied \/ Compare

LEMMA LoopOperation == ASSUME Loop PROVE Operation /\ UNCHANGED <<wire, configured>>
<1> USE DEF Operation, Command, Stopped, Ready
<1>1. CASE CallThread \/ \E why \in {"stopped", "expired", "capture_error"} : StopThread(why)
  BY <1>1, ZenonT(60) DEF CallThread, StopThread
<1>2. CASE ReplayLast \/ CarrierCommand \/ PopResult \/ Remember
  BY <1>2, ZenonT(60) DEF ReplayLast, CarrierCommand, PopResult, Remember
<1>3. CASE \E t \in Stamp : ReplayFile(t) \/ RemoveFile(t)
  BY <1>3, ZenonT(60) DEF ReplayFile, RemoveFile
<1>4. CASE StepReady \/ CompareTimes \/ CountPulses
  BY <1>4, ZenonT(60) DEF StepReady, CompareTimes, CountPulses
<1>5. CASE CopyPulse \/ CopyDone \/ StoreCapture
  BY <1>5, ZenonT(60) DEF CopyPulse, CopyDone, StoreCapture
<1>6. CASE Rearm \/ Publish \/ VerifyLast \/ ReplayFailed
  BY <1>6, ZenonT(60) DEF Rearm, Publish, VerifyLast, ReplayFailed
<1>7. CASE ReplayHeard \/ ReplayUnheard \/ VerifyCopied \/ Compare
  BY <1>7, ZenonT(60) DEF ReplayHeard, ReplayUnheard, VerifyCopied, Compare
<1> QED
  BY <1>1, <1>2, <1>3, <1>4, <1>5, <1>6, <1>7, SMTT(60) DEF Loop

LEMMA ServiceTypes == ASSUME ServiceTypeOK, [Next]_vars PROVE ServiceTypeOK'
<1>0. /\ quiet \in 0 .. Idle /\ burst \in 0 .. 1 /\ configured \in BOOLEAN /\ age \in 0 .. Idle
      /\ CaptureOK
  BY ZenonT(60) DEF ServiceTypeOK, CaptureOK
<1>1. ASSUME Operation, quiet' \in 0 .. Idle, burst' \in 0 .. 1, configured' = configured
      PROVE  ServiceTypeOK'
  <2>1. CaptureOK'
    BY <1>1, CaptureTypes
  <2> QED
    BY <1>0, <1>1, <2>1, ZenonT(60) DEF CaptureOK, ServiceTypeOK
<1>2. CASE Loop \/ UNCHANGED vars
  <2>1. Operation /\ UNCHANGED <<wire, configured>>
    BY <1>2, LoopOperation DEF vars, Operation
  <2> QED
    BY <1>0, <1>1, <2>1 DEF wire
<1>3. CASE Interrupt
  <2>1. /\ quiet' = 0 /\ burst' = (IF quiet = Idle THEN 1 - burst ELSE burst)
        /\ configured' = configured /\ Operation
    BY <1>3 DEF Interrupt, Edge, Operation
  <2>2. quiet' \in 0 .. Idle /\ burst' \in 0 .. 1
    BY <1>0, <2>1, IdleAssumption, SMTT(60)
  <2> QED
    BY <1>1, <2>1, <2>2
<1>4. CASE Clock
  <2>1. /\ quiet' = Older(quiet) /\ age' = Older(age)
        /\ UNCHANGED <<burst, configured, captureActive, captureFrameReady, captureOverflow, pulses, attached>>
    BY <1>4 DEF Clock, Time
  <2>2. quiet' \in 0 .. Idle /\ age' \in 0 .. Idle
    BY <1>0, <2>1, IdleAssumption, SMTT(60) DEF Older
  <2> QED
    BY <1>0, <2>1, <2>2, ZenonT(60) DEF ServiceTypeOK, CaptureOK
<1> QED
  BY <1>2, <1>3, <1>4, ZenonT(60) DEF Next, Loop

(***************************************************************************)
(* Types of the loop, the thread and the card.                             *)
(***************************************************************************)
Flags == {edgeSeen, running, captureStarted, torn} \subseteq BOOLEAN

Places == {"loop", "compare_times", "count", "copy", "store", "rearm", "rearm_attach",
           "replaying", "compare"}

Data ==
  /\ pc \in Places /\ caller \in {"thread", "verify"}
  /\ copy \in Seq(Pulse) /\ buf \in Seq(Pulse) /\ want \in 0 .. MaxPulses
  /\ stored \in Stamp \cup {NoStamp} /\ popped \in Stamp \cup {NoStamp}
  /\ results \in Seq(Stamp) /\ Len(results) <= ResultSlots
  /\ files \in [Stamp -> {"none", "whole", "damaged"}]

LEMMA FlagTypes == ASSUME Flags, ServiceTypeOK, [Next]_vars PROVE Flags'
<1>0. {edgeSeen, running, captureStarted, torn, configured} \subseteq BOOLEAN
  BY ZenonT(60) DEF Flags, ServiceTypeOK
<1> USE <1>0 DEF Flags, Command, Stopped, Ready, thread, card, loop
<1>1. CASE CallThread \/ \E why \in {"stopped", "expired", "capture_error"} : StopThread(why)
  BY <1>1, ZenonT(60) DEF CallThread, StopThread
<1>2. CASE ReplayLast \/ CarrierCommand \/ PopResult
  BY <1>2, ZenonT(60) DEF ReplayLast, CarrierCommand, PopResult
<1>3. CASE \E t \in Stamp : ReplayFile(t) \/ RemoveFile(t)
  BY <1>3, ZenonT(60) DEF ReplayFile, RemoveFile
<1>4. CASE StepReady \/ CompareTimes \/ CountPulses
  BY <1>4, ZenonT(60) DEF StepReady, CompareTimes, CountPulses
<1>5. CASE CopyPulse \/ CopyDone \/ StoreCapture
  BY <1>5, ZenonT(60) DEF CopyPulse, CopyDone, StoreCapture
<1>6. CASE Rearm \/ Publish \/ VerifyLast \/ ReplayFailed
  BY <1>6, ZenonT(60) DEF Rearm, Publish, VerifyLast, ReplayFailed
<1>7. CASE ReplayHeard \/ ReplayUnheard \/ VerifyCopied \/ Compare
  BY <1>7, ZenonT(60) DEF ReplayHeard, ReplayUnheard, VerifyCopied, Compare
<1>8. CASE Interrupt \/ Clock \/ UNCHANGED vars
  <2>1. (pc = "compare_times") \in BOOLEAN
    OBVIOUS
  <2> QED
    BY <1>8, <2>1, ZenonT(60) DEF Interrupt, Clock, vars
<1>9. CASE Remember
  <2>1. torn' \in BOOLEAN /\ UNCHANGED <<edgeSeen, running, captureStarted>>
    BY <1>9, ZenonT(60) DEF Remember
  <2> QED
    BY <2>1, ZenonT(60)
<1> QED
  BY <1>1, <1>2, <1>3, <1>4, <1>5, <1>6, <1>7, <1>8, <1>9, SMTT(60) DEF Next

LEMMA Smallest ==
  ASSUME NEW S, S \subseteq Nat, S # {}
  PROVE  \E n \in S : \A m \in S : n <= m
<1>1. PICK x \in S : \A y \in S : <<y, x>> \notin OpToRel(<, Nat)
  BY WFMin, NatLessThanWellFounded, ZenonT(60)
<1>2. \A y \in S : ~(y < x)
  BY <1>1, ZenonT(60) DEF OpToRel
<1>3. ASSUME NEW y \in S PROVE x <= y
  <2>1. x \in Nat /\ y \in Nat /\ ~(y < x)
    BY <1>2, ZenonT(60)
  <2> QED
    BY <2>1, SMTT(60)
<1> QED
  BY <1>3, ZenonT(60)

LEMMA PathFree ==
  ASSUME NEW start \in Stamp, artifactPath(start) # NoStamp
  PROVE  artifactPath(start) \in Stamp /\ files[artifactPath(start)] = "none"
<1> DEFINE free == {t \in Stamp : t >= start /\ files[t] = "none"}
<1>1. free # {} /\ artifactPath(start) = CHOOSE t \in free : \A u \in free : t <= u
  BY DEF artifactPath
<1>2. free \subseteq Nat
  BY StampAssumption, SMTT(60) DEF Stamp
<1>3. \E n \in free : \A u \in free : n <= u
  <2> HIDE DEF free
  <2> QED
    BY <1>1, <1>2, Smallest, ZenonT(60)
<1>4. artifactPath(start) \in free
  <2> HIDE DEF free
  <2> QED
    BY <1>1, <1>3, ZenonT(60)
<1> QED
  BY <1>4

LEMMA DataTypes == ASSUME Data, ServiceTypeOK, [Next]_vars PROVE Data'
<1>0. Len(pulses) \in 0 .. MaxPulses /\ pulses \in Seq(Pulse)
  BY MaxPulsesAssumption, SMTT(60) DEF ServiceTypeOK
<1>e. /\ <<>> \in Seq(Pulse) /\ <<>> \in Seq(Stamp) /\ Len(<<>>) <= ResultSlots
      /\ 0 \in 0 .. MaxPulses
  BY LimitAssumption, MaxPulsesAssumption, SMTT(60)
<1>1. ASSUME pc' \in Places, caller' \in {"thread", "verify"}, want' \in 0 .. MaxPulses,
             copy' \in Seq(Pulse), buf' \in Seq(Pulse),
             UNCHANGED <<stored, popped, results, files>>
      PROVE  Data'
  BY <1>1, ZenonT(60) DEF Data
<1>2. ASSUME UNCHANGED <<pc, caller, want, copy, buf>>,
             stored' \in Stamp \cup {NoStamp}, popped' \in Stamp \cup {NoStamp},
             results' \in Seq(Stamp), Len(results') <= ResultSlots,
             files' \in [Stamp -> {"none", "whole", "damaged"}]
      PROVE  Data'
  BY <1>2, ZenonT(60) DEF Data
<1> USE DEF Command, Stopped, Ready, thread, card, loop
<1>3. CASE CallThread
  BY <1>3, <1>e, ZenonT(60) DEF CallThread, Data
<1>4. CASE \/ \E why \in {"stopped", "expired", "capture_error"} : StopThread(why)
           \/ ReplayLast \/ CarrierCommand \/ \E t \in Stamp : ReplayFile(t)
           \/ Interrupt \/ Clock \/ UNCHANGED vars
  <2>1. UNCHANGED <<pc, caller, want, copy, buf, stored, popped, results, files>>
    BY <1>4, ZenonT(60)
       DEF StopThread, ReplayLast, CarrierCommand, ReplayFile, Interrupt, Clock, vars
  <2> QED
    BY <2>1, ZenonT(60) DEF Data
<1>5. CASE PopResult
  <2>1. Head(results) \in Stamp /\ Tail(results) \in Seq(Stamp) /\ Len(Tail(results)) <= ResultSlots
    <3>1. results \in Seq(Stamp) /\ results # <<>> /\ Len(results) <= ResultSlots
      BY <1>5 DEF PopResult, Data
    <3> QED
      BY <3>1, LimitAssumption, SMTT(60)
  <2> QED
    BY <1>5, <2>1, ZenonT(60) DEF PopResult, Data
<1>6. ASSUME NEW t \in Stamp, RemoveFile(t) PROVE Data'
  <2>1. files' \in [Stamp -> {"none", "whole", "damaged"}]
    BY <1>6, SMTT(60) DEF RemoveFile, Data
  <2> QED
    BY <1>6, <2>1, ZenonT(60) DEF RemoveFile, Data
<1>7. CASE StepReady \/ ReplayHeard \/ ReplayUnheard \/ ReplayFailed
  BY <1>1, <1>7, <1>e, ZenonT(60)
     DEF StepReady, ReplayHeard, ReplayUnheard, ReplayFailed, Data, Places
<1>8. CASE CompareTimes \/ CountPulses
  BY <1>0, <1>1, <1>8, ZenonT(60) DEF CompareTimes, CountPulses, Data, Places
<1>9. CASE CopyPulse
  <2>1. copy \in Seq(Pulse) /\ buf \in Seq(Pulse)
    BY DEF Data
  <2>2. Len(copy) < Len(pulses) => Append(copy, pulses[Len(copy) + 1]) \in Seq(Pulse)
    BY <1>0, <2>1, SMTT(60)
  <2>3. copy \o SubSeq(buf, Len(copy) + 1, Len(buf)) \in Seq(Pulse)
    BY <2>1, SMTT(60)
  <2> QED
    BY <1>1, <1>9, <2>1, <2>2, <2>3, ZenonT(60) DEF CopyPulse, Data, Places
<1>10. CASE CopyDone \/ VerifyCopied \/ VerifyLast \/ Rearm
  BY <1>1, <1>10, ZenonT(60) DEF CopyDone, VerifyCopied, VerifyLast, Rearm, Data, Places
<1>11. CASE Compare
  BY <1>1, <1>11, <1>e, ZenonT(60) DEF Compare, Data, Places
<1>12. CASE StoreCapture
  <2>1. PICK start \in Stamp : 
          LET t == artifactPath(start) IN
          IF t = NoStamp
            THEN stored' = NoStamp /\ UNCHANGED files
            ELSE \E o \in StoreOutcome(t), S \in SUBSET Existing :
                   /\ o[2] = "none" => S = {}
                   /\ stored' = o[1]
                   /\ files' = [Damage(files, S) EXCEPT ![t] = IF o[2] = "none" THEN @ ELSE o[2]]
    BY <1>12 DEF StoreCapture
  <2>2. stored' \in Stamp \cup {NoStamp} /\ files' \in [Stamp -> {"none", "whole", "damaged"}]
    <3>1. CASE artifactPath(start) = NoStamp
      BY <2>1, <3>1 DEF Data
    <3>2. CASE artifactPath(start) # NoStamp
      <4>1. artifactPath(start) \in Stamp
        BY <3>2, PathFree
      <4>2. PICK o \in StoreOutcome(artifactPath(start)), S \in SUBSET Existing :
              /\ stored' = o[1]
              /\ files' = [Damage(files, S) EXCEPT ![artifactPath(start)] = IF o[2] = "none" THEN @ ELSE o[2]]
        BY <2>1, <3>2
      <4>3. o[1] \in Stamp \cup {NoStamp} /\ o[2] \in {"none", "whole", "damaged"}
        BY <4>1 DEF StoreOutcome
      <4>4. Damage(files, S) \in [Stamp -> {"none", "whole", "damaged"}]
        BY SMTT(60) DEF Damage, Data
      <4> QED
        BY <4>1, <4>2, <4>3, <4>4, SMTT(60)
    <3> QED
      BY <3>1, <3>2
  <2> QED
    BY <1>12, <2>2, ZenonT(60) DEF StoreCapture, Data, Places
<1>13. CASE Publish
  <2>1. stored # NoStamp => stored \in Stamp
    BY DEF Data
  <2>2. results \in Seq(Stamp) /\ Len(results) <= ResultSlots
    BY DEF Data
  <2> DEFINE kept == IF Len(results) < ResultSlots THEN results ELSE Tail(results)
  <2>3. stored # NoStamp => Append(kept, stored) \in Seq(Stamp) /\ Len(Append(kept, stored)) <= ResultSlots
    <3>1. kept \in Seq(Stamp) /\ Len(kept) < ResultSlots
      BY <2>2, LimitAssumption, SMTT(60)
    <3> HIDE DEF kept
    <3> QED
      BY <2>1, <3>1, LimitAssumption, SMTT(60)
  <2>4. results' = IF stored = NoStamp THEN results ELSE Append(kept, stored)
    BY <1>13, ZenonT(60) DEF Publish
  <2>5. results' \in Seq(Stamp) /\ Len(results') <= ResultSlots
    <3> HIDE DEF kept
    <3> QED
      BY <2>2, <2>3, <2>4, ZenonT(60)
  <2> QED
    BY <1>13, <1>e, <2>5, ZenonT(60) DEF Publish, Data, Places
<1>14. CASE Remember
  <2>1. files' \in [Stamp -> {"none", "whole", "damaged"}]
    <3>1. \A S : Damage(files, S) \in [Stamp -> {"none", "whole", "damaged"}]
      BY SMTT(60) DEF Damage, Data
    <3>2. UNCHANGED files \/ \E S : files' = Damage(files, S)
      BY <1>14, ZenonT(60) DEF Remember
    <3> QED
      BY <3>1, <3>2 DEF Data
  <2> QED
    BY <1>14, <2>1, ZenonT(60) DEF Remember, Data
<1> QED
  BY <1>3, <1>4, <1>5, <1>6, <1>7, <1>8, <1>9, <1>10, <1>11, <1>12, <1>13, <1>14, ZenonT(60) DEF Next

\* Every variable keeps its type; the pulse buffer and the result queue never
\* outgrow their sizes, whatever arrives on the wire.
THEOREM TypeCorrect == Spec => []TypeOK
<1>1. Init => ServiceTypeOK /\ Flags /\ Data
  <2> SUFFICES ASSUME Init PROVE ServiceTypeOK /\ Flags /\ Data
    OBVIOUS
  <2>1. /\ quiet \in 0 .. Idle /\ burst \in 0 .. 1 /\ age \in 0 .. Idle
        /\ pulses \in Seq(Pulse) /\ Len(pulses) <= MaxPulses
    BY IdleAssumption, MaxPulsesAssumption, SMTT(60) DEF Init, ServiceInit
  <2>2. ServiceTypeOK
    BY <2>1, ZenonT(60) DEF Init, ServiceInit, ServiceTypeOK
  <2>3. Flags
    BY ZenonT(60) DEF Init, Flags
  <2>4. Data
    <3>1. /\ copy \in Seq(Pulse) /\ buf \in Seq(Pulse) /\ want \in 0 .. MaxPulses
          /\ results \in Seq(Stamp) /\ Len(results) <= ResultSlots
          /\ files \in [Stamp -> {"none", "whole", "damaged"}]
      BY LimitAssumption, MaxPulsesAssumption, SMTT(60) DEF Init
    <3> QED
      BY <3>1, ZenonT(60) DEF Init, Data, Places
  <2> QED
    BY <2>2, <2>3, <2>4
<1>2. ServiceTypeOK /\ Flags /\ Data /\ [Next]_vars => (ServiceTypeOK /\ Flags /\ Data)'
  BY ServiceTypes, FlagTypes, DataTypes
<1>3. ServiceTypeOK /\ Flags /\ Data => TypeOK
  BY DEF Flags, Data, Places, TypeOK
<1> QED
  BY <1>1, <1>2, <1>3, PTL DEF Spec

(***************************************************************************)
(* The frame.  FrameHeldWhileRead needs that a frame, or a pulse, is there *)
(* only while the capture is active, that comparing the times starts with  *)
(* such a capture, and that a copy starts empty.                           *)
(***************************************************************************)
ActiveOK ==
  /\ captureFrameReady \/ pulses # <<>> => captureActive
  /\ pc = "compare_times" => captureActive

HeldOK ==
  /\ pc \in {"count", "copy", "store", "rearm"} => captureActive /\ captureFrameReady
  /\ pc \in {"compare_times", "count"} => copy = <<>>

Prefix == Len(copy) <= Len(pulses) /\ \A i \in 1 .. Len(copy) : copy[i] = pulses[i]

CopyOK == pc \in {"copy", "store", "rearm"} => want = Len(pulses) /\ Prefix

RepliesOK == reply \notin {"copy_failed", "rearm_failed"}

FrameInv == ActiveOK /\ HeldOK /\ CopyOK /\ RepliesOK

\* Operations that keep or end a capture.
LEMMA ActiveKept ==
  ASSUME ActiveOK, pc' # "compare_times" \/ UNCHANGED <<pc, captureActive>>,
         captureEdge \/ captureStop \/ captureRestart \/ rearmEmpty \/ rearmAttach \/ UNCHANGED service
  PROVE  ActiveOK'
<1>1. CASE captureEdge
  BY <1>1, ZenonT(60) DEF ActiveOK, captureEdge, service
<1>2. CASE captureStop \/ captureRestart \/ rearmEmpty
  BY <1>2, ZenonT(60) DEF ActiveOK, captureStop, captureRestart, rearmEmpty
<1>3. CASE rearmAttach \/ UNCHANGED service
  <2>1. UNCHANGED <<captureActive, captureFrameReady, pulses>>
    BY <1>3 DEF rearmAttach, service
  <2>2. captureFrameReady' \/ pulses' # <<>> => captureActive'
    BY <2>1 DEF ActiveOK
  <2>3. pc' = "compare_times" => captureActive'
    BY <2>1, ZenonT(60) DEF ActiveOK
  <2> QED
    BY <2>2, <2>3 DEF ActiveOK
<1> QED
  BY <1>1, <1>2, <1>3

\* An interrupt leaves a frame alone that is ready.
LEMMA Quiescent ==
  ASSUME captureFrameReady, captureEdge
  PROVE  UNCHANGED service
  BY ZenonT(60) DEF captureEdge

LEMMA EdgeKeepsActive == ASSUME captureEdge PROVE UNCHANGED captureActive
  BY ZenonT(60) DEF captureEdge, service

LEMMA FrameStep == ASSUME TypeOK, FrameInv, [Next]_vars PROVE FrameInv'
<1> USE DEF FrameInv, loop, thread, card
<1>1. CASE Interrupt
  <2>1. captureEdge /\ UNCHANGED <<pc, copy, want>> /\ reply' = NoReply
    BY <1>1 DEF Interrupt, Edge
  <2>2. ActiveOK'
    BY <2>1, ActiveKept, EdgeKeepsActive
  <2>3. pc \in {"count", "copy", "store", "rearm"} => UNCHANGED service
    BY <2>1, Quiescent, ZenonT(60) DEF HeldOK
  <2>4. HeldOK' /\ CopyOK'
    BY <2>1, <2>3, ZenonT(60) DEF HeldOK, CopyOK, Prefix, service
  <2> QED
    BY <2>1, <2>2, <2>4, ZenonT(60) DEF RepliesOK, NoReply
<1>2. CASE Clock
  <2>1. UNCHANGED <<pc, copy, want, captureActive, captureFrameReady, pulses>> /\ reply' = NoReply
    BY <1>2 DEF Clock, Time
  <2> QED
    BY <2>1, ZenonT(60) DEF ActiveOK, HeldOK, CopyOK, Prefix, RepliesOK, NoReply
<1>3. CASE UNCHANGED vars
  <2>1. UNCHANGED <<pc, copy, want, captureActive, captureFrameReady, pulses, reply>>
    BY <1>3 DEF vars, service
  <2> QED
    BY <2>1, ZenonT(60) DEF ActiveOK, HeldOK, CopyOK, Prefix, RepliesOK
<1>4. ASSUME pc' \in {"loop", "replaying", "compare", "rearm_attach"},
             captureEdge \/ captureStop \/ captureRestart \/ rearmEmpty \/ rearmAttach \/ UNCHANGED service,
             RepliesOK'
      PROVE  FrameInv'
  <2>1. ActiveOK'
    BY <1>4, ActiveKept
  <2> QED
    BY <1>4, <2>1, ZenonT(60) DEF HeldOK, CopyOK
<1>5. CASE CallThread \/ \E why \in {"stopped", "expired", "capture_error"} : StopThread(why)
  BY <1>4, <1>5, ZenonT(60) DEF CallThread, StopThread, Command, Stopped, RepliesOK
<1>6. CASE ReplayLast \/ CarrierCommand \/ PopResult
  BY <1>4, <1>6, ZenonT(60)
     DEF ReplayLast, CarrierCommand, PopResult, Command, Stopped, RepliesOK, Replayed
<1>7. CASE Remember
  BY <1>4, <1>7, ZenonT(60) DEF Remember, Command, RepliesOK, RememberReply
<1>8. CASE \E t \in Stamp : ReplayFile(t) \/ RemoveFile(t)
  BY <1>4, <1>8, ZenonT(60) DEF ReplayFile, RemoveFile, Command, RepliesOK, Replayed
<1>9. CASE StepReady \/ ReplayHeard
  <2>1. /\ copy' = <<>> /\ UNCHANGED service /\ reply' = NoReply
        /\ \/ captureFrameReady /\ pc' = "count"
           \/ pulses # <<>> /\ pc' = "compare_times"
    BY <1>9, ZenonT(60) DEF StepReady, ReplayHeard, Ready
  <2> QED
    BY <2>1, ZenonT(60) DEF ActiveOK, HeldOK, CopyOK, RepliesOK, NoReply, service
<1>10. CASE CompareTimes
  <2>1. /\ captureActive /\ copy = <<>> /\ copy' = copy /\ reply' = NoReply
        /\ pc' \in {"count", "loop", "compare"} /\ UNCHANGED <<captureActive, pulses>>
        /\ pc' = "count" => captureFrameReady'
    BY <1>10, ZenonT(60) DEF CompareTimes, ActiveOK, HeldOK, closeFrame, service
  <2> QED
    BY <2>1, ZenonT(60) DEF ActiveOK, HeldOK, CopyOK, RepliesOK, NoReply
<1>11. CASE CountPulses
  <2>1. captureActive /\ captureFrameReady /\ copy = <<>> /\ copy' = copy /\ want' = Len(pulses)
    BY <1>11, ZenonT(60) DEF CountPulses, HeldOK
  <2>2. CASE pc' = "loop" /\ captureStop /\ reply' = "overflow"
    BY <1>4, <2>2, ZenonT(60) DEF RepliesOK
  <2>3. CASE pc' = "copy" /\ UNCHANGED service /\ reply' = NoReply
    <3>1. Len(pulses) \in Nat /\ pulses' = pulses
      BY <2>3 DEF TypeOK, ServiceTypeOK, service
    <3>2. Prefix'
      BY <2>1, <3>1, SMTT(60) DEF Prefix
    <3> QED
      BY <2>1, <2>3, <3>1, <3>2, ZenonT(60) DEF ActiveOK, HeldOK, CopyOK, RepliesOK, NoReply, service
  <2> QED
    BY <1>11, <2>2, <2>3, ZenonT(60) DEF CountPulses
<1>12. CASE CopyPulse
  <2>1. captureActive /\ captureFrameReady /\ Len(copy) < want /\ want = Len(pulses) /\ Prefix
    BY <1>12, ZenonT(60) DEF CopyPulse, HeldOK, CopyOK
  <2>2. /\ copy' = Append(copy, pulses[Len(copy) + 1]) /\ UNCHANGED <<pc, service, want>>
        /\ reply' = NoReply
    BY <1>12, <2>1, ZenonT(60) DEF CopyPulse
  <2>3. copy \in Seq(Pulse) /\ pulses \in Seq(Pulse)
    BY DEF TypeOK, ServiceTypeOK
  <2>4. Prefix'
    BY <2>1, <2>2, <2>3, SMTT(60) DEF Prefix, service
  <2> QED
    BY <1>12, <2>1, <2>2, <2>4, ZenonT(60)
       DEF CopyPulse, ActiveOK, HeldOK, CopyOK, RepliesOK, NoReply, service
<1>13. CASE CopyDone \/ StoreCapture
  <2>1. /\ pc \in {"copy", "store"} /\ pc' \in {"store", "rearm"}
        /\ UNCHANGED <<service, copy, want>> /\ reply' = NoReply
    BY <1>13, ZenonT(60) DEF CopyDone, StoreCapture
  <2> QED
    BY <2>1, ZenonT(60) DEF ActiveOK, HeldOK, CopyOK, Prefix, RepliesOK, NoReply, service
<1>14. CASE Rearm
  <2>1. captureActive
    BY <1>14, ZenonT(60) DEF Rearm, HeldOK
  <2> QED
    BY <1>4, <1>14, <2>1, ZenonT(60) DEF Rearm, RepliesOK, NoReply
<1>15. CASE Publish
  BY <1>4, <1>15, ZenonT(60) DEF Publish, RepliesOK
<1>16. CASE VerifyLast \/ ReplayFailed \/ ReplayUnheard \/ VerifyCopied \/ Compare
  BY <1>4, <1>16, ZenonT(60)
     DEF VerifyLast, ReplayFailed, ReplayUnheard, VerifyCopied, Compare, Command, RepliesOK, NoReply
<1> QED
  BY <1>1, <1>2, <1>3, <1>5, <1>6, <1>7, <1>8, <1>9, <1>10, <1>11, <1>12, <1>13, <1>14, <1>15, <1>16,
     ZenonT(60) DEF Next

LEMMA FrameInvariant == Spec => []FrameInv
<1>1. Init => FrameInv
  BY ZenonT(60)
     DEF Init, ServiceInit, FrameInv, ActiveOK, HeldOK, CopyOK, RepliesOK, NoReply
<1> QED
  BY <1>1, FrameStep, TypeCorrect, PTL DEF Spec

\* Whatever the wire does while the loop reads a frame, the frame that is
\* stored is the one that was counted, the copy never fails and rearming
\* never finds the capture stopped.
THEOREM FrameIsHeld == Spec => []FrameHeldWhileRead
<1>1. TypeOK /\ FrameInv => FrameHeldWhileRead
  <2> SUFFICES ASSUME TypeOK, FrameInv PROVE FrameHeldWhileRead
    OBVIOUS
  <2>1. Prefix => copy = SubSeq(pulses, 1, Len(copy))
    <3>1. copy \in Seq(Pulse) /\ pulses \in Seq(Pulse)
      BY DEF TypeOK, ServiceTypeOK
    <3> QED
      BY <3>1, SMTT(60) DEF Prefix
  <2> QED
    BY <2>1, ZenonT(60) DEF FrameInv, HeldOK, CopyOK, RepliesOK, FrameHeldWhileRead
<1> QED
  BY <1>1, FrameInvariant, TypeCorrect, PTL

(***************************************************************************)
(* One transmission.  While pulses are collected the age that the service  *)
(* measures is the time the wire has been quiet, so a new transmission is  *)
(* seen as an idle gap.  An edge between emptying and attaching is the one *)
(* exception, harmless because rearming then starts the age at that edge.  *)
(***************************************************************************)
Collecting == pulses # <<>> /\ captureFrameReady = FALSE
Uniform(f) == \A i, j \in 1 .. Len(f) : f[i].burst = f[j].burst

WireOK ==
  /\ Collecting => attached = TRUE /\ quiet = age /\ \A i \in 1 .. Len(pulses) : pulses[i].burst = burst
  /\ Collecting /\ pc = "rearm_attach" => quiet = 0

BurstInv == WireOK /\ Uniform(pulses) /\ Uniform(copy) /\ Uniform(buf)

LEMMA UniformEmpty == Uniform(<<>>)
  BY SMTT(60) DEF Uniform

LEMMA EdgeBurst ==
  ASSUME TypeOK, FrameInv, BurstInv, Interrupt
  PROVE  WireOK' /\ Uniform(pulses)'
<1>0. /\ quiet \in 0 .. Idle /\ burst \in 0 .. 1 /\ age \in 0 .. Idle /\ pulses \in Seq(Pulse)
      /\ captureFrameReady \in BOOLEAN
  BY ZenonT(60) DEF TypeOK, ServiceTypeOK
<1>1. /\ captureEdge /\ quiet' = 0 /\ burst' = IF quiet = Idle THEN 1 - burst ELSE burst
      /\ pc' = pc
  BY DEF Interrupt, Edge
<1>2. Collecting => attached /\ captureActive
  BY ZenonT(60) DEF BurstInv, WireOK, Collecting, FrameInv, ActiveOK
<1>3. CASE ~attached \/ ~captureActive \/ captureFrameReady
  <2>1. UNCHANGED <<pulses, captureFrameReady>>
    BY <1>1, <1>3, ZenonT(60) DEF captureEdge, service
  <2>2. ~Collecting
    BY <1>2, <1>3, ZenonT(60) DEF Collecting
  <2> QED
    BY <2>1, <2>2, ZenonT(60) DEF Collecting, WireOK, BurstInv, Uniform
<1>4. CASE ~(~attached \/ ~captureActive \/ captureFrameReady) /\ age >= Idle
  <2>1. UNCHANGED pulses /\ captureFrameReady' = (pulses # <<>>)
    BY <1>1, <1>4, ZenonT(60) DEF captureEdge
  <2>2. ~Collecting'
    BY <2>1, ZenonT(60) DEF Collecting
  <2> QED
    BY <2>1, <2>2, ZenonT(60) DEF Collecting, WireOK, BurstInv, Uniform
<1>5. CASE ~(~attached \/ ~captureActive \/ captureFrameReady) /\ ~(age >= Idle)
  <2>1. /\ age' = 0 /\ UNCHANGED <<attached, captureFrameReady>>
        /\ UNCHANGED pulses \/ pulses' = Append(pulses, [dur |-> age, burst |-> burst'])
    BY <1>1, <1>5, ZenonT(60) DEF captureEdge
  <2>2. captureFrameReady = FALSE /\ attached = TRUE
    <3>1. attached \in BOOLEAN
      BY ZenonT(60) DEF TypeOK, ServiceTypeOK
    <3> QED
      BY <1>0, <1>5, <3>1, ZenonT(60)
  <2>3. pulses # <<>> => burst' = burst /\ \A i \in 1 .. Len(pulses) : pulses[i].burst = burst'
    <3>1. pulses # <<>> => quiet = age /\ \A i \in 1 .. Len(pulses) : pulses[i].burst = burst
      BY <2>2, ZenonT(60) DEF BurstInv, WireOK, Collecting
    <3>2. age < Idle
      BY <1>0, <1>5, IdleAssumption, SMTT(60)
    <3>3. pulses # <<>> => burst' = burst
      BY <1>0, <1>1, <3>1, <3>2, IdleAssumption, SMTT(60)
    <3> QED
      BY <3>1, <3>3, ZenonT(60)
  <2>4. \A i \in 1 .. Len(pulses') : pulses'[i].burst = burst'
    <3>1. CASE pulses = <<>>
      BY <2>1, <3>1, SMTT(60)
    <3>2. CASE pulses # <<>>
      BY <1>0, <2>1, <2>3, <3>2, SMTT(60)
    <3> QED
      BY <3>1, <3>2
  <2> QED
    BY <1>1, <2>1, <2>2, <2>4, ZenonT(60) DEF WireOK, Uniform
<1> QED
  BY <1>3, <1>4, <1>5

LEMMA CopyBurst ==
  ASSUME TypeOK, FrameInv, BurstInv, CopyPulse
  PROVE  Uniform(copy)' /\ UNCHANGED <<buf, service, pc, wire>>
<1>1. captureActive /\ captureFrameReady /\ Len(copy) < want /\ want = Len(pulses) /\ Prefix
  BY ZenonT(60) DEF CopyPulse, FrameInv, HeldOK, CopyOK
<1>2. copy' = Append(copy, pulses[Len(copy) + 1]) /\ UNCHANGED <<pc, service, buf, wire>>
  BY <1>1, ZenonT(60) DEF CopyPulse
<1>3. copy \in Seq(Pulse) /\ pulses \in Seq(Pulse)
  BY DEF TypeOK, ServiceTypeOK
<1>4. Len(copy') <= Len(pulses) /\ \A i \in 1 .. Len(copy') : copy'[i] = pulses[i]
  BY <1>1, <1>2, <1>3, SMTT(60) DEF Prefix
<1>5. Len(copy') \in Nat /\ Len(pulses) \in Nat
  BY <1>1, <1>2, <1>3, SMTT(60)
<1>6. Uniform(pulses)
  BY DEF BurstInv
<1>7. \A i, j \in 1 .. Len(copy') : copy'[i].burst = copy'[j].burst
  BY <1>4, <1>5, <1>6, SMTT(60) DEF Uniform
<1> QED
  BY <1>2, <1>7 DEF Uniform

LEMMA BurstStep == ASSUME TypeOK, FrameInv, BurstInv, [Next]_vars PROVE BurstInv'
<1> USE DEF BurstInv, loop, thread, card
<1>1. CASE Interrupt
  <2>1. UNCHANGED <<copy, buf>>
    BY <1>1 DEF Interrupt
  <2> QED
    BY <1>1, <2>1, EdgeBurst, ZenonT(60) DEF Uniform
<1>2. CASE Clock
  <2>1. /\ pc # "rearm_attach" /\ quiet' = Older(quiet) /\ age' = Older(age)
        /\ UNCHANGED <<pc, copy, buf, burst, attached, captureFrameReady, pulses>>
    BY <1>2 DEF Clock, Time
  <2>2. WireOK'
    BY <2>1, ZenonT(60) DEF WireOK, Collecting
  <2> QED
    BY <2>1, <2>2, ZenonT(60) DEF Uniform
<1>3. ASSUME UNCHANGED <<wire, service>>, pc' # "rearm_attach",
             UNCHANGED <<copy, buf>> \/ (Uniform(copy)' /\ Uniform(buf)')
      PROVE  BurstInv'
  BY <1>3, ZenonT(60) DEF WireOK, Collecting, Uniform, wire, service
<1>4. ASSUME pulses' = <<>> \/ (UNCHANGED pulses /\ captureFrameReady' = TRUE),
             UNCHANGED <<copy, buf>> \/ (Uniform(copy)' /\ Uniform(buf)')
      PROVE  BurstInv'
  <2>1. ~Collecting'
    BY <1>4, ZenonT(60) DEF Collecting
  <2>2. WireOK'
    BY <2>1, ZenonT(60) DEF WireOK, Collecting
  <2>3. Uniform(pulses)'
    <3>1. CASE pulses' = <<>>
      BY <3>1, UniformEmpty
    <3>2. CASE pulses' = pulses
      BY <3>2 DEF Uniform
    <3> QED
      BY <1>4, <3>1, <3>2
  <2>4. (Uniform(copy) /\ Uniform(buf))'
    BY <1>4 DEF Uniform
  <2> QED
    BY <2>2, <2>3, <2>4
<1>5. CASE UNCHANGED vars
  BY <1>5, ZenonT(60) DEF vars, WireOK, Collecting, Uniform, wire, service
<1>6. CASE CallThread
  <2>1. pulses' = <<>> /\ copy' = copy /\ buf' = <<>>
    BY <1>6 DEF CallThread, captureRestart
  <2> QED
    BY <1>4, <2>1, UniformEmpty, ZenonT(60) DEF Uniform
<1>7. CASE ReplayLast \/ \E why \in {"stopped", "expired", "capture_error"} : StopThread(why)
  BY <1>4, <1>7, ZenonT(60) DEF ReplayLast, StopThread, Stopped, captureStop
<1>8. CASE CarrierCommand \/ PopResult \/ Remember \/ \E t \in Stamp : ReplayFile(t) \/ RemoveFile(t)
  <2>1. UNCHANGED <<wire, service, pc, copy, buf>> /\ pc = "loop"
    BY <1>8, ZenonT(60) DEF CarrierCommand, PopResult, Remember, ReplayFile, RemoveFile, Command
  <2> QED
    BY <1>3, <2>1, ZenonT(60)
<1>9. CASE StepReady \/ ReplayHeard \/ ReplayUnheard
  <2>1. /\ UNCHANGED <<wire, service, buf>> /\ copy' = <<>>
        /\ pc' \in {"count", "compare_times", "compare"}
    BY <1>9, ZenonT(60) DEF StepReady, ReplayHeard, ReplayUnheard, Ready, Command
  <2> QED
    BY <1>3, <2>1, UniformEmpty, ZenonT(60) DEF Uniform
<1>10. CASE CompareTimes
  <2>1. /\ UNCHANGED <<wire, copy, buf>> /\ pc' # "rearm_attach"
        /\ closeFrame \/ UNCHANGED service
    BY <1>10, ZenonT(60) DEF CompareTimes
  <2> QED
    BY <1>3, <1>4, <2>1, ZenonT(60) DEF closeFrame
<1>11. CASE CountPulses
  <2>1. /\ UNCHANGED <<wire, copy, buf>> /\ pc' # "rearm_attach"
        /\ captureStop \/ UNCHANGED service
    BY <1>11, ZenonT(60) DEF CountPulses
  <2> QED
    BY <1>3, <1>4, <2>1, ZenonT(60) DEF captureStop
<1>12. CASE CopyPulse
  <2>1. pc' # "rearm_attach" /\ UNCHANGED <<wire, service, buf>> /\ Uniform(copy)'
    BY <1>12, CopyBurst, ZenonT(60) DEF CopyPulse
  <2> QED
    BY <1>3, <2>1, ZenonT(60) DEF Uniform
<1>13. CASE CopyDone
  <2>1. pc' # "rearm_attach" /\ UNCHANGED <<wire, service, copy>> /\ buf' = copy
    BY <1>13, ZenonT(60) DEF CopyDone
  <2> QED
    BY <1>3, <2>1, ZenonT(60) DEF Uniform
<1>14. CASE StoreCapture \/ VerifyCopied
  <2>1. pc' # "rearm_attach" /\ UNCHANGED <<wire, service, copy, buf>>
    BY <1>14, ZenonT(60) DEF StoreCapture, VerifyCopied
  <2> QED
    BY <1>3, <2>1, ZenonT(60)
<1>15. CASE Rearm
  BY <1>4, <1>15, ZenonT(60) DEF Rearm, rearmEmpty, Stopped, captureStop
<1>16. CASE Publish
  <2>1. /\ pc = "rearm_attach" /\ pc' = "loop" /\ copy' = <<>> /\ UNCHANGED <<wire, buf>>
        /\ age' = 0 /\ attached' = TRUE /\ UNCHANGED <<captureFrameReady, pulses>>
    BY <1>16 DEF Publish, rearmAttach
  <2>2. WireOK'
    BY <2>1, ZenonT(60) DEF WireOK, Collecting, wire
  <2> QED
    BY <2>1, <2>2, UniformEmpty, ZenonT(60) DEF Uniform
<1>17. CASE VerifyLast \/ ReplayFailed
  <2>1. pulses' = <<>> /\ UNCHANGED <<copy, buf>>
    BY <1>17, ZenonT(60) DEF VerifyLast, ReplayFailed, captureStop, captureRestart
  <2> QED
    BY <1>4, <2>1, ZenonT(60)
<1>18. CASE Compare
  <2>1. pulses' = <<>> /\ copy' = <<>> /\ buf' = buf
    BY <1>18 DEF Compare, captureStop
  <2> QED
    BY <1>4, <2>1, UniformEmpty, ZenonT(60) DEF Uniform
<1> QED
  BY <1>1, <1>2, <1>5, <1>6, <1>7, <1>8, <1>9, <1>10, <1>11, <1>12, <1>13, <1>14, <1>15, <1>16, <1>17,
     <1>18, ZenonT(60) DEF Next

\* For every idle time and buffer size, and however edges fall between the
\* loop's steps, no frame mixes two transmissions.
THEOREM FramesDoNotMix == Spec => []OneTransmission
<1>1. Init => BurstInv
  <2> SUFFICES ASSUME Init PROVE BurstInv
    OBVIOUS
  <2>1. pulses = <<>> /\ copy = <<>> /\ buf = <<>>
    BY DEF Init, ServiceInit
  <2> QED
    BY <2>1, UniformEmpty, ZenonT(60) DEF BurstInv, WireOK, Collecting
<1>2. TypeOK /\ BurstInv => OneTransmission
  <2> SUFFICES ASSUME TypeOK, BurstInv PROVE OneTransmission
    OBVIOUS
  <2>1. pulses \in Seq(Pulse) /\ copy \in Seq(Pulse) /\ buf \in Seq(Pulse)
    BY DEF TypeOK, ServiceTypeOK
  <2>2. \A f \in Seq(Pulse) : Uniform(f) => \A i, j \in DOMAIN f : f[i].burst = f[j].burst
    BY SMTT(60) DEF Uniform
  <2> QED
    BY <2>1, <2>2, ZenonT(60) DEF BurstInv, OneTransmission
<1> QED
  BY <1>1, <1>2, BurstStep, FrameInvariant, TypeCorrect, PTL DEF Spec

(***************************************************************************)
(* The card.  Between the read back of a file and its record no step       *)
(* writes to the card.                                                     *)
(***************************************************************************)
StoredOK == pc \in {"rearm", "rearm_attach"} /\ stored # NoStamp => files[stored] = "whole"

NeverMended == \A t \in Stamp : files[t] = "damaged" => files'[t] # "whole"

Acknowledged ==
  /\ pc = "rearm_attach" /\ reply' = "frame" => files'[stored] = "whole"
  /\ reply' \in {"remembered", "remembered_in_torn_line"} => files'[popped] = "whole"
  /\ NeverMended

Unacknowledged == reply' \notin {"frame", "remembered", "remembered_in_torn_line"}

LEMMA StoreWhole == ASSUME TypeOK, StoreCapture PROVE StoredOK' /\ NeverMended
<1>1. PICK start \in Stamp :
        LET t == artifactPath(start) IN
        IF t = NoStamp
          THEN stored' = NoStamp /\ UNCHANGED files
          ELSE \E o \in StoreOutcome(t), S \in SUBSET Existing :
                 /\ o[2] = "none" => S = {}
                 /\ stored' = o[1]
                 /\ files' = [Damage(files, S) EXCEPT ![t] = IF o[2] = "none" THEN @ ELSE o[2]]
  BY DEF StoreCapture
<1>2. CASE artifactPath(start) = NoStamp
  BY <1>1, <1>2, ZenonT(60) DEF StoredOK, NeverMended
<1>3. CASE artifactPath(start) # NoStamp
  <2> DEFINE t == artifactPath(start)
  <2>1. t \in Stamp /\ files[t] = "none"
    BY <1>3, PathFree
  <2>2. PICK o \in StoreOutcome(t), S \in SUBSET Existing :
          /\ stored' = o[1]
          /\ files' = [Damage(files, S) EXCEPT ![t] = IF o[2] = "none" THEN @ ELSE o[2]]
    BY <1>1, <1>3
  <2>3. o[1] # NoStamp => o[1] = t /\ o[2] = "whole"
    BY DEF StoreOutcome
  <2>4. Damage(files, S) = [u \in Stamp |-> IF u \in S THEN "damaged" ELSE files[u]]
    BY DEF Damage
  <2> HIDE DEF t
  <2>5. stored' # NoStamp => files'[stored'] = "whole"
    BY <2>1, <2>2, <2>3, <2>4, SMTT(60)
  <2>6. \A u \in Stamp : u # t => files'[u] = IF u \in S THEN "damaged" ELSE files[u]
    BY <2>1, <2>2, <2>4, SMTT(60)
  <2>7. NeverMended
    BY <2>1, <2>6, SMTT(60) DEF NeverMended
  <2> QED
    BY <2>5, <2>7 DEF StoredOK
<1> QED
  BY <1>2, <1>3

LEMMA CardStep ==
  ASSUME TypeOK, StoredOK, [Next]_vars
  PROVE  StoredOK' /\ (vars' = vars \/ Acknowledged)
<1> USE DEF Command, Stopped, Ready, loop, thread, card
<1>0. \A t \in Stamp : files[t] = "damaged" => files[t] # "whole"
  OBVIOUS
<1>1. ASSUME UNCHANGED files, Unacknowledged, UNCHANGED <<pc, stored>> \/ pc' \notin {"rearm", "rearm_attach"}
      PROVE  StoredOK' /\ Acknowledged
  BY <1>0, <1>1, ZenonT(60) DEF StoredOK, Acknowledged, NeverMended, Unacknowledged
<1>2. CASE UNCHANGED vars
  BY <1>2, ZenonT(60) DEF vars, StoredOK
<1>3. CASE Interrupt \/ Clock
  BY <1>1, <1>3, ZenonT(60) DEF Interrupt, Clock, Unacknowledged, NoReply
<1>4. CASE CallThread \/ \E why \in {"stopped", "expired", "capture_error"} : StopThread(why)
  BY <1>1, <1>4, ZenonT(60) DEF CallThread, StopThread, Unacknowledged
<1>5. CASE ReplayLast \/ CarrierCommand \/ PopResult \/ \E t \in Stamp : ReplayFile(t)
  BY <1>1, <1>5, ZenonT(60)
     DEF ReplayLast, CarrierCommand, PopResult, ReplayFile, Replayed, Unacknowledged
<1>6. ASSUME NEW t \in Stamp, RemoveFile(t) PROVE StoredOK' /\ Acknowledged
  <2>1. NeverMended
    BY <1>6, SMTT(60) DEF RemoveFile, NeverMended, TypeOK
  <2>2. pc' = "loop" /\ reply' = "deleted"
    BY <1>6 DEF RemoveFile
  <2> QED
    BY <2>1, <2>2, ZenonT(60) DEF StoredOK, Acknowledged
<1>7. CASE StepReady \/ ReplayHeard \/ ReplayUnheard \/ CompareTimes \/ CountPulses
  BY <1>1, <1>7, ZenonT(60)
     DEF StepReady, ReplayHeard, ReplayUnheard, CompareTimes, CountPulses, Unacknowledged, NoReply
<1>8. CASE CopyPulse
  BY <1>1, <1>8, ZenonT(60) DEF CopyPulse, Unacknowledged, NoReply
<1>9. CASE CopyDone \/ VerifyCopied \/ VerifyLast \/ ReplayFailed \/ Compare
  BY <1>1, <1>9, ZenonT(60)
     DEF CopyDone, VerifyCopied, VerifyLast, ReplayFailed, Compare, Unacknowledged, NoReply
<1>10. CASE StoreCapture
  <2>1. pc = "store" /\ reply' = NoReply
    BY <1>10 DEF StoreCapture
  <2> QED
    BY <1>10, <2>1, StoreWhole, ZenonT(60) DEF Acknowledged, NoReply
<1>11. CASE Rearm
  <2>1. pc = "rearm" /\ UNCHANGED <<stored, files>> /\ reply' \in {NoReply, "rearm_failed"}
    BY <1>11, ZenonT(60) DEF Rearm
  <2> QED
    BY <1>0, <2>1, ZenonT(60) DEF StoredOK, Acknowledged, NeverMended, NoReply
<1>12. CASE Publish
  <2>1. /\ pc = "rearm_attach" /\ pc' = "loop" /\ UNCHANGED files
        /\ reply' = IF stored = NoStamp THEN "store_failed" ELSE "frame"
    BY <1>12, ZenonT(60) DEF Publish
  <2> QED
    BY <1>0, <2>1, ZenonT(60) DEF StoredOK, Acknowledged, NeverMended
<1>13. CASE Remember
  <2>1. pc = "loop" /\ pc' = "loop" /\ popped \in Stamp
    BY <1>13 DEF Remember, TypeOK
  <2>2. CASE UNCHANGED files /\ reply' \in {"already_damaged", "cannot_open"}
    BY <1>0, <2>1, <2>2, ZenonT(60) DEF StoredOK, Acknowledged, NeverMended
  <2>3. ASSUME NEW short \in BOOLEAN, NEW S \in SUBSET Existing,
               files' = Damage(files, S), reply' = RememberReply(popped, files', short)
        PROVE  StoredOK' /\ Acknowledged
    <3>1. NeverMended
      BY <2>3, SMTT(60) DEF NeverMended, Damage
    <3>2. reply' \in {"remembered", "remembered_in_torn_line"} => files'[popped] = "whole"
      BY <2>3, ZenonT(60) DEF RememberReply
    <3> QED
      BY <2>1, <3>1, <3>2, ZenonT(60) DEF StoredOK, Acknowledged
  <2> QED
    BY <1>13, <2>2, <2>3, ZenonT(60) DEF Remember
<1> QED
  BY <1>2, <1>3, <1>4, <1>5, <1>6, <1>7, <1>8, <1>9, <1>10, <1>11, <1>12, <1>13, ZenonT(60) DEF Next

\* Whatever the card does to other captures, a record is published and an
\* entry acknowledged only for a capture that is whole at that moment.
THEOREM AcknowledgementsHold == Spec => AcknowledgedIsWhole
<1>1. Init => StoredOK
  BY DEF Init, StoredOK
<1>2. TypeOK /\ StoredOK /\ [Next]_vars => StoredOK' /\ [Acknowledged]_vars
  BY CardStep
<1>3. Acknowledged => /\ pc = "rearm_attach" /\ reply' = "frame" => files'[stored] = "whole"
                      /\ reply' \in {"remembered", "remembered_in_torn_line"} => files'[popped] = "whole"
                      /\ \A t \in Stamp : files[t] = "damaged" => files'[t] # "whole"
  BY DEF Acknowledged, NeverMended
<1> QED
  BY <1>1, <1>2, <1>3, TypeCorrect, PTL DEF Spec, AcknowledgedIsWhole
(***************************************************************************)
(* The alignment.  alignedPulses is a recursive function of two indices;   *)
(* the largest matching of two prefixes satisfies its equation, and there  *)
(* is one solution only (by least counterexample), so the two are equal.   *)
(***************************************************************************)
Pairs(a, b, i, j) == {p \in (1 .. i) \X (1 .. j) : Similar(a[p[1]], b[p[2]])}

Ahead(p, q) == p[1] < q[1] /\ p[2] < q[2]
InOrder(S) == \A p, q \in S : p = q \/ Ahead(p, q) \/ Ahead(q, p)

Matchings(a, b, i, j) == {S \in SUBSET Pairs(a, b, i, j) : InOrder(S)}
Sizes(a, b, i, j) == {Cardinality(S) : S \in Matchings(a, b, i, j)}
Best(a, b, i, j) == CHOOSE n \in Sizes(a, b, i, j) : \A m \in Sizes(a, b, i, j) : m <= n

LEMMA PairsFinite ==
  ASSUME NEW a, NEW b, NEW i \in Nat, NEW j \in Nat
  PROVE  IsFiniteSet(Pairs(a, b, i, j))
<1>1. IsFiniteSet(1 .. i) /\ IsFiniteSet(1 .. j)
  <2>1. 1 \in Int /\ i \in Int /\ j \in Int
    OBVIOUS
  <2> QED
    BY <2>1, FS_Interval
<1>2. IsFiniteSet((1 .. i) \X (1 .. j))
  BY <1>1, FS_Product
<1>3. Pairs(a, b, i, j) \in SUBSET ((1 .. i) \X (1 .. j))
  BY DEF Pairs
<1> QED
  BY <1>2, <1>3, FS_Subset

LEMMA MatchingFinite ==
  ASSUME NEW a, NEW b, NEW i \in Nat, NEW j \in Nat, NEW S \in Matchings(a, b, i, j)
  PROVE  /\ IsFiniteSet(S) /\ Cardinality(S) \in Nat
         /\ Cardinality(S) <= Cardinality(Pairs(a, b, i, j))
<1>1. S \in SUBSET Pairs(a, b, i, j)
  BY DEF Matchings
<1> QED
  BY <1>1, PairsFinite, FS_Subset, FS_CardinalityType, SMTT(60)

LEMMA Greatest ==
  ASSUME NEW T, T \subseteq Nat, T # {}, NEW n \in Nat, \A x \in T : x <= n
  PROVE  \E x \in T : \A y \in T : y <= x
<1> DEFINE U == {m \in Nat : n - m \in T}
<1>1. \A x \in T : n - x \in Nat /\ n - (n - x) = x
  BY SMTT(60)
<1>2. U # {} /\ U \subseteq Nat
  BY <1>1, ZenonT(60)
<1>3. PICK m \in U : \A k \in U : m <= k
  <2> HIDE DEF U
  <2> QED
    BY <1>2, Smallest, ZenonT(60)
<1>4. n - m \in T /\ m \in Nat
  BY <1>3
<1>5. ASSUME NEW y \in T PROVE y <= n - m
  <2>1. n - y \in U
    BY <1>1, ZenonT(60)
  <2>2. m <= n - y
    BY <1>3, <2>1, ZenonT(60)
  <2>3. y \in Nat
    OBVIOUS
  <2> HIDE DEF U
  <2> QED
    BY <1>4, <2>2, <2>3, SMTT(60)
<1> QED
  BY <1>4, <1>5, ZenonT(60)

LEMMA BestIs ==
  ASSUME NEW a, NEW b, NEW i \in Nat, NEW j \in Nat
  PROVE  /\ Best(a, b, i, j) \in Nat
         /\ \A S \in Matchings(a, b, i, j) : Cardinality(S) <= Best(a, b, i, j)
         /\ \E S \in Matchings(a, b, i, j) : Cardinality(S) = Best(a, b, i, j)
<1> DEFINE M == Matchings(a, b, i, j)
           Z == Sizes(a, b, i, j)
<1>1. {} \in M
  BY ZenonT(60) DEF Matchings, InOrder
<1>2. Z = {Cardinality(S) : S \in M}
  BY DEF Sizes
<1>3. \A S \in M : Cardinality(S) \in Nat /\ Cardinality(S) <= Cardinality(Pairs(a, b, i, j))
  BY MatchingFinite
<1>4. Cardinality(Pairs(a, b, i, j)) \in Nat
  BY PairsFinite, FS_CardinalityType
<1>5. Best(a, b, i, j) = CHOOSE n \in Z : \A m \in Z : m <= n
  BY DEF Best
<1> HIDE DEF M, Z
<1>6. Z # {} /\ Z \subseteq Nat /\ \A x \in Z : x <= Cardinality(Pairs(a, b, i, j))
  BY <1>1, <1>2, <1>3, ZenonT(60)
<1>7. \E x \in Z : \A y \in Z : y <= x
  BY <1>4, <1>6, Greatest, ZenonT(60)
<1>8. Best(a, b, i, j) \in Z /\ \A m \in Z : m <= Best(a, b, i, j)
  BY <1>5, <1>7, ZenonT(60)
<1> QED
  BY <1>2, <1>6, <1>8, ZenonT(60) DEF M

\* A matching of prefixes, and how far it reaches.
LEMMA MatchingIs ==
  ASSUME NEW a, NEW b, NEW i \in Nat, NEW j \in Nat, NEW S
  PROVE  S \in Matchings(a, b, i, j) <=>
           /\ InOrder(S)
           /\ \A p \in S : /\ p = <<p[1], p[2]>> /\ p[1] \in 1 .. i /\ p[2] \in 1 .. j
                           /\ Similar(a[p[1]], b[p[2]])
<1>1. \A p : p \in Pairs(a, b, i, j) <=>
               /\ p = <<p[1], p[2]>> /\ p[1] \in 1 .. i /\ p[2] \in 1 .. j
               /\ Similar(a[p[1]], b[p[2]])
  <2> SUFFICES ASSUME NEW p
               PROVE  p \in (1 .. i) \X (1 .. j) <=>
                        p = <<p[1], p[2]>> /\ p[1] \in 1 .. i /\ p[2] \in 1 .. j
    BY ZenonT(60) DEF Pairs
  <2> DEFINE A == 1 .. i
             B == 1 .. j
  <2> HIDE DEF A, B
  <2>1. p \in A \X B <=> p = <<p[1], p[2]>> /\ p[1] \in A /\ p[2] \in B
    OBVIOUS
  <2> QED
    BY <2>1 DEF A, B
<1> QED
  BY <1>1, ZenonT(60) DEF Matchings

LEMMA BestZero ==
  ASSUME NEW a, NEW b, NEW i \in Nat, NEW j \in Nat, i = 0 \/ j = 0
  PROVE  Best(a, b, i, j) = 0
<1>1. PICK S \in Matchings(a, b, i, j) : Cardinality(S) = Best(a, b, i, j)
  BY BestIs
<1>2. \A p \in S : p[1] \in 1 .. i /\ p[2] \in 1 .. j
  BY MatchingIs, ZenonT(60)
<1>3. \A k : ~(k \in 1 .. 0)
  BY SMTT(60)
<1>4. S = {}
  BY <1>2, <1>3, ZenonT(60)
<1> QED
  BY <1>1, <1>4, FS_EmptySet, SMTT(60)

\* A matching of longer prefixes may ignore what they add.
LEMMA BestGrows ==
  ASSUME NEW a, NEW b, NEW i \in Nat, NEW j \in Nat, NEW k \in Nat, NEW l \in Nat,
         i <= k, j <= l
  PROVE  Best(a, b, i, j) <= Best(a, b, k, l)
<1>1. PICK S \in Matchings(a, b, i, j) : Cardinality(S) = Best(a, b, i, j)
  BY BestIs
<1>2. \A n : (n \in 1 .. i => n \in 1 .. k) /\ (n \in 1 .. j => n \in 1 .. l)
  BY SMTT(60)
<1>3. S \in Matchings(a, b, k, l)
  <2>1. /\ InOrder(S)
        /\ \A p \in S : /\ p = <<p[1], p[2]>> /\ p[1] \in 1 .. i /\ p[2] \in 1 .. j
                        /\ Similar(a[p[1]], b[p[2]])
    BY MatchingIs, ZenonT(60)
  <2>2. \A p \in S : /\ p = <<p[1], p[2]>> /\ p[1] \in 1 .. k /\ p[2] \in 1 .. l
                     /\ Similar(a[p[1]], b[p[2]])
    BY <1>2, <2>1, ZenonT(60)
  <2> QED
    BY <2>1, <2>2, MatchingIs, ZenonT(60)
<1> QED
  BY <1>1, <1>3, BestIs, SMTT(60)

\* The pairs of a matching that end one side: at most one.
LEMMA OneEnds ==
  ASSUME NEW a, NEW b, NEW i \in Nat, NEW j \in Nat, NEW S \in Matchings(a, b, i, j),
         NEW p \in S, NEW q \in S, p[1] = i \/ p[2] = j, q[1] = i \/ q[2] = j
  PROVE  p = q
<1>1. /\ p[1] \in 1 .. i /\ p[2] \in 1 .. j /\ q[1] \in 1 .. i /\ q[2] \in 1 .. j
      /\ p = q \/ Ahead(p, q) \/ Ahead(q, p)
  BY MatchingIs, ZenonT(60) DEF InOrder
<1> DEFINE p1 == p[1]
           p2 == p[2]
           q1 == q[1]
           q2 == q[2]
<1>2. /\ p1 \in 1 .. i /\ p2 \in 1 .. j /\ q1 \in 1 .. i /\ q2 \in 1 .. j
      /\ p1 = i \/ p2 = j
      /\ q1 = i \/ q2 = j
      /\ p = q \/ (p1 < q1 /\ p2 < q2) \/ (q1 < p1 /\ q2 < p2)
  BY <1>1 DEF Ahead
<1> HIDE DEF p1, p2, q1, q2
<1>3. ~(p1 < q1 /\ p2 < q2) /\ ~(q1 < p1 /\ q2 < p2)
  BY <1>2, SMTT(60)
<1> QED
  BY <1>2, <1>3

\* Without the pairs that end a side, a matching is one of the shorter prefixes.
LEMMA Shorter ==
  ASSUME NEW a, NEW b, NEW i \in Nat, NEW j \in Nat, NEW S \in Matchings(a, b, i, j),
         NEW T \in SUBSET S, NEW k \in Nat, NEW l \in Nat,
         \A p \in T : p[1] \in 1 .. k /\ p[2] \in 1 .. l
  PROVE  T \in Matchings(a, b, k, l)
<1>0. /\ InOrder(S)
      /\ \A p \in S : /\ p = <<p[1], p[2]>> /\ p[1] \in 1 .. i /\ p[2] \in 1 .. j
                      /\ Similar(a[p[1]], b[p[2]])
  BY MatchingIs, ZenonT(60)
<1>1. /\ InOrder(S)
      /\ \A p \in S : p = <<p[1], p[2]>> /\ Similar(a[p[1]], b[p[2]])
  BY <1>0, ZenonT(60)
<1>2. InOrder(T)
  BY <1>1, ZenonT(60) DEF InOrder
<1>3. \A p \in T : /\ p = <<p[1], p[2]>> /\ p[1] \in 1 .. k /\ p[2] \in 1 .. l
                   /\ Similar(a[p[1]], b[p[2]])
  BY <1>1, ZenonT(60)
<1> QED
  BY <1>2, <1>3, MatchingIs, ZenonT(60)

LEMMA BestSimilar ==
  ASSUME NEW a, NEW b, NEW i \in Nat, NEW j \in Nat, i # 0, j # 0, Similar(a[i], b[j])
  PROVE  Best(a, b, i, j) = Best(a, b, i - 1, j - 1) + 1
<1>0. i - 1 \in Nat /\ j - 1 \in Nat /\ i \in 1 .. i /\ j \in 1 .. j
  BY SMTT(60)
<1>r. /\ \A n \in 1 .. (i - 1) : n \in 1 .. i /\ n < i
      /\ \A n \in 1 .. (j - 1) : n \in 1 .. j /\ n < j
      /\ \A n \in 1 .. i : n # i => n \in 1 .. (i - 1)
      /\ \A n \in 1 .. j : n # j => n \in 1 .. (j - 1)
      /\ ~(i < i)
  BY SMTT(60)
<1> DEFINE k == i - 1
           l == j - 1
           M == Best(a, b, i, j)
           m == Best(a, b, k, l)
<1>t. M \in Nat /\ m \in Nat
  BY <1>0, BestIs, SMTT(60)
<1>1. m + 1 <= M
  <2>1. PICK S \in Matchings(a, b, k, l) : Cardinality(S) = m
    BY <1>0, BestIs
  <2> DEFINE e == <<i, j>>
             T == S \cup {e}
  <2>2. /\ InOrder(S)
        /\ \A p \in S : /\ p = <<p[1], p[2]>> /\ p[1] \in 1 .. k /\ p[2] \in 1 .. l
                        /\ Similar(a[p[1]], b[p[2]])
    BY <1>0, MatchingIs
  <2>3. e = <<e[1], e[2]>> /\ e[1] = i /\ e[2] = j
    OBVIOUS
  <2> HIDE DEF e
  <2>4. \A p \in S : Ahead(p, e)
    BY <1>r, <2>2, <2>3, ZenonT(60) DEF Ahead
  <2>5. InOrder(T)
    BY <2>2, <2>4, ZenonT(60) DEF InOrder
  <2>6. \A p \in T : /\ p = <<p[1], p[2]>> /\ p[1] \in 1 .. i /\ p[2] \in 1 .. j
                     /\ Similar(a[p[1]], b[p[2]])
    BY <1>0, <1>r, <2>2, <2>3, ZenonT(60)
  <2>7. T \in Matchings(a, b, i, j)
    BY <2>5, <2>6, MatchingIs, SMTT(60)
  <2>8. e \notin S
    BY <1>r, <2>2, <2>3, ZenonT(60)
  <2>9. IsFiniteSet(S)
    BY <1>0, MatchingFinite, SMTT(60)
  <2>10. Cardinality(T) = m + 1
    BY <2>1, <2>8, <2>9, FS_AddElement, ZenonT(60)
  <2> QED
    BY <2>7, <2>10, BestIs, SMTT(60)
<1>2. M <= m + 1
  <2>1. PICK S \in Matchings(a, b, i, j) : Cardinality(S) = M
    BY BestIs
  <2>2. \A p \in S : p[1] \in 1 .. i /\ p[2] \in 1 .. j
    BY MatchingIs, ZenonT(60)
  <2>3. CASE \A p \in S : p[1] # i /\ p[2] # j
    <3>1. S \in Matchings(a, b, k, l)
      BY <1>0, <1>r, <2>2, <2>3, Shorter, ZenonT(60)
    <3>2. M <= m
      BY <1>0, <2>1, <3>1, BestIs, SMTT(60)
    <3> HIDE DEF M, m
    <3> QED
      BY <1>t, <3>2, SMTT(60)
  <2>4. ASSUME NEW e \in S, e[1] = i \/ e[2] = j PROVE M <= m + 1
    <3> DEFINE T == S \ {e}
    <3>1. \A p \in T : p[1] # i /\ p[2] # j
      <4> SUFFICES ASSUME NEW p \in T, p[1] = i \/ p[2] = j PROVE FALSE
        OBVIOUS
      <4>1. p \in S /\ p # e
        OBVIOUS
      <4>2. p = e
        BY <2>4, <4>1, OneEnds, SMTT(60)
      <4> QED
        BY <4>1, <4>2
    <3>2. T \in Matchings(a, b, k, l)
      BY <1>0, <1>r, <2>2, <3>1, Shorter, ZenonT(60)
    <3>3. Cardinality(T) = M - 1
      BY <2>1, <2>4, MatchingFinite, FS_RemoveElement, ZenonT(60)
    <3>4. M - 1 <= m
      BY <1>0, <3>2, <3>3, BestIs
    <3> HIDE DEF M, m
    <3> QED
      BY <1>t, <3>4, SMTT(60)
  <2> QED
    BY <2>3, <2>4
<1> HIDE DEF M, m
<1>3. M = m + 1
  BY <1>t, <1>1, <1>2, SMTT(60)
<1> QED
  BY <1>3 DEF M, m

LEMMA BestOther ==
  ASSUME NEW a, NEW b, NEW i \in Nat, NEW j \in Nat, i # 0, j # 0, ~Similar(a[i], b[j])
  PROVE  Best(a, b, i, j) = IF Best(a, b, i - 1, j) > Best(a, b, i, j - 1)
                            THEN Best(a, b, i - 1, j) ELSE Best(a, b, i, j - 1)
<1>0. i - 1 \in Nat /\ j - 1 \in Nat /\ i - 1 <= i /\ j - 1 <= j /\ i <= i /\ j <= j
  BY SMTT(60)
<1>r. /\ \A n \in 1 .. i : n # i => n \in 1 .. (i - 1)
      /\ \A n \in 1 .. j : n # j => n \in 1 .. (j - 1)
  BY SMTT(60)
<1> DEFINE M == Best(a, b, i, j)
           u == Best(a, b, i - 1, j)
           v == Best(a, b, i, j - 1)
<1>t. M \in Nat /\ u \in Nat /\ v \in Nat
  BY <1>0, BestIs
<1>1. u <= M /\ v <= M
  BY <1>0, BestGrows
<1>2. M <= u \/ M <= v
  <2>1. PICK S \in Matchings(a, b, i, j) : Cardinality(S) = M
    BY BestIs
  <2>2. \A p \in S : /\ p = <<p[1], p[2]>> /\ p[1] \in 1 .. i /\ p[2] \in 1 .. j
                     /\ Similar(a[p[1]], b[p[2]])
    BY MatchingIs
  <2>3. CASE \A p \in S : p[1] # i
    <3>0. \A p \in S : p[1] \in 1 .. (i - 1) /\ p[2] \in 1 .. j
      BY <1>r, <2>2, <2>3, ZenonT(60)
    <3>1. S \in Matchings(a, b, i - 1, j)
      BY <1>0, <3>0, Shorter, SMTT(60)
    <3> QED
      BY <1>0, <2>1, <3>1, BestIs, SMTT(60)
  <2>4. CASE \A p \in S : p[2] # j
    <3>0. \A p \in S : p[1] \in 1 .. i /\ p[2] \in 1 .. (j - 1)
      BY <1>r, <2>2, <2>4, ZenonT(60)
    <3>1. S \in Matchings(a, b, i, j - 1)
      BY <1>0, <3>0, Shorter, SMTT(60)
    <3> QED
      BY <1>0, <2>1, <3>1, BestIs, SMTT(60)
  <2>5. ASSUME NEW p \in S, NEW q \in S, p[1] = i, q[2] = j PROVE FALSE
    <3>1. p = q
      BY <2>5, OneEnds
    <3> QED
      BY <2>2, <2>5, <3>1, ZenonT(60)
  <2> QED
    BY <2>3, <2>4, <2>5, ZenonT(60)
<1> HIDE DEF M, u, v
<1>3. M = IF u > v THEN u ELSE v
  BY <1>t, <1>1, <1>2, SMTT(60)
<1> QED
  BY <1>3 DEF M, u, v

LEMMA AlignedIsBest ==
  ASSUME NEW a, NEW b, Len(a) \in Nat, Len(b) \in Nat
  PROVE  alignedPulses(a, b) = Best(a, b, Len(a), Len(b))
<1> DEFINE D == (0 .. Len(a)) \X (0 .. Len(b))
           Cell(f, i, j) == IF i = 0 \/ j = 0 THEN 0
                            ELSE IF Similar(a[i], b[j]) THEN f[<<i-1, j-1>>] + 1
                            ELSE IF f[<<i-1, j>>] > f[<<i, j-1>>] THEN f[<<i-1, j>>]
                            ELSE f[<<i, j-1>>]
           Row(f) == [p \in D |-> Cell(f, p[1], p[2])]
           W == [p \in D |-> Best(a, b, p[1], p[2])]
           row == CHOOSE f : f = Row(f)
<1>1. alignedPulses(a, b) = row[<<Len(a), Len(b)>>]
  BY DEF alignedPulses
<1>d. \A p \in D : /\ p = <<p[1], p[2]>> /\ p[1] \in 0 .. Len(a) /\ p[2] \in 0 .. Len(b)
                   /\ p[1] \in Nat /\ p[2] \in Nat
  BY SMTT(60)
<1>e. \A i \in 0 .. Len(a), j \in 0 .. Len(b) :
        /\ i \in Nat /\ j \in Nat /\ <<i, j>> \in D /\ <<i, j>>[1] = i /\ <<i, j>>[2] = j
        /\ i # 0 => i - 1 \in 0 .. Len(a)
        /\ j # 0 => j - 1 \in 0 .. Len(b)
  BY SMTT(60)
<1>2. \A i \in 0 .. Len(a), j \in 0 .. Len(b) : W[<<i, j>>] = Best(a, b, i, j)
  <2> HIDE DEF D
  <2> QED
    BY <1>e, ZenonT(60)
<1> HIDE DEF D, W
<1>3. ASSUME NEW i \in 0 .. Len(a), NEW j \in 0 .. Len(b), NEW f,
             \A k \in 0 .. Len(a), l \in 0 .. Len(b) :
               k + l < i + j => f[<<k, l>>] = Best(a, b, k, l)
      PROVE  Cell(f, i, j) = Best(a, b, i, j)
  <2>0. i \in Nat /\ j \in Nat /\ (i # 0 => i - 1 \in 0 .. Len(a)) /\ (j # 0 => j - 1 \in 0 .. Len(b))
    BY <1>e, ZenonT(60)
  <2>1. CASE i = 0 \/ j = 0
    <3>1. Cell(f, i, j) = 0
      BY <2>1, ZenonT(60)
    <3> QED
      BY <2>0, <2>1, <3>1, BestZero, SMTT(60)
  <2>2. CASE i # 0 /\ j # 0
    <3>1. (i - 1) + (j - 1) < i + j /\ (i - 1) + j < i + j /\ i + (j - 1) < i + j
      BY <2>0, SMTT(60)
    <3>2. /\ f[<<i - 1, j - 1>>] = Best(a, b, i - 1, j - 1)
          /\ f[<<i - 1, j>>] = Best(a, b, i - 1, j)
          /\ f[<<i, j - 1>>] = Best(a, b, i, j - 1)
      BY <1>3, <2>0, <2>2, <3>1, ZenonT(60)
    <3>3. CASE Similar(a[i], b[j])
      <4>1. Cell(f, i, j) = f[<<i - 1, j - 1>>] + 1
        BY <2>2, <3>3, ZenonT(60)
      <4>2. Best(a, b, i, j) = Best(a, b, i - 1, j - 1) + 1
        BY <2>0, <2>2, <3>3, BestSimilar, SMTT(60)
      <4> QED
        BY <3>2, <4>1, <4>2, ZenonT(60)
    <3>4. CASE ~Similar(a[i], b[j])
      <4>1. Cell(f, i, j) = IF f[<<i - 1, j>>] > f[<<i, j - 1>>] THEN f[<<i - 1, j>>]
                            ELSE f[<<i, j - 1>>]
        BY <2>2, <3>4, ZenonT(60)
      <4>2. Best(a, b, i, j) = IF Best(a, b, i - 1, j) > Best(a, b, i, j - 1)
                               THEN Best(a, b, i - 1, j) ELSE Best(a, b, i, j - 1)
        BY <2>0, <2>2, <3>4, BestOther, SMTT(60)
      <4> QED
        BY <3>2, <4>1, <4>2, ZenonT(60)
    <3> QED
      BY <3>3, <3>4, SMTT(60)
  <2> QED
    BY <2>1, <2>2
<1> HIDE DEF Cell
<1>4. W = Row(W)
  <2>1. \A p \in D : Cell(W, p[1], p[2]) = Best(a, b, p[1], p[2])
    <3> SUFFICES ASSUME NEW p \in D PROVE Cell(W, p[1], p[2]) = Best(a, b, p[1], p[2])
      OBVIOUS
    <3>1. p[1] \in 0 .. Len(a) /\ p[2] \in 0 .. Len(b)
      BY <1>d
    <3>2. ASSUME NEW i \in 0 .. Len(a), NEW j \in 0 .. Len(b)
          PROVE  Cell(W, i, j) = Best(a, b, i, j)
      BY <1>2, <1>3
    <3> QED
      BY <3>1, <3>2, SMTT(60)
  <2> QED
    BY <2>1, ZenonT(60) DEF W
<1>5. row = Row(row)
  <2>1. \E f : f = Row(f)
    BY <1>4
  <2> HIDE DEF Row
  <2> QED
    BY <2>1
<1> HIDE DEF row
<1>6. \A i \in 0 .. Len(a), j \in 0 .. Len(b) : row[<<i, j>>] = Cell(row, i, j)
  <2> SUFFICES ASSUME NEW i \in 0 .. Len(a), NEW j \in 0 .. Len(b)
               PROVE  row[<<i, j>>] = Cell(row, i, j)
    BY ZenonT(60)
  <2>1. <<i, j>> \in D /\ <<i, j>>[1] = i /\ <<i, j>>[2] = j
    BY <1>e
  <2>2. Row(row)[<<i, j>>] = Cell(row, <<i, j>>[1], <<i, j>>[2])
    BY <2>1, ZenonT(60)
  <2>3. Row(row)[<<i, j>>] = Cell(row, i, j)
    BY <2>1, <2>2, ZenonT(60)
  <2> HIDE DEF Row
  <2> QED
    BY <1>5, <2>3, SMTT(60)
<1> HIDE DEF Row
<1>7. \A i \in 0 .. Len(a), j \in 0 .. Len(b) : row[<<i, j>>] = Best(a, b, i, j)
  <2> DEFINE T == {n \in Nat : \E i \in 0 .. Len(a), j \in 0 .. Len(b) :
                                 n = i + j /\ row[<<i, j>>] # Best(a, b, i, j)}
  <2>1. SUFFICES ASSUME T # {} PROVE FALSE
    <3>1. \A i \in 0 .. Len(a), j \in 0 .. Len(b) : i + j \in Nat
      BY SMTT(60)
    <3> QED
      BY <2>1, <3>1, ZenonT(60)
  <2>2. PICK n \in T : \A m \in T : n <= m
    <3>1. T \subseteq Nat
      OBVIOUS
    <3> HIDE DEF T
    <3> QED
      BY <2>1, <3>1, Smallest, ZenonT(60)
  <2>3. PICK i \in 0 .. Len(a), j \in 0 .. Len(b) :
          n = i + j /\ row[<<i, j>>] # Best(a, b, i, j)
    BY <2>2, ZenonT(60)
  <2>4. ASSUME NEW k \in 0 .. Len(a), NEW l \in 0 .. Len(b), k + l < i + j
        PROVE  row[<<k, l>>] = Best(a, b, k, l)
    <3>1. k + l \in Nat /\ ~(n <= k + l)
      BY <2>3, <2>4, SMTT(60)
    <3>2. k + l \notin T
      BY <2>2, <3>1, ZenonT(60)
    <3> QED
      BY <3>1, <3>2, ZenonT(60)
  <2> HIDE DEF T
  <2>5. Cell(row, i, j) = Best(a, b, i, j)
    BY <1>3, <2>4
  <2> QED
    BY <1>6, <2>3, <2>5, ZenonT(60)
<1>8. Len(a) \in 0 .. Len(a) /\ Len(b) \in 0 .. Len(b)
  BY SMTT(60)
<1> QED
  BY <1>1, <1>7, <1>8, ZenonT(60)
\* verifyLast compares two captures by the largest order-preserving matching of
\* similar pulses: the rows alignedPulses computes give it for captures of any
\* length, any durations and any tolerance.
THEOREM AlignmentIsRight == Spec => []AlignmentIsBest
<1>1. TypeOK => AlignmentIsBest
  <2> SUFFICES ASSUME TypeOK PROVE AlignmentIsBest
    OBVIOUS
  <2> DEFINE m == Len(buf)
             n == Len(copy)
             pairs == {p \in (DOMAIN buf) \X (DOMAIN copy) : Similar(buf[p[1]], copy[p[2]])}
             ordered == {S \in SUBSET pairs : \A p, q \in S :
                           p = q \/ (p[1] < q[1] /\ p[2] < q[2]) \/ (p[1] > q[1] /\ p[2] > q[2])}
  <2>1. buf \in Seq(Pulse) /\ copy \in Seq(Pulse)
    BY DEF TypeOK
  <2>2. m \in Nat /\ n \in Nat /\ DOMAIN buf = 1 .. m /\ DOMAIN copy = 1 .. n
    <3> DEFINE P == Pulse
    <3> HIDE DEF P
    <3>1. buf \in Seq(P) /\ copy \in Seq(P)
      BY <2>1 DEF P
    <3> QED
      BY <3>1, SMTT(60)
  <2> HIDE DEF m, n
  <2>3. pairs = Pairs(buf, copy, m, n)
    BY <2>2 DEF Pairs
  <2>4. \A p, q \in pairs : (p[1] > q[1] /\ p[2] > q[2]) <=> Ahead(q, p)
    <3> SUFFICES ASSUME NEW p \in (1 .. m) \X (1 .. n), NEW q \in (1 .. m) \X (1 .. n)
                 PROVE  (p[1] > q[1] /\ p[2] > q[2]) <=> Ahead(q, p)
      BY <2>2
    <3> QED
      BY <2>2, SMTT(60) DEF Ahead
  <2>5. ordered = Matchings(buf, copy, m, n)
    <3>1. \A S \in SUBSET pairs :
            (\A p, q \in S :
               p = q \/ (p[1] < q[1] /\ p[2] < q[2]) \/ (p[1] > q[1] /\ p[2] > q[2])) <=> InOrder(S)
      <4> HIDE DEF pairs
      <4> QED
        BY <2>4, ZenonT(60) DEF InOrder, Ahead
    <3> QED
      BY <2>3, <3>1, ZenonT(60) DEF Matchings
  <2>6. alignedPulses(buf, copy) = Best(buf, copy, m, n)
    BY <2>2, AlignedIsBest, SMTT(60) DEF m, n
  <2>7. /\ \A S \in ordered : Cardinality(S) <= alignedPulses(buf, copy)
        /\ \E S \in ordered : Cardinality(S) = alignedPulses(buf, copy)
    <3> HIDE DEF ordered
    <3> QED
      BY <2>2, <2>5, <2>6, BestIs, SMTT(60)
  <2> QED
    BY <2>7 DEF AlignmentIsBest
<1> QED
  BY <1>1, TypeCorrect, PTL
=============================================================================
