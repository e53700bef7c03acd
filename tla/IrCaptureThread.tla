--------------------------- MODULE IrCaptureThread ---------------------------
(***************************************************************************)
(* Iris's infrared capture thread, its SD card files and its dictionary    *)
(* (iris thread_ir_capture.cpp and hw_artifacts.cpp), over IrService.  The *)
(* main loop is one thread of control, pc; only the edge interrupt and the *)
(* passing of time happen between its steps.  A capture file is named by   *)
(* its timestamp and is absent, whole (the bytes that were to be written)  *)
(* or damaged.  The card may damage other captures whenever it is written  *)
(* (iris/diagnostics/SD_IR_CAPTURE_20260926.md).                           *)
(***************************************************************************)
EXTENDS IrService, SequencesExt

CONSTANTS
  MaxStamp,    \* bound: captures have time_ms 1 .. MaxStamp
  Tolerance,   \* the alignment tolerance, 250 us
  Slack,       \* 64: room verifyLast leaves for extra pulses
  ResultSlots  \* capacity of the thread's result queue

ASSUME StampAssumption == MaxStamp \in Nat \ {0}
ASSUME LimitAssumption == Tolerance \in Nat /\ Slack \in Nat /\ ResultSlots \in Nat \ {0}

VARIABLES
  pc,             \* where the main loop is
  caller,         \* who reads the frame: the thread's step or verifyLast
  edgeSeen,       \* an interrupt ran while captureReady compared the times
  copy, want,     \* the copy in progress and the count it was started with
  running, captureStarted,
  buf,            \* levels_/durationsUs_[0..lastPulses_)
  stored,         \* result of irisStoreIrCapture: a timestamp, or 0
  results, popped, \* result queue and last popped record: timestamps
  files,          \* the captures on the card
  torn,           \* the dictionary on the card ends in the middle of a line
  reply           \* the answer of the last step, until the next one

loop == <<pc, caller, edgeSeen, copy, want, stored>>
thread == <<running, captureStarted, buf, results, popped>>
card == <<files, torn>>
vars == <<wire, configured, service, loop, thread, card, reply>>

NoStamp == 0
NoReply == "none"
Stamp == 1 .. MaxStamp

Init ==
  /\ ServiceInit
  /\ pc = "loop" /\ caller = "thread" /\ edgeSeen = FALSE /\ copy = <<>> /\ want = 0
  /\ running = FALSE /\ captureStarted = FALSE /\ buf = <<>> /\ stored = NoStamp
  /\ results = <<>> /\ popped = NoStamp
  /\ files = [t \in Stamp |-> "none"] /\ torn = FALSE
  /\ reply = NoReply

\* The wire and the clock go on while the loop is anywhere but inside rearm.
Interrupt ==
  /\ Edge
  /\ edgeSeen' = (pc = "compare_times")
  /\ UNCHANGED <<pc, caller, copy, want, stored, thread, card>> /\ reply' = NoReply

Clock ==
  /\ pc # "rearm_attach"
  /\ Time
  /\ UNCHANGED <<loop, thread, card>> /\ reply' = NoReply

-----------------------------------------------------------------------------
\* Commands, and the start and end of the thread.

Command == pc = "loop" /\ UNCHANGED <<wire, configured>>

\* NoobThreadProgram::call and onStart, with or without a capture going on.
CallThread ==
  /\ Command
  /\ captureRestart
  /\ running' = TRUE /\ captureStarted' = configured
  /\ buf' = <<>> /\ results' = <<>> /\ popped' = NoStamp
  /\ reply' = "started"
  /\ UNCHANGED <<loop, card>>

Stopped == running' = FALSE /\ captureStarted' = FALSE /\ captureStop

\* NoobThreadProgram::stop; also step once the duration is over or the
\* capture could not be started.
StopThread(why) ==
  /\ Command
  /\ why = "expired" => running /\ captureStarted
  /\ why = "capture_error" => running /\ ~captureStarted
  /\ Stopped
  /\ reply' = why
  /\ UNCHANGED <<loop, buf, results, popped, card>>

\* replayEnvelope: refused while a capture is active; RMT may fail.
Replayed == {"sent", "transmit_failed"}

\* replayLast stops the capture first, so it is never refused.
ReplayLast ==
  /\ Command /\ buf # <<>>
  /\ Stopped
  /\ reply' \in IF configured THEN Replayed ELSE {"unconfigured"}
  /\ UNCHANGED <<loop, buf, results, popped, card>>

\* irisIrReplay: a damaged file is refused unless its rows still parse.
ReplayFile(t) ==
  /\ Command
  /\ reply' \in IF files[t] = "none" THEN {"not_found"}
                ELSE (IF ~configured THEN {"unconfigured"}
                      ELSE IF captureActive THEN {"refused"} ELSE Replayed)
                     \cup (IF files[t] = "damaged" THEN {"invalid_file"} ELSE {})
  /\ UNCHANGED <<service, loop, thread, card>>

\* send, read and loopback: blocking, and refused while a capture is active.
CarrierCommand ==
  /\ Command
  /\ reply' = IF ~configured THEN "unconfigured"
              ELSE IF captureActive THEN "refused" ELSE "sent"
  /\ UNCHANGED <<service, loop, thread, card>>

PopResult ==
  /\ Command /\ results # <<>>
  /\ popped' = Head(results) /\ results' = Tail(results)
  /\ reply' = "popped"
  /\ UNCHANGED <<service, loop, running, captureStarted, buf, card>>

\* SD_DELETE of a capture.
RemoveFile(t) ==
  /\ Command /\ files[t] # "none"
  /\ files' = [files EXCEPT ![t] = "none"]
  /\ reply' = "deleted"
  /\ UNCHANGED <<service, loop, thread, torn>>

-----------------------------------------------------------------------------
\* One frame: captureReady, the copy, and what the caller does with it.

\* captureReady finds the frame marked, or starts to compare the times.
\* verifyLast gets here after its replay and counts no pulses when neither.
Ready(who) ==
  /\ caller' = who /\ copy' = <<>> /\ edgeSeen' = FALSE
  /\ IF captureFrameReady
       THEN pc' = "count" ELSE pulses # <<>> /\ pc' = "compare_times"
  /\ UNCHANGED <<service, want, stored, thread, card>> /\ reply' = NoReply

StepReady ==
  /\ Command /\ running /\ captureStarted
  /\ Ready("thread")

(***************************************************************************)
(* micros() - captureLastEdgeUs: an interrupt between the two reads leaves *)
(* a difference that is negative, that is large as a uint32_t, or counted  *)
(* from the edge before.  A frame the interrupt closed in the meantime is  *)
(* seen by the return statement.                                           *)
(***************************************************************************)
CompareTimes ==
  /\ pc = "compare_times"
  /\ \/ /\ age >= Idle \/ edgeSeen
        /\ closeFrame
        /\ pc' = "count"
     \/ /\ age < Idle
        /\ pc' = IF captureFrameReady THEN "count"
                 ELSE IF caller = "thread" THEN "loop" ELSE "compare"
        /\ UNCHANGED service
  /\ edgeSeen' = FALSE
  /\ UNCHANGED <<wire, configured, caller, copy, want, stored, thread, card>> /\ reply' = NoReply

\* capturePulseCount; replayAndCapture also checks the size of the frame.
CountPulses ==
  /\ pc = "count"
  /\ want' = Len(pulses)
  /\ IF caller = "verify" /\ (captureOverflow \/ Len(pulses) > Len(buf) + Slack)
       THEN /\ pc' = "loop" /\ reply' = "overflow"
            /\ captureStop
       ELSE pc' = "copy" /\ UNCHANGED service /\ reply' = NoReply
  /\ UNCHANGED <<wire, configured, caller, edgeSeen, copy, stored, thread, card>>

(***************************************************************************)
(* capturePulse for one index: it fails once the frame is not ready or has *)
(* fewer pulses than were counted.                                         *)
(***************************************************************************)
CopyPulse ==
  /\ pc = "copy" /\ Len(copy) < want
  /\ IF captureActive /\ captureFrameReady /\ Len(copy) < Len(pulses)
       THEN /\ copy' = Append(copy, pulses[Len(copy) + 1])
            /\ UNCHANGED <<pc, service, running, captureStarted, buf>> /\ reply' = NoReply
       ELSE /\ reply' = "copy_failed" /\ pc' = "loop" /\ Stopped
            /\ buf' = copy \o SubSeq(buf, Len(copy) + 1, Len(buf))
            /\ UNCHANGED copy
  /\ UNCHANGED <<wire, configured, caller, edgeSeen, want, stored, results, popped, card>>

\* Faulty variant of CopyDone: the capture is rearmed before it is stored.
CopyDoneRearmed ==
  /\ pc = "copy" /\ Len(copy) = want /\ caller = "thread"
  /\ buf' = copy /\ pc' = "store"
  /\ rearmEmpty
  /\ UNCHANGED <<wire, configured, caller, edgeSeen, copy, want, stored,
                 running, captureStarted, results, popped, card>> /\ reply' = NoReply

\* The copy is complete: it becomes the thread's last capture.
CopyDone ==
  /\ pc = "copy" /\ Len(copy) = want /\ caller = "thread"
  /\ buf' = copy /\ pc' = "store"
  /\ UNCHANGED <<wire, configured, service, caller, edgeSeen, copy, want, stored,
                 running, captureStarted, results, popped, card>> /\ reply' = NoReply

\* Captures a write to the card may damage besides the file being written.
Existing == {t \in Stamp : files[t] # "none"}
Damage(fs, S) == [t \in Stamp |-> IF t \in S THEN "damaged" ELSE fs[t]]

\* artifactPath: the first name from the current time on that is not taken.
artifactPath(start) ==
  LET free == {t \in Stamp : t >= start /\ files[t] = "none"} IN
  IF free = {} THEN NoStamp ELSE CHOOSE t \in free : \A u \in free : t <= u

\* irisStoreIrCapture with its read back: the timestamp and the file it leaves.
StoreOutcome(t) == {<<NoStamp, "none">>, <<t, "whole">>, <<NoStamp, "damaged">>}

StoreCapture ==
  /\ pc = "store"
  /\ \E start \in Stamp :
       LET t == artifactPath(start) IN
       IF t = NoStamp
         THEN stored' = NoStamp /\ UNCHANGED files
         ELSE \E o \in StoreOutcome(t), S \in SUBSET Existing :
                /\ o[2] = "none" => S = {}
                /\ stored' = o[1]
                /\ files' = [Damage(files, S) EXCEPT ![t] = IF o[2] = "none" THEN @ ELSE o[2]]
  /\ pc' = "rearm"
  /\ UNCHANGED <<wire, configured, service, caller, edgeSeen, copy, want, thread, torn>> /\ reply' = NoReply

\* captureRearm after the file is written ...
Rearm ==
  /\ pc = "rearm"
  /\ IF captureActive
       THEN rearmEmpty /\ pc' = "rearm_attach" /\ UNCHANGED <<running, captureStarted>> /\ reply' = NoReply
       ELSE Stopped /\ pc' = "loop" /\ reply' = "rearm_failed"
  /\ UNCHANGED <<wire, configured, caller, edgeSeen, copy, want, stored, buf, results, popped, card>>

\* ... and its end, with the record that step publishes.
Publish ==
  /\ pc = "rearm_attach"
  /\ rearmAttach
  /\ pc' = "loop" /\ copy' = <<>> /\ want' = 0 /\ stored' = NoStamp
  /\ IF stored = NoStamp
       THEN reply' = "store_failed" /\ UNCHANGED results
       ELSE /\ reply' = "frame"
            /\ results' = Append(IF Len(results) < ResultSlots THEN results ELSE Tail(results), stored)
  /\ UNCHANGED <<wire, configured, caller, edgeSeen, running, captureStarted, buf, popped, card>>

-----------------------------------------------------------------------------
\* verifyLast: replay the last capture and compare what comes back.

\* The thread is stopped; the buffers may not be available.
VerifyLast ==
  /\ Command /\ buf # <<>>
  /\ running' = FALSE /\ captureStarted' = FALSE
  /\ \/ captureStop /\ reply' = "no_memory" /\ UNCHANGED pc
     \/ /\ configured
        /\ captureRestart /\ pc' = "replaying" /\ reply' = "verifying"
  /\ UNCHANGED <<caller, edgeSeen, copy, want, stored, buf, results, popped, card>>

ReplayFailed ==
  /\ pc = "replaying"
  /\ captureStop /\ pc' = "loop" /\ reply' = "transmit_failed"
  /\ UNCHANGED <<wire, configured, caller, edgeSeen, copy, want, stored, thread, card>>

\* The delays are over: count what was received, if anything.
ReplayHeard ==
  /\ pc = "replaying"
  /\ Ready("verify")
  /\ UNCHANGED <<wire, configured>>

ReplayUnheard ==
  /\ pc = "replaying" /\ ~captureFrameReady /\ pulses = <<>>
  /\ pc' = "compare" /\ copy' = <<>>
  /\ UNCHANGED <<wire, configured, service, caller, edgeSeen, want, stored, thread, card>> /\ reply' = NoReply

VerifyCopied ==
  /\ pc = "copy" /\ Len(copy) = want /\ caller = "verify"
  /\ pc' = "compare"
  /\ UNCHANGED <<wire, configured, service, caller, edgeSeen, copy, want, stored, thread, card>> /\ reply' = NoReply

Similar(p, q) == p.dur - q.dur \in -Tolerance .. Tolerance

\* Faulty variant of alignedPulses: only pulses at the same place are compared.
alignedPulsesInPlace(a, b) ==
  Cardinality({i \in DOMAIN a : i \in DOMAIN b /\ Similar(a[i], b[i])})

\* alignedPulses: the two rows of the code as a table over prefixes.
alignedPulses(a, b) ==
  LET row[p \in (0 .. Len(a)) \X (0 .. Len(b))] ==
        LET i == p[1]
            j == p[2]
        IN IF i = 0 \/ j = 0 THEN 0
           ELSE IF Similar(a[i], b[j]) THEN row[<<i-1, j-1>>] + 1
           ELSE IF row[<<i-1, j>>] > row[<<i, j-1>>] THEN row[<<i-1, j>>] ELSE row[<<i, j-1>>]
  IN row[<<Len(a), Len(b)>>]

Duration(a) == FoldLeft(LAMBDA sum, p : sum + p.dur, 0, a)

\* 90 % of either side aligned, total durations within 10 %.
Matched(a, b) ==
  LET n == alignedPulses(a, b)
      d == IF Duration(a) > Duration(b) THEN Duration(a) - Duration(b) ELSE Duration(b) - Duration(a)
      pct == IF Duration(a) = 0 THEN 0 ELSE (d * 100) \div Duration(a)
  IN n * 10 >= Len(a) * 9 /\ n * 10 >= Len(b) * 9 /\ pct <= 10

Compare ==
  /\ pc = "compare"
  /\ reply' = IF Matched(buf, copy) THEN "match" ELSE "mismatch"
  /\ captureStop
  /\ pc' = "loop" /\ copy' = <<>> /\ want' = 0
  /\ UNCHANGED <<wire, configured, caller, edgeSeen, stored, thread, card>>

-----------------------------------------------------------------------------
\* Faulty variant of RememberReply: the capture is not read again.
RememberReplyUnchecked(t, fs, short) ==
  IF short THEN "write_incomplete"
  ELSE IF torn THEN "remembered_in_torn_line" ELSE "remembered"

\* The write and the two verifications after it.  An entry appended to a
\* line that an earlier short write left open is acknowledged all the same.
RememberReply(t, fs, short) ==
  IF short THEN "write_incomplete"
  ELSE IF fs[t] # "whole" THEN "capture_changed"
  ELSE IF torn THEN "remembered_in_torn_line" ELSE "remembered"

(***************************************************************************)
(* irisIrDictionaryRemember for the last popped capture.  The write may be *)
(* short and may damage captures; what was written is read back.           *)
(***************************************************************************)
Remember ==
  /\ Command /\ popped # NoStamp
  /\ IF files[popped] # "whole"
       THEN reply' = "already_damaged" /\ UNCHANGED card
       ELSE \/ reply' = "cannot_open" /\ UNCHANGED card
            \/ \E short \in BOOLEAN, S \in SUBSET Existing :
                 /\ files' = Damage(files, S)
                 /\ torn' = short
                 /\ reply' = RememberReply(popped, files', short)
  /\ UNCHANGED <<service, loop, thread>>

Next ==
  \/ Interrupt \/ Clock
  \/ CallThread \/ \E why \in {"stopped", "expired", "capture_error"} : StopThread(why)
  \/ ReplayLast \/ CarrierCommand \/ PopResult \/ Remember
  \/ \E t \in Stamp : ReplayFile(t) \/ RemoveFile(t)
  \/ StepReady \/ CompareTimes \/ CountPulses \/ CopyPulse \/ CopyDone
  \/ StoreCapture \/ Rearm \/ Publish
  \/ VerifyLast \/ ReplayFailed \/ ReplayHeard \/ ReplayUnheard \/ VerifyCopied \/ Compare

Spec == Init /\ [][Next]_vars

-----------------------------------------------------------------------------
\* The type of every variable.
TypeOK ==
  /\ ServiceTypeOK
  /\ pc \in {"loop", "compare_times", "count", "copy", "store", "rearm", "rearm_attach",
             "replaying", "compare"}
  /\ caller \in {"thread", "verify"} /\ {edgeSeen, running, captureStarted, torn} \subseteq BOOLEAN
  /\ copy \in Seq(Pulse) /\ buf \in Seq(Pulse) /\ want \in 0 .. MaxPulses
  /\ stored \in Stamp \cup {NoStamp} /\ popped \in Stamp \cup {NoStamp}
  /\ results \in Seq(Stamp) /\ Len(results) <= ResultSlots
  /\ files \in [Stamp -> {"none", "whole", "damaged"}]

(***************************************************************************)
(* No frame mixes two transmissions: neither the buffer the interrupt      *)
(* fills nor the copy that replayLast sends, although the copy takes many  *)
(* steps and the interrupt stays attached ("This prevents repeated         *)
(* remote-control frames merging", Esp32IrService.cpp).                    *)
(***************************************************************************)
OneTransmission ==
  \A f \in {pulses, buf, copy} : \A i, j \in DOMAIN f : f[i].burst = f[j].burst

(***************************************************************************)
(* The interrupt is quiescent from the moment a frame is counted until it  *)
(* is stored, so the copy cannot fail, the frame that is stored is the one *)
(* that was counted, and rearming finds the capture active.                *)
(***************************************************************************)
FrameHeldWhileRead ==
  /\ pc \in {"count", "copy", "store", "rearm"} => captureActive /\ captureFrameReady
  /\ pc \in {"copy", "store", "rearm"} => want = Len(pulses) /\ copy = SubSeq(pulses, 1, Len(copy))
  /\ reply \notin {"copy_failed", "rearm_failed"}

(***************************************************************************)
(* A record is published, or a dictionary entry acknowledged, only for a   *)
(* capture that is whole on the card at that moment, whatever the card did *)
(* to other captures; a new capture never replaces an older one.           *)
(***************************************************************************)
AcknowledgedIsWhole ==
  [][/\ pc = "rearm_attach" /\ reply' = "frame" => files'[stored] = "whole"
     /\ reply' \in {"remembered", "remembered_in_torn_line"} => files'[popped] = "whole"
     /\ \A t \in Stamp : files[t] = "damaged" => files'[t] # "whole"]_vars

(***************************************************************************)
(* alignedPulses, computed row by row, is the size of the largest matching *)
(* of similar pulses that keeps the order on both sides.                   *)
(***************************************************************************)
AlignmentIsBest ==
  pc = "compare" =>
    LET pairs == {p \in (DOMAIN buf) \X (DOMAIN copy) : Similar(buf[p[1]], copy[p[2]])}
        ordered == {S \in SUBSET pairs : \A p, q \in S :
                      p = q \/ (p[1] < q[1] /\ p[2] < q[2]) \/ (p[1] > q[1] /\ p[2] > q[2])}
    IN /\ \A S \in ordered : Cardinality(S) <= alignedPulses(buf, copy)
       /\ \E S \in ordered : Cardinality(S) = alignedPulses(buf, copy)
=============================================================================
