---------------------------- MODULE ThreadPrograms ----------------------------
(***************************************************************************)
(* The native thread programs of the ESP runtime (esp/common/src/core):    *)
(* NoobThreadProgram with its three kinds, the change detector             *)
(* (noob_change_thread.cpp), the rise detector over a window of buckets    *)
(* (noob_window_rise_thread.cpp) and the sampler (noob_sampling_thread     *)
(* .cpp), and the native functions through which a VM program or a host    *)
(* drives one.  The queue of results is RecordQueue; what a record holds   *)
(* is reduced to the run of the thread that published it and to a time     *)
(* that differs from that of the record before it.                         *)
(***************************************************************************)
EXTENDS RecordQueue, FiniteSetsExt, Functions

CONSTANTS
  Levels,        \* what the source function may return, by kind of thread
  Threshold,     \* changeThreshold_ at boot
  Ratio,         \* riseRatioPercent_ at boot
  Minimum,       \* minimumNewLevel_ at boot
  Duration,      \* durationMs_ at boot, of the sampler
  REARM,         \* rearmSamples_, rearmBuckets_
  HALF_BUCKETS,  \* 5
  MaxSamples     \* bound: samples that fall into one bucket

\* A source call that failed, and no previous sample.
Failure == -1
None == -1

Kinds == {"change", "rise", "sample"}

ASSUME LevelAssumption == DOMAIN Levels = Kinds /\ \A k \in Kinds : Levels[k] \subseteq Nat
ASSUME RecordAssumption == 1 .. 4 \subseteq Record /\ Record \subseteq Nat /\ Blank \notin Record
ASSUME DetectorAssumption == {REARM, HALF_BUCKETS, MaxSamples} \subseteq Nat \ {0}

BUCKET_COUNT == 2 * HALF_BUCKETS

VARIABLES
  kind,        \* "change", "rise" or "sample": the class of the thread
  conf,        \* the parameters that call() may replace
  running,
  lastPopped,  \* Blank stands for haveLastPopped_ = false
  previous,    \* None stands for havePrevious_ = false
  armed,
  stable,      \* stableSamples_, stableBuckets_
  buckets, writeIndex, filledBuckets, bucketSum, bucketSamples,
  mean,        \* olderMean_, newerMean_
  expired,     \* millis() - startedAt_ >= durationMs_
  run,         \* history: the current run of the thread, 1 or 2 in turn
  apart,       \* history: samples or buckets compared since the last event
  window       \* history: the averages of this run, the newest last

changeVars == <<previous, armed, stable>>
riseVars == <<buckets, writeIndex, filledBuckets, bucketSum, bucketSamples, mean, window>>
threadVars == <<vars, kind, conf, running, lastPopped, changeVars, riseVars, expired, run, apart>>

\* A record of run r is r or r + 2, its time even or odd.
RunOf(record) == IF record > 2 THEN record - 2 ELSE record
NoBuckets == [b \in 0 .. BUCKET_COUNT-1 |-> 0]
NoMean == [older |-> 0, newer |-> 0]

ThreadInit ==
  /\ Init
  /\ kind \in Kinds
  /\ conf = [threshold |-> Threshold, ratio |-> Ratio, minimum |-> Minimum, duration |-> Duration]
  /\ running = FALSE /\ lastPopped = Blank
  /\ previous = None /\ armed = TRUE /\ stable = 0
  /\ buckets = NoBuckets /\ writeIndex = 0 /\ filledBuckets = 0
  /\ bucketSum = 0 /\ bucketSamples = 0 /\ mean = NoMean
  /\ expired = FALSE
  /\ run = 1 /\ apart = REARM /\ window = <<>>

-----------------------------------------------------------------------------
(* Starting and stopping *)

\* The argument checks of the three call() functions.
callable(args) ==
  /\ Len(args) <= 2
  /\ Len(args) > 0 => CASE kind = "change" -> args[1] >= 1
                        [] kind = "rise" -> args[1] \in 101 .. 10000
                        [] OTHER -> args[1] \in 0 .. 3600000
  /\ Len(args) > 1 => CASE kind = "change" -> args[2] >= 50
                        [] kind = "rise" -> args[2] >= 0
                        [] OTHER -> args[2] \in 50 .. 60000

\* The parameters after call(args); the interval is left out.
configured(args) ==
  [threshold |-> IF kind = "change" /\ Len(args) > 0 THEN args[1] ELSE conf.threshold,
   ratio     |-> IF kind = "rise" /\ Len(args) > 0 THEN args[1] ELSE conf.ratio,
   minimum   |-> IF kind = "rise" /\ Len(args) > 1 THEN args[2] ELSE conf.minimum,
   duration  |-> IF kind = "sample" /\ Len(args) > 0 THEN args[1] ELSE conf.duration]

\* onStart of the three classes; what a class does not use never changes.
onStart ==
  /\ previous' = None /\ armed' = TRUE /\ stable' = 0
  /\ buckets' = NoBuckets /\ writeIndex' = 0 /\ filledBuckets' = 0
  /\ bucketSum' = 0 /\ bucketSamples' = 0 /\ mean' = NoMean
  /\ expired' = FALSE

\* Faulty variant of call: a restart keeps the record popped last.
callKeepsPopped(args) ==
  /\ conf' = configured(args)
  /\ Clear
  /\ onStart
  /\ running' = TRUE
  /\ run' = 3 - run /\ apart' = REARM /\ window' = <<>>
  /\ UNCHANGED <<kind, lastPopped>>

\* NoobThreadProgram::call, also for a thread that runs already.
call(args) ==
  /\ conf' = configured(args)
  /\ Clear
  /\ lastPopped' = Blank
  /\ onStart
  /\ running' = TRUE
  /\ run' = 3 - run /\ apart' = REARM /\ window' = <<>>
  /\ UNCHANGED kind

\* NoobThreadProgram::stop keeps the results and the detector as they are.
stop ==
  /\ running' = FALSE
  /\ UNCHANGED <<vars, kind, conf, lastPopped, changeVars, riseVars, expired, run, apart>>

-----------------------------------------------------------------------------
(* step: one call of the source function, which returned v or failed.  A   *)
(* change detector first looks at busy, SequenceService::busyMask() &      *)
(* pauseSequenceChannelMask_.                                              *)

publish == Push(IF records[IF tail = 0 THEN Capacity-1 ELSE tail-1] = run THEN run + 2 ELSE run)
Unpublished == UNCHANGED vars

\* history: one more comparison, and whether it raised an event
Compared(event) == apart' = IF event THEN 0 ELSE IF apart < REARM THEN apart + 1 ELSE apart

\* A quiet comparison counts towards the next arming, any other starts anew.
Steadier(quiet) == IF quiet THEN stable + 1 ELSE 0

\* Faulty variant of rearmed: one quiet comparison too few arms the thread.
rearmedEarly(quiet) == Steadier(quiet) + 1 >= REARM

\* stableSamples_ >= rearmSamples_, stableBuckets_ >= rearmBuckets_
rearmed(quiet) == Steadier(quiet) >= REARM

\* The common end of both detectors: an event only when armed, and arming
\* again only after REARM quiet comparisons in a row.
detect(trigger, quiet) ==
  IF ~armed
    THEN /\ armed' = rearmed(quiet)
         /\ stable' = IF rearmed(quiet) THEN 0 ELSE Steadier(quiet)
         /\ Unpublished /\ Compared(FALSE)
    ELSE IF trigger
           THEN publish /\ armed' = FALSE /\ stable' = 0 /\ Compared(TRUE)
           ELSE UNCHANGED <<armed, stable>> /\ Unpublished /\ Compared(FALSE)

Margin == Max({conf.threshold \div 4, 5})

\* NoobChangeThreadProgram::step
changeStep(v, busy) ==
  /\ kind = "change"
  /\ IF busy THEN previous' = None /\ UNCHANGED <<vars, armed, stable, apart>>
     ELSE IF v = Failure THEN UNCHANGED <<vars, changeVars, apart>>
     ELSE IF previous = None THEN previous' = v /\ UNCHANGED <<vars, armed, stable, apart>>
     ELSE LET delta == IF v > previous THEN v - previous ELSE previous - v
          IN  previous' = v /\ detect(delta >= conf.threshold, delta <= Margin)
  /\ UNCHANGED <<kind, conf, running, lastPopped, riseVars, expired, run>>

\* The rounded mean of HALF_BUCKETS buckets of bs, the oldest at slot i.
HalfMean(bs, i) ==
  (SumFunction([o \in 0 .. HALF_BUCKETS-1 |-> bs[(i + o) % BUCKET_COUNT]])
     + HALF_BUCKETS \div 2) \div HALF_BUCKETS

\* Faulty variant of updateMeans: the halves are those of the array.
updateMeansUnrolled(bs, oldest) == [older |-> HalfMean(bs, 0), newer |-> HalfMean(bs, HALF_BUCKETS)]

\* updateMeans: the window starts where the next bucket will be written.
updateMeans(bs, oldest) ==
  [older |-> HalfMean(bs, oldest), newer |-> HalfMean(bs, oldest + HALF_BUCKETS)]

\* finishBucket and the comparison after it
finishBucket(average) ==
  LET filled == IF filledBuckets < BUCKET_COUNT THEN filledBuckets + 1 ELSE filledBuckets
      slot == (writeIndex + 1) % BUCKET_COUNT
      bs == [buckets EXCEPT ![writeIndex] = average]
      means == IF filled < BUCKET_COUNT THEN NoMean ELSE updateMeans(bs, slot)
      rose == means.newer >= conf.minimum /\ means.newer * 100 >= means.older * conf.ratio
  IN  /\ buckets' = bs /\ writeIndex' = slot /\ filledBuckets' = filled /\ mean' = means
      /\ window' = LET w == Append(window, average)
                   IN  IF Len(w) > BUCKET_COUNT THEN Tail(w) ELSE w
      /\ IF filled < BUCKET_COUNT THEN UNCHANGED <<vars, armed, stable, apart>>
                                  ELSE detect(rose, ~rose)

\* NoobWindowRiseThreadProgram::step; the bucket may end at any sample.
riseStep(v) ==
  /\ kind = "rise"
  /\ \/ v = Failure /\ UNCHANGED <<vars, armed, stable, riseVars, apart>>
     \/ /\ v # Failure /\ bucketSamples + 1 < MaxSamples
        /\ bucketSum' = bucketSum + v /\ bucketSamples' = bucketSamples + 1
        /\ UNCHANGED <<vars, armed, stable, buckets, writeIndex, filledBuckets, mean, window, apart>>
     \/ /\ v # Failure
        /\ LET n == bucketSamples + 1 IN finishBucket((bucketSum + v + n \div 2) \div n)
        /\ bucketSum' = 0 /\ bucketSamples' = 0
  /\ UNCHANGED <<kind, conf, running, lastPopped, previous, expired, run>>

\* Faulty variant of sampleStep: a failing source hides the deadline.
sampleStepFailsFirst(v) ==
  /\ kind = "sample"
  /\ IF v = Failure THEN UNCHANGED <<vars, running>>
     ELSE IF conf.duration # 0 /\ expired THEN running' = FALSE /\ UNCHANGED vars
     ELSE publish /\ UNCHANGED running
  /\ UNCHANGED <<kind, conf, lastPopped, changeVars, riseVars, expired, run, apart>>

\* NoobSamplingThreadProgram::step
sampleStep(v) ==
  /\ kind = "sample"
  /\ IF conf.duration # 0 /\ expired THEN running' = FALSE /\ UNCHANGED vars
     ELSE IF v = Failure THEN UNCHANGED <<vars, running>>
     ELSE publish /\ UNCHANGED running
  /\ UNCHANGED <<kind, conf, lastPopped, changeVars, riseVars, expired, run, apart>>

\* NoobThreadProgram::tick of a thread whose interval has passed
threadTick ==
  /\ running
  /\ \E v \in Levels[kind] \cup {Failure} :
       (\E busy \in BOOLEAN : changeStep(v, busy)) \/ riseStep(v) \/ sampleStep(v)

-----------------------------------------------------------------------------
(* The native functions of a thread, by their ids in the model *)

Id == [START |-> 1, STOP |-> 2, STATUS |-> 3, POP |-> 4, POLL |-> 5, FIELD |-> 6]
Natives == {Id[n] : n \in DOMAIN Id}

\* Each record of the model has one field, its run.
FieldAt(i) == i = 0

Printable(ascii) == \A i \in 1 .. Len(ascii) : ascii[i] \in 32 .. 126

\* NativeRegistry::callMixed: whether the function reports success.
succeeds(id, args, ascii) ==
  /\ Printable(ascii)
  /\ ascii # <<>> => id = Id.START /\ kind = "sample"
  /\ CASE id = Id.START -> callable(args)
       [] id = Id.POP -> args = <<>> /\ count > 0
       [] id = Id.FIELD -> Len(args) = 1 /\ lastPopped # Blank /\ FieldAt(args[1])
       [] OTHER -> args = <<>>

\* The value a successful call returns.
value(id) ==
  CASE id = Id.START -> 1
    [] id = Id.STOP -> 0
    [] id = Id.STATUS -> IF running THEN 1 ELSE 0
    [] id = Id.FIELD -> RunOf(lastPopped)
    [] OTHER -> IF count > 0 THEN records[head] ELSE 0

\* NoobThreadProgram::pop, and poll, for which an empty queue is no error
popped ==
  /\ IF count > 0 THEN Pop /\ lastPopped' = records[head] ELSE UNCHANGED <<vars, lastPopped>>
  /\ UNCHANGED <<kind, conf, running, changeVars, riseVars, expired, run, apart>>

\* What a successful call does; a failed one changes nothing.
perform(id, args) ==
  CASE id = Id.START -> call(args)
    [] id = Id.STOP -> stop
    [] id \in {Id.POP, Id.POLL} -> popped
    [] OTHER -> UNCHANGED threadVars

-----------------------------------------------------------------------------
(***************************************************************************)
(* A caller of POP, POLL or FIELD never gets a result of an earlier run of *)
(* the thread: what is queued and what FIELD reads was published since the *)
(* last START, also when a VM program and a host restart it in turn.       *)
(***************************************************************************)
FreshResults ==
  /\ \A k \in 1 .. count : RunOf(Contents[k]) = run
  /\ lastPopped # Blank => RunOf(lastPopped) = run

(***************************************************************************)
(* Continuous motion is one episode: between two events of a run of a      *)
(* detector at least REARM samples (or buckets) were compared, whatever    *)
(* failed readings and pauses fall between them.                           *)
(***************************************************************************)
NoFlood ==
  [][kind # "sample" /\ run' = run /\ tail' # tail => apart = REARM]_threadVars

(***************************************************************************)
(* The two means of the rise detector are those of the older and the newer *)
(* half of the last BUCKET_COUNT averages of this run, wherever the ring   *)
(* of buckets has wrapped, and zero before there are so many.              *)
(***************************************************************************)
MeansFollowWindow ==
  LET Half(from) ==
        (SumFunction([o \in 0 .. HALF_BUCKETS-1 |-> window[from + o]])
           + HALF_BUCKETS \div 2) \div HALF_BUCKETS
  IN  mean = IF Len(window) < BUCKET_COUNT THEN NoMean
             ELSE [older |-> Half(1), newer |-> Half(HALF_BUCKETS + 1)]
=============================================================================
