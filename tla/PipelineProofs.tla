--------------------------- MODULE PipelineProofs ---------------------------
(***************************************************************************)
(* Proofs about the composition of gst-app with the controller, for any    *)
(* number of frames, CAPS events, signals and errors and any clock.        *)
(*                                                                         *)
(* Whatever the application and its threads do, the controller only takes  *)
(* steps of DrpaiController: PipelineSpec implements Spec, and what        *)
(* DrpaiControllerProofs shows holds in the pipeline as well.              *)
(***************************************************************************)
EXTENDS Pipeline, DrpaiControllerProofs

USE PipelineBounds, ClockAssumption

\* Each step of the pipeline is one of the controller or leaves it alone.
LEMMA PipelineStep == [PipelineNext]_pipelineVars => [Next]_vars
<1> SUFFICES ASSUME [PipelineNext]_pipelineVars PROVE Next \/ UNCHANGED vars
  OBVIOUS
<1>1. CASE Main
  BY <1>1 DEF Main, ConstructSplitThread, ConstructThreadStop, OpenElement, StartSource,
              EnterLoop, StartFails, HandleError, HandleEos, CloseElement, Closed, StopSplit,
              JoinSplit, Free, Next
<1>2. CASE Signal  BY <1>2 DEF Signal
<1>3. CASE Source  BY <1>3 DEF Source, Stream, FlowError, EndOfStream, Next
<1>4. CASE OtherError  BY <1>4 DEF OtherError
<1>5. CASE Infer \/ WakeSpuriously  BY <1>5 DEF Infer, WakeSpuriously, Next
<1>6. CASE SplitThread \/ SetClock
  BY <1>6 DEF SplitThread, TestStop, Look, EmitSplitNow, SleepSecond, SetClock
<1>7. CASE ProgramOver \/ UNCHANGED pipelineVars
  BY <1>7 DEF ProgramOver, pipelineVars
<1>. QED BY <1>1, <1>2, <1>3, <1>4, <1>5, <1>6, <1>7 DEF PipelineNext

\* The pipeline implements the specification of the controller.
THEOREM PipelineImplementsController == PipelineSpec => Spec
<1>1. PipelineInit => Init  BY DEF PipelineInit
<1>. QED BY <1>1, PipelineStep, PTL DEF PipelineSpec, Spec

-----------------------------------------------------------------------------
(* Nothing of the program is left running                                  *)

\* With max_drpai_rate=0 there is no inference thread, and nothing maps an
\* image: the first CAPS event is refused.
DisabledHasNone ==
  ~enabled => /\ stream \in {"null", "unopened", "release", "released", "crashed"}
              /\ infer \in {"off", "crashed"}

\* After release_resources, or a crash, thread_function_single does not run.
ReleasedIsQuiet ==
  /\ stream = "released" => infer \in {"off", "exited"}
  /\ infer = "crashed" => stream = "crashed"

\* main does not go on before worker_thread has returned.
SplitJoined ==
  /\ app = "ended" => stream = "released"
  /\ app \in {"freeing", "ended"} => split \in {"none", "exited"}

RestInv == DisabledHasNone /\ ReleasedIsQuiet

LEMMA RestStep == ControlInv /\ RestInv /\ [Next]_vars => RestInv'
<1> SUFFICES ASSUME ControlInv, RestInv, [Next]_vars PROVE RestInv'
  OBVIOUS
<1> USE DEF ControlInv, InlineOnly, NotOpened, RestInv, DisabledHasNone, ReleasedIsQuiet
<1>0. enabled \in BOOLEAN /\ multithread \in BOOLEAN /\ stop_error \in BOOLEAN  BY DEF TypeOK
<1>1. CASE OpenDisabled \/ OpenThread \/ OpenDevice \/ Reopen \/ RefuseCaps
  BY <1>0, <1>1 DEF OpenDisabled, OpenThread, OpenDevice, Reopen, RefuseCaps, settings
<1>2. CASE BeginMap \/ EndMap \/ Release \/ Join
  BY <1>0, <1>2 DEF BeginMap, EndMap, Release, Join, HasThread, settings
<1>3. CASE Close
  BY <1>0, <1>3 DEF Close, Notified, HasThread, settings
<1>4. CASE ProcessImage
  BY <1>0, <1>4 DEF ProcessImage, Arrive, AfterError, Copy, EndCopy, Publish, Notify, Notified,
                    CallInline, ReturnInline, Render, AskDetections, BeginRender, EndRender,
                    settings
<1>5. CASE ThreadFunction
  BY <1>0, <1>5 DEF ThreadFunction, LockState, SetReady, Test, Sleep, Reacquire, Prepare,
                    StartInference, EndInference, BeginExtract, EndExtract, SaveBmp,
                    SendSocketData, Succeed, Throw, Catch, Fail,
                    Returned, AfterError, settings
<1>6. CASE SpuriousWakeup \/ Stopped \/ UNCHANGED vars
  BY <1>6 DEF SpuriousWakeup, Stopped, settings, vars
<1>. QED BY <1>1, <1>2, <1>3, <1>4, <1>5, <1>6 DEF Next

\* Nothing of the controller happens after release_resources.
LEMMA ReleasedStays ==
  RestInv /\ stream = "released" /\ [Next]_vars => UNCHANGED vars
<1> SUFFICES ASSUME RestInv, stream = "released", Next PROVE UNCHANGED vars
  OBVIOUS
<1>1. infer \in {"off", "exited"}  BY DEF RestInv, ReleasedIsQuiet
<1>2. ~ThreadFunction /\ ~SpuriousWakeup
  BY <1>1 DEF ThreadFunction, LockState, SetReady, Test, Sleep, SpuriousWakeup, Reacquire,
              Prepare, StartInference, EndInference, BeginExtract, EndExtract, SaveBmp,
              SendSocketData, Succeed, Throw, Catch, Fail
<1>3. ~ProcessImage
  BY DEF ProcessImage, Arrive, Copy, EndCopy, Publish, Notify, CallInline, ReturnInline,
         Render, AskDetections, BeginRender, EndRender
<1>. QED BY <1>2, <1>3 DEF Next, OpenDisabled, OpenThread, OpenDevice, Reopen, RefuseCaps,
              BeginMap, EndMap, Release, Close, Join, Stopped

LEMMA SplitStep ==
  RestInv /\ SplitJoined /\ [PipelineNext]_pipelineVars => SplitJoined'
<1> SUFFICES ASSUME RestInv, SplitJoined, [PipelineNext]_pipelineVars PROVE SplitJoined'
  OBVIOUS
<1> USE DEF RestInv, ReleasedIsQuiet, SplitJoined, Running
<1>1. stream = "released" => stream' = "released"
  BY ReleasedStays, PipelineStep DEF vars
<1>2. CASE Main
  BY <1>1, <1>2 DEF Main, ConstructSplitThread, ConstructThreadStop, OpenElement, StartSource,
       EnterLoop, StartFails, HandleError, HandleEos, CloseElement, Closed, StopSplit,
       JoinSplit, Free, Read, appVars, splitVars
<1>3. CASE Signal  BY <1>1, <1>3 DEF Signal, splitVars
<1>4. CASE Source \/ OtherError
  BY <1>1, <1>4 DEF Source, Stream, FlowError, EndOfStream, OtherError, Terminates, splitVars
<1>5. CASE Infer \/ WakeSpuriously
  BY <1>1, <1>5 DEF Infer, WakeSpuriously, Terminates, appVars, splitVars
<1>6. CASE SplitThread \/ SetClock
  BY <1>1, <1>6 DEF SplitThread, TestStop, Look, EmitSplitNow, SleepSecond, SetClock, appVars
<1>7. CASE ProgramOver \/ UNCHANGED pipelineVars
  BY <1>1, <1>7 DEF ProgramOver, pipelineVars, appVars, splitVars
<1>. QED BY <1>2, <1>3, <1>4, <1>5, <1>6, <1>7 DEF PipelineNext

LEMMA PipelineRest == PipelineSpec => [](ControlInv /\ RestInv /\ SplitJoined)
<1>1. PipelineInit => ControlInv /\ RestInv /\ SplitJoined
  <2>1. PipelineInit => Init  BY DEF PipelineInit
  <2>2. PipelineInit => RestInv /\ SplitJoined
    BY DEF PipelineInit, Init, RestInv, DisabledHasNone, ReleasedIsQuiet, SplitJoined
  <2>. QED BY <2>1, <2>2, ControlInit
<1>2. ControlInv /\ RestInv /\ SplitJoined /\ [PipelineNext]_pipelineVars
        => (ControlInv /\ RestInv /\ SplitJoined)'
  BY PipelineStep, ControlStep, RestStep, SplitStep
<1>. QED BY <1>1, <1>2, PTL DEF PipelineSpec

\* When main returns 0 the inference thread and the split thread have ended
\* and the element is released (main.cpp:113-124, split_thread.h:23-31).
THEOREM NothingLeft == PipelineSpec => []NothingLeftRunning
<1>1. RestInv /\ SplitJoined => NothingLeftRunning
  BY DEF RestInv, ReleasedIsQuiet, SplitJoined, NothingLeftRunning
<1>. QED BY <1>1, PipelineRest, PTL

\* The pipeline is set to NULL twice, and the element is not touched after the
\* first time (main.cpp:119, messages.h:70, gstdrpai.cpp:92-101).
THEOREM NotUsedAgain == PipelineSpec => NoUseAfterRelease
<1>1. RestInv /\ [PipelineNext]_pipelineVars
        => [stream = "released" => UNCHANGED vars]_pipelineVars
  BY ReleasedStays, PipelineStep
<1>. QED BY <1>1, PipelineRest, PTL DEF PipelineSpec, NoUseAfterRelease

-----------------------------------------------------------------------------
(* One split an hour                                                       *)

\* Once an hour is cut its first second has passed before the thread looks at
\* the clock again.
CutIsPast ==
  /\ now \in Nat /\ cut \in BOOLEAN
  /\ app = "parsed" => split = "none"
  /\ split = "emit" => ~cut
  /\ cut /\ split # "rest" => now >= TicksPerSecond

\* The second hh:00:00 is the first of the hour.
LEMMA FullHourIsFirstSecond == now \in Nat /\ FullHour => now < TicksPerSecond
<1> SUFFICES ASSUME now \in Nat, FullHour PROVE now < TicksPerSecond
  OBVIOUS
<1>1. TicksPerMinute \in Nat \ {0}
  BY DEF TicksPerMinute
<1>2. now < TicksPerMinute
  BY <1>1 DEF FullHour
<1>3. now % TicksPerMinute = now
  BY <1>1, <1>2
<1>4. now \div TicksPerSecond = 0
  BY <1>3 DEF FullHour
<1>. QED BY <1>4

LEMMA ClockPositive == TicksPerMinute \in Nat \ {0} /\ TicksPerHour \in Nat \ {0}
<1>1. TicksPerMinute \in Nat \ {0}  BY DEF TicksPerMinute
<1>. QED BY <1>1 DEF TicksPerHour

\* A sleep that does not reach the next hour ends after its first second.
LEMMA SleepTime ==
  ASSUME NEW n \in Nat, NEW late \in Nat
  PROVE  /\ (n + TicksPerSecond + late) % TicksPerHour \in 0 .. TicksPerHour - 1
         /\ n + TicksPerSecond + late < TicksPerHour
              => (n + TicksPerSecond + late) % TicksPerHour = n + TicksPerSecond + late
<1> DEFINE woken == n + TicksPerSecond + late
<1>1. woken \in Nat  OBVIOUS
<1> HIDE DEF woken
<1>2. woken % TicksPerHour \in 0 .. TicksPerHour - 1  BY <1>1, ClockPositive
<1>3. woken < TicksPerHour => woken % TicksPerHour = woken  BY <1>1, ClockPositive
<1>. QED BY <1>2, <1>3 DEF woken

LEMMA CutStep == CutIsPast /\ [PipelineNext]_pipelineVars => CutIsPast'
<1> SUFFICES ASSUME CutIsPast, [PipelineNext]_pipelineVars PROVE CutIsPast'
  OBVIOUS
<1> USE DEF CutIsPast
<1>1. CASE UNCHANGED <<app, split, now, cut>>  BY <1>1
<1>2. CASE app' # "parsed" /\ UNCHANGED <<split, now, cut>>  BY <1>2
<1>3. CASE ConstructSplitThread  BY <1>3 DEF ConstructSplitThread
<1>4. CASE TestStop  BY <1>4 DEF TestStop, appVars
<1>5. CASE Look  BY <1>5, FullHourIsFirstSecond DEF Look, appVars
<1>6. CASE EmitSplitNow  BY <1>6 DEF EmitSplitNow, appVars
<1>7. CASE SleepSecond
  <2>1. PICK late \in 0 .. MaxLate :
          /\ now' = (now + TicksPerSecond + late) % TicksPerHour
          /\ cut' = (cut /\ now + TicksPerSecond + late < TicksPerHour)
    BY <1>7 DEF SleepSecond
  <2>2. split' \in {"sleep", "test"} /\ split # "none" /\ app' = app
    BY <1>7 DEF SleepSecond, appVars
  <2>3. now' \in Nat /\ cut' \in BOOLEAN  BY <2>1, SleepTime, ClockPositive
  <2>4. ASSUME cut' PROVE now' >= TicksPerSecond
    <3>1. now \in Nat /\ late \in Nat  OBVIOUS
    <3>2. now + TicksPerSecond + late < TicksPerHour  BY <2>1, <2>4
    <3>3. now' = now + TicksPerSecond + late  BY <2>1, <3>1, <3>2, SleepTime
    <3>. QED BY <3>1, <3>3
  <2>. QED BY <2>2, <2>3, <2>4
<1>10. CASE SetClock
  <2>1. now' \in 0 .. TicksPerHour - 1 /\ cut' \in BOOLEAN /\ (cut' => cut /\ now' >= now)
    BY <1>10 DEF SetClock
  <2>2. split' = split /\ app' = app  BY <1>10 DEF SetClock, appVars
  <2>3. now \in Nat /\ now' \in Nat  BY <2>1, ClockPositive
  <2>. QED BY <2>1, <2>2, <2>3
<1>8. CASE Main
  <2>1. CASE OpenElement \/ StartSource \/ HandleError \/ CloseElement
    BY <2>1, <1>1 DEF OpenElement, StartSource, HandleError, Read, CloseElement, appVars,
                      splitVars
  <2>2. CASE \/ ConstructThreadStop \/ EnterLoop \/ StartFails \/ HandleEos \/ Closed
             \/ StopSplit \/ JoinSplit \/ Free
    BY <2>2, <1>2 DEF ConstructThreadStop, EnterLoop, StartFails, HandleEos, Closed, StopSplit,
                      JoinSplit, Free, splitVars
  <2>. QED BY <2>1, <2>2, <1>3, <1>8 DEF Main
<1>9. CASE \/ Signal \/ Source \/ OtherError \/ Infer \/ WakeSpuriously \/ ProgramOver
           \/ UNCHANGED pipelineVars
  <2>1. UNCHANGED splitVars
    BY <1>9 DEF Signal, Source, Stream, FlowError, EndOfStream, OtherError, Infer,
                WakeSpuriously, ProgramOver, pipelineVars
  <2>2. app' = app \/ app' = "terminated"
    BY <1>9 DEF Signal, Source, Stream, FlowError, EndOfStream, OtherError, Infer, Terminates,
                WakeSpuriously, ProgramOver, pipelineVars, appVars
  <2>. QED BY <2>1, <2>2, <1>1, <1>2 DEF splitVars
<1>. QED BY <1>4, <1>5, <1>6, <1>7, <1>8, <1>9, <1>10 DEF PipelineNext, SplitThread

\* worker_thread emits split-now at most once in an hour of system_clock unless
\* that is set back, whatever the clock is scaled to, however late the sleeps
\* end and wherever it is set forward to (split_thread.h:38-60).
THEOREM OneSplit == PipelineSpec => OneSplitAnHour
<1>1. ASSUME PipelineInit PROVE CutIsPast
  <2>1. now \in Nat  BY <1>1, ClockPositive DEF PipelineInit
  <2>2. cut = FALSE /\ split = "none"  BY <1>1 DEF PipelineInit
  <2>. QED BY <2>1, <2>2 DEF CutIsPast
<1>2. CutIsPast => [split = "emit" /\ split' # "emit" => ~cut]_pipelineVars
  BY DEF CutIsPast
<1>. QED BY <1>1, <1>2, CutStep, PTL DEF PipelineSpec, OneSplitAnHour

-----------------------------------------------------------------------------
(* Types                                                                   *)

\* What the source has reported so far.
Reports == IF flow = "failed" THEN 1 ELSE IF flow = "ended" THEN 2 ELSE 0

\* Each error and the end of the stream is put on the bus once.
OnBus ==
  /\ bus \in Seq({"error", "eos"})
  /\ errors \in 0 .. MaxErrorMessages
  /\ Len(bus) <= errors + Reports

PlacesOK ==
  /\ app \in AppStates
  /\ flow \in {"idle", "running", "asked", "failed", "ended"}
  /\ signals \in 0 .. MaxSignals
  /\ split \in SplitStates
  /\ thread_stop \in BOOLEAN
  /\ now \in 0 .. TicksPerHour - 1
  /\ cut \in BOOLEAN

LEMMA OnBusStep == OnBus /\ [PipelineNext]_pipelineVars => OnBus'
<1> SUFFICES ASSUME OnBus, [PipelineNext]_pipelineVars PROVE OnBus'
  OBVIOUS
<1> USE DEF OnBus, Reports
<1>1. CASE UNCHANGED <<bus, errors, flow>>  BY <1>1
<1>2. CASE StartSource  BY <1>2 DEF StartSource
<1>3. CASE Signal  BY <1>3 DEF Signal
<1>4. CASE FlowError
  <2>1. /\ flow \in {"running", "asked"} /\ flow' = "failed"
        /\ bus' = Append(bus, "error") /\ errors' = errors
    BY <1>4 DEF FlowError
  <2>2. bus' \in Seq({"error", "eos"}) /\ Len(bus') = Len(bus) + 1  BY <2>1
  <2>. QED BY <2>1, <2>2
<1>5. CASE EndOfStream
  <2>1. /\ flow \in {"running", "asked", "failed"} /\ flow' = "ended"
        /\ bus' = Append(bus, "eos") /\ errors' = errors
    BY <1>5 DEF EndOfStream
  <2>2. bus' \in Seq({"error", "eos"}) /\ Len(bus') = Len(bus) + 1  BY <2>1
  <2>. QED BY <2>1, <2>2
<1>6. CASE OtherError
  <2>1. /\ errors < MaxErrorMessages /\ errors' = errors + 1
        /\ bus' = Append(bus, "error") /\ flow' = flow
    BY <1>6 DEF OtherError
  <2>2. bus' \in Seq({"error", "eos"}) /\ Len(bus') = Len(bus) + 1  BY <2>1
  <2>. QED BY <2>1, <2>2
<1>7. CASE HandleError \/ HandleEos
  <2>1. bus # <<>> /\ bus' = Tail(bus) /\ errors' = errors /\ flow' = flow
    BY <1>7 DEF HandleError, HandleEos, Read
  <2>2. bus' \in Seq({"error", "eos"}) /\ Len(bus') = Len(bus) - 1  BY <2>1
  <2>. QED BY <2>1, <2>2
<1>8. CASE Closed
  <2>1. bus' = <<>> /\ errors' = errors /\ flow' = flow  BY <1>8 DEF Closed
  <2>2. bus' \in Seq({"error", "eos"}) /\ Len(bus') = 0  BY <2>1
  <2>. QED BY <2>1, <2>2
<1>9. CASE Main
  BY <1>1, <1>2, <1>7, <1>8, <1>9
     DEF Main, ConstructSplitThread, ConstructThreadStop, OpenElement, EnterLoop, StartFails,
         CloseElement, StopSplit, JoinSplit, Free, appVars
<1>10. CASE Source \/ Infer \/ WakeSpuriously
  BY <1>1, <1>4, <1>5, <1>10 DEF Source, Stream, Infer, WakeSpuriously, appVars
<1>11. CASE SplitThread \/ SetClock \/ ProgramOver \/ UNCHANGED pipelineVars
  BY <1>1, <1>11 DEF SplitThread, TestStop, Look, EmitSplitNow, SleepSecond, SetClock,
                     ProgramOver, pipelineVars, appVars
<1>. QED BY <1>3, <1>6, <1>9, <1>10, <1>11 DEF PipelineNext

LEMMA PlacesStep == PlacesOK /\ [PipelineNext]_pipelineVars => PlacesOK'
<1> SUFFICES ASSUME PlacesOK, [PipelineNext]_pipelineVars PROVE PlacesOK'
  OBVIOUS
<1> USE DEF PlacesOK, AppStates, SplitStates
<1>1. CASE OpenElement \/ CloseElement \/ WakeSpuriously \/ ProgramOver \/ UNCHANGED pipelineVars
  BY <1>1 DEF OpenElement, CloseElement, WakeSpuriously, ProgramOver, pipelineVars, appVars,
              splitVars
<1>2. CASE \/ ConstructSplitThread \/ ConstructThreadStop \/ StartSource \/ EnterLoop \/ StartFails
  BY <1>2 DEF ConstructSplitThread, ConstructThreadStop, StartSource, EnterLoop, StartFails,
              splitVars
<1>3. CASE \/ HandleError \/ HandleEos \/ Closed \/ StopSplit \/ JoinSplit \/ Free
  BY <1>3 DEF HandleError, HandleEos, Closed, StopSplit, JoinSplit, Free, Read, splitVars
<1>4. CASE Signal  BY <1>4 DEF Signal, splitVars
<1>5. CASE Source \/ OtherError \/ Infer
  BY <1>5 DEF Source, Stream, FlowError, EndOfStream, OtherError, Infer, Terminates, splitVars
<1>6. CASE TestStop \/ Look  BY <1>6 DEF TestStop, Look, appVars
<1>7. CASE EmitSplitNow  BY <1>7 DEF EmitSplitNow, appVars
<1>8. CASE SleepSecond
  <2>1. PICK late \in 0 .. MaxLate :
          /\ now' = (now + TicksPerSecond + late) % TicksPerHour
          /\ cut' = (cut /\ now + TicksPerSecond + late < TicksPerHour)
    BY <1>8 DEF SleepSecond
  <2>2. now \in Nat /\ late \in Nat  BY ClockPositive
  <2>3. now' \in 0 .. TicksPerHour - 1  BY <2>1, <2>2, SleepTime
  <2>4. cut' \in BOOLEAN  BY <2>1
  <2>5. split' \in {"sleep", "test"} /\ UNCHANGED <<app, flow, signals, thread_stop>>
    BY <1>8 DEF SleepSecond, appVars
  <2>. QED BY <2>3, <2>4, <2>5
<1>9. CASE SetClock  BY <1>9 DEF SetClock, appVars
<1>. QED BY <1>1, <1>2, <1>3, <1>4, <1>5, <1>6, <1>7, <1>8, <1>9
         DEF PipelineNext, Main, SplitThread

\* Everything keeps its type, and the bus never holds more than the messages
\* that were posted: an error and the EOS after it, and those of others.
THEOREM PipelineTypeCorrect == PipelineSpec => []PipelineTypeOK
<1>1. ASSUME PipelineInit PROVE OnBus /\ PlacesOK
  <2>1. bus = <<>> /\ errors = 0 /\ flow = "idle" /\ cut = FALSE  BY <1>1 DEF PipelineInit
  <2>2. OnBus  BY <2>1 DEF OnBus, Reports
  <2>3. cut \in BOOLEAN  BY <2>1
  <2>. QED BY <1>1, <2>2, <2>3, ClockPositive DEF PipelineInit, PlacesOK, AppStates, SplitStates
<1>2. OnBus /\ PlacesOK /\ ControlInv => PipelineTypeOK
  BY DEF OnBus, Reports, PlacesOK, ControlInv, PipelineTypeOK
<1>. QED BY <1>1, <1>2, OnBusStep, PlacesStep, PipelineRest, PTL DEF PipelineSpec

-----------------------------------------------------------------------------
\* In the pipeline, too, the image is written while inference uses it only in
\* the two cases of BufferExclusion (see DrpaiControllerProofs).
THEOREM PipelineExclusion == PipelineSpec => []BufferExclusion
BY PipelineImplementsController, Exclusion
=============================================================================
