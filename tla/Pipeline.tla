------------------------------ MODULE Pipeline ------------------------------
(***************************************************************************)
(* gst-app: the main program, its bus, its signal handler and the thread   *)
(* that splits the recording every hour, composed with the element of      *)
(* DrpaiController in the pipeline they run.                               *)
(*                                                                         *)
(* DrpaiController lets the pipeline call open_resources, process_image    *)
(* and release_resources whenever their order allows it.  Here they are    *)
(* called by what calls them: gst_element_set_state in main and in         *)
(* message_cb, and the streaming thread of the source between the two.     *)
(* `app' is the program counter of main, `flow' the state of the source,   *)
(* `bus' the messages main has not read (those that message_cb only prints *)
(* are left out), `split' the program counter of split_thread.             *)
(*                                                                         *)
(* The source is a GstBaseSrc and is not part of the repository: it sends  *)
(* EOS when it runs out, when an EOS event asks it to, and after a flow    *)
(* error, which it also reports on the bus.  Before it is started it may   *)
(* lose the request.                                                       *)
(***************************************************************************)
EXTENDS DrpaiController, Sequences

CONSTANTS
  MaxSignals,        \* bound: SIGINT and SIGTERM
  MaxErrorMessages,  \* bound: errors that other elements report
  MinutesPerHour,    \* the clock, scaled down
  SecondsPerMinute,
  TicksPerSecond,
  MaxLate            \* bound: ticks a sleep may last longer than it was asked to

ASSUME PipelineBounds ==
  /\ MaxSignals \in Nat
  /\ MaxErrorMessages \in Nat
  /\ MaxLate \in Nat

ASSUME ClockAssumption ==
  /\ MinutesPerHour \in Nat \ {0}
  /\ SecondsPerMinute \in Nat \ {0}
  /\ TicksPerSecond \in Nat \ {0}

VARIABLES
  app,           \* where main is
  flow,          \* what the source does
  bus,           \* messages on the bus
  signals,       \* signals handled
  errors,        \* errors other elements reported
  split,         \* where worker_thread is, "none" without one
  thread_stop,
  now,           \* system_clock, ticks since the last full hour
  cut            \* history: split-now was emitted in this hour of the clock,
                 \* which has not been set back since

appVars == <<app, flow, bus, signals, errors>>
splitVars == <<split, thread_stop, now, cut>>
pipelineVars == <<vars, appVars, splitVars>>

AppStates ==
  {"parsed", "constructing", "starting", "loop", "closing", "stopping", "joining",
   "freeing", "ended", "failed", "terminated"}

SplitStates == {"none", "test", "look", "emit", "rest", "sleep", "exited"}

\* main has neither returned nor been terminated.
Running == app \notin {"ended", "failed", "terminated"}

TicksPerMinute == SecondsPerMinute * TicksPerSecond
TicksPerHour == MinutesPerHour * TicksPerMinute

PipelineTypeOK ==
  /\ TypeOK
  /\ app \in AppStates
  /\ flow \in {"idle", "running", "asked", "failed", "ended"}
  /\ bus \in Seq({"error", "eos"})
  /\ Len(bus) <= MaxErrorMessages + 2
  /\ signals \in 0 .. MaxSignals
  /\ errors \in 0 .. MaxErrorMessages
  /\ split \in SplitStates
  /\ thread_stop \in BOOLEAN
  /\ now \in 0 .. TicksPerHour - 1
  /\ cut \in BOOLEAN

\* thread_stop lies on the stack of main and has no value yet.  (The clock has
\* any value when the thread first looks at it, by SetClock.)
PipelineInit ==
  /\ Init
  /\ app = "parsed"
  /\ flow = "idle"
  /\ bus = <<>>
  /\ signals = 0
  /\ errors = 0
  /\ split = "none"
  /\ thread_stop \in BOOLEAN
  /\ now = 0
  /\ cut = FALSE

-----------------------------------------------------------------------------
(* main, before its loop                                                   *)

\* The members of split_thread are initialised in their order: the thread
\* runs before thread_stop has a value.  There is no thread without a sink
\* called my_split_mux, or without ENABLE_SPLIT.
ConstructSplitThread ==
  /\ app = "parsed"
  /\ app' = "constructing"
  /\ split' \in {"none", "test"}
  /\ UNCHANGED <<vars, flow, bus, signals, errors, thread_stop, now, cut>>

ConstructThreadStop ==
  /\ app = "constructing"
  /\ app' = "starting"
  /\ thread_stop' = FALSE
  /\ UNCHANGED <<vars, flow, bus, signals, errors, split, now, cut>>

\* gst_element_set_state(PLAYING): the element goes from NULL to READY ...
OpenElement ==
  /\ app = "starting"
  /\ OpenDisabled \/ OpenThread \/ OpenDevice
  /\ UNCHANGED <<appVars, splitVars>>

\* ... and the source starts, in a thread of its own.
StartSource ==
  /\ app = "starting"
  /\ flow \in {"idle", "asked"}
  /\ stream \in {"ready", "unopened"}
  /\ flow' \in IF flow = "asked" THEN {"asked", "running"} ELSE {"running"}
  /\ UNCHANGED <<vars, app, bus, signals, errors, splitVars>>

Started == flow # "idle" /\ stream \notin {"null", "opening", "abandoned"}

EnterLoop ==
  /\ app = "starting"
  /\ Started
  /\ app' = "loop"
  /\ UNCHANGED <<vars, flow, bus, signals, errors, splitVars>>

\* main returns -1; split_thread has no destructor that would stop it.
StartFails ==
  /\ app = "starting"
  /\ stream = "abandoned"
  /\ app' = "failed"
  /\ UNCHANGED <<vars, flow, bus, signals, errors, splitVars>>

\* signalHandler asks the pipeline for EOS, wherever main is.
Signal ==
  /\ signals < MaxSignals
  /\ app \in {"constructing", "starting", "loop"}
  /\ signals' = signals + 1
  /\ flow' = IF flow \in {"idle", "running"} THEN "asked" ELSE flow
  /\ UNCHANGED <<vars, app, bus, errors, splitVars>>

-----------------------------------------------------------------------------
(* The source and its streaming thread                                     *)

\* An exception nobody catches, or a null pointer, ends all of the program.
Terminates == app' = IF stream' = "crashed" THEN "terminated" ELSE app

\* Buffers, CAPS events and what they call are the streaming thread's.
Stream ==
  /\ flow \in {"running", "asked"}
  /\ RefuseCaps \/ BeginMap \/ EndMap \/ ProcessImage
  /\ Terminates
  /\ UNCHANGED <<flow, bus, signals, errors, splitVars>>

\* gst_drpai_chain returned FLOW_ERROR: the source reports it and stops.
FlowError ==
  /\ flow \in {"running", "asked"}
  /\ stream = "halted"
  /\ flow' = "failed"
  /\ bus' = Append(bus, "error")
  /\ UNCHANGED <<vars, app, signals, errors, splitVars>>

\* EOS goes through the pipeline, serialised with the buffers, and the sinks
\* report it.
EndOfStream ==
  /\ flow \in {"running", "asked", "failed"}
  /\ stream \in {"unopened", "ready", "idle", "halted"}
  /\ stream = "halted" => flow = "failed"
  /\ flow' = "ended"
  /\ bus' = Append(bus, "eos")
  /\ UNCHANGED <<vars, app, signals, errors, splitVars>>

\* Another element reports an error that does not stop the stream.
OtherError ==
  /\ app = "loop"
  /\ errors < MaxErrorMessages
  /\ errors' = errors + 1
  /\ bus' = Append(bus, "error")
  /\ UNCHANGED <<vars, app, flow, signals, splitVars>>

\* The inference thread, or the inline run that process_image waits for.
Infer ==
  /\ Running
  /\ ThreadFunction
  /\ Terminates
  /\ UNCHANGED <<flow, bus, signals, errors, splitVars>>

WakeSpuriously ==
  /\ Running
  /\ SpuriousWakeup
  /\ UNCHANGED <<appVars, splitVars>>

-----------------------------------------------------------------------------
(* main: its loop and its end                                              *)

Read == app = "loop" /\ bus # <<>> /\ bus' = Tail(bus)

\* message_cb prints an error and returns TRUE.
HandleError ==
  /\ Read
  /\ Head(bus) = "error"
  /\ UNCHANGED <<vars, app, flow, signals, errors, splitVars>>

\* Mutant of HandleEos: message_cb returns TRUE for it as well.
HandleEosAndStay ==
  /\ Read
  /\ Head(bus) = "eos"
  /\ UNCHANGED <<vars, app, flow, signals, errors, splitVars>>

\* For EOS it sets the pipeline to NULL and returns FALSE.
HandleEos ==
  /\ Read
  /\ Head(bus) = "eos"
  /\ app' = "closing"
  /\ UNCHANGED <<vars, flow, signals, errors, splitVars>>

\* READY to NULL calls release_resources once the streaming thread is back.
CloseElement ==
  /\ app \in {"closing", "freeing"}
  /\ Release \/ Close \/ Join
  /\ UNCHANGED <<appVars, splitVars>>

\* NULL: the controller is deleted and the bus is flushed.
Closed ==
  /\ app = "closing"
  /\ stream = "released"
  /\ app' = "stopping"
  /\ bus' = <<>>
  /\ UNCHANGED <<vars, flow, signals, errors, splitVars>>

\* split_thread::stop, if there is a thread.
StopSplit ==
  /\ app = "stopping"
  /\ app' = "joining"
  /\ thread_stop' = IF split = "none" THEN thread_stop ELSE TRUE
  /\ UNCHANGED <<vars, flow, bus, signals, errors, split, now, cut>>

\* Mutant of JoinSplit: the thread is told to stop and not waited for.
LeaveSplit ==
  /\ app = "joining"
  /\ app' = "freeing"
  /\ UNCHANGED <<vars, flow, bus, signals, errors, splitVars>>

JoinSplit ==
  /\ app = "joining"
  /\ split \in {"none", "exited"}
  /\ app' = "freeing"
  /\ UNCHANGED <<vars, flow, bus, signals, errors, splitVars>>

\* The pipeline is set to NULL again, which it is, and main returns 0.
Free ==
  /\ app = "freeing"
  /\ stream = "released"
  /\ app' = "ended"
  /\ UNCHANGED <<vars, flow, bus, signals, errors, splitVars>>

-----------------------------------------------------------------------------
(* worker_thread                                                           *)

\* Mutant of TestStop: the thread looks at the flag only once.
TestNothing ==
  /\ Running
  /\ split = "test"
  /\ split' = IF app = "constructing" /\ thread_stop THEN "exited" ELSE "look"
  /\ UNCHANGED <<vars, appVars, thread_stop, now, cut>>

TestStop ==
  /\ Running
  /\ split = "test"
  /\ split' = IF thread_stop THEN "exited" ELSE "look"
  /\ UNCHANGED <<vars, appVars, thread_stop, now, cut>>

\* Mutant of FullHour: the minutes are not looked at.
FullMinute == (now % TicksPerMinute) \div TicksPerSecond = 0

FullHour == now \div TicksPerMinute = 0 /\ (now % TicksPerMinute) \div TicksPerSecond = 0

Look ==
  /\ Running
  /\ split = "look"
  /\ split' = IF FullHour THEN "emit" ELSE "sleep"
  /\ UNCHANGED <<vars, appVars, thread_stop, now, cut>>

\* split-now, and a second of sleep of its own.
EmitSplitNow ==
  /\ Running
  /\ split = "emit"
  /\ split' = "rest"
  /\ cut' = TRUE
  /\ UNCHANGED <<vars, appVars, thread_stop, now>>

\* A second of sleep, or somewhat more.
SleepSecond ==
  /\ Running
  /\ split \in {"rest", "sleep"}
  /\ split' = IF split = "rest" THEN "sleep" ELSE "test"
  /\ \E late \in 0 .. MaxLate :
       LET woken == now + TicksPerSecond + late
       IN /\ now' = woken % TicksPerHour
          /\ cut' = (cut /\ woken < TicksPerHour)
  /\ UNCHANGED <<vars, appVars, thread_stop>>

\* Outside of the sleeps, time passes too; and the clock is one that is set,
\* by the user or over the network: forward, in this hour or to another one,
\* or back.
SetClock ==
  /\ Running
  /\ split \notin {"none", "exited"}
  /\ now' \in 0 .. TicksPerHour - 1
  /\ cut' \in {cut /\ now' >= now, FALSE}
  /\ UNCHANGED <<vars, appVars, split, thread_stop>>

SplitThread == TestStop \/ Look \/ EmitSplitNow \/ SleepSecond

ProgramOver ==
  /\ ~Running
  /\ UNCHANGED pipelineVars

Main ==
  \/ ConstructSplitThread \/ ConstructThreadStop \/ OpenElement \/ StartSource
  \/ EnterLoop \/ StartFails
  \/ HandleError \/ HandleEos \/ CloseElement \/ Closed
  \/ StopSplit \/ JoinSplit \/ Free

Source == Stream \/ FlowError \/ EndOfStream

PipelineNext ==
  \/ Main \/ Signal
  \/ Source \/ OtherError
  \/ Infer \/ WakeSpuriously
  \/ SplitThread \/ SetClock
  \/ ProgramOver

PipelineSpec == PipelineInit /\ [][PipelineNext]_pipelineVars

\* The operating system runs every thread; the lock of release_resources is
\* got in the end (as in DrpaiController); the source sends EOS when it has
\* been asked to or has failed, and until then its frames, the signals and
\* the errors of other elements are the environment's.
PipelineFairness ==
  /\ WF_pipelineVars(Main)
  /\ SF_pipelineVars(CloseElement /\ Close)
  /\ WF_pipelineVars(stream \notin {"unopened", "ready", "idle"} /\ Stream)
  /\ WF_pipelineVars(FlowError)
  /\ SF_pipelineVars(flow \in {"asked", "failed"} /\ EndOfStream)
  /\ WF_pipelineVars(Infer)
  /\ WF_pipelineVars(SplitThread)

FairPipelineSpec == PipelineSpec /\ PipelineFairness

-----------------------------------------------------------------------------
(* Properties                                                              *)

\* main.cpp:98: after SIGINT or SIGTERM the program exits, whatever the
\* inference thread and the split thread are doing.  (It may be terminated by
\* a refused CAPS event or by closing without an image, see DrpaiController.)
SignalEndsProgram == (app = "loop" /\ flow = "asked") ~> ~Running

\* A buffer the element refuses ends the program although message_cb only
\* prints the error: the source follows it with EOS.
FlowErrorEndsProgram == (app = "loop" /\ stream = "halted") ~> ~Running

\* When main returns 0 no thread of the program is left, and the element has
\* given back its resources.
NothingLeftRunning ==
  app = "ended" =>
    /\ stream = "released"
    /\ infer \in {"off", "exited"}
    /\ split \in {"none", "exited"}

\* The recording is split at most once in an hour of the clock, however late
\* the thread wakes up and however far the clock is set forward: only when it
\* is set back may it pass a full hour twice.
OneSplitAnHour == [][split = "emit" /\ split' # "emit" => ~cut]_pipelineVars

\* The element is opened once in the life of the program, and not used after
\* release_resources: the controller is deleted there and never made again.
NoUseAfterRelease ==
  [][stream = "released" => UNCHANGED vars]_pipelineVars
=============================================================================
