# Verification of gstreamer1.0-drpai

TLA+ models of the DRP-AI plug-in for GStreamer and of the application around
it, checked with TLC and, for the safety properties that matter most, proved
with TLAPS for every value of the constants. Paths below are relative to
`src/gst-plugin/src/` of the repository unless they begin with `gst-app` or are
`README.md`.

## The system

The element `drpai` receives video buffers, hands some of them to the DRP-AI
hardware through a memory-mapped buffer (udmabuf), and draws the latest
detections on every buffer before it pushes it on. `gst-app` builds a pipeline
with it, runs it until the end of the stream or a signal, and cuts a recording
once an hour.

| Component | State | Operations | Talks to |
|---|---|---|---|
| GStreamer element (`gstdrpai.cpp`) | `stop_error`, the controller | `change_state`, `sink_event` (CAPS), `chain`, properties | calls the controller from the application thread and the streaming thread; GStreamer never calls from both at once |
| `DRPAI_Controller` (`drpai_controller.*`) | `thread_state`, `state_mutex`, condition `v`, `process_thread`, `image_mapped_udma`, `multithread`, rates, time of the last bitmap | `open_resources`, `open_resources_with_image_size`, `process_image`, `thread_function_loop`, `thread_function_single`, `check_save_bmp`, `send_socket_data`, `release_resources` | owns the inference thread; shares the image and `thread_state` with it |
| `Image` (`image.*`) | the mapped udmabuf, a buffer in front of it when the model wants YUV | `map_udmabuf`, `copy`, `prepare`, `save_bmp`, drawing | written by the streaming thread, read by the inference thread and the hardware |
| DRP-AI driver access (`drpai-models/base_drpai.*`) | `drpai_fd`, `proc`, sizes, output buffer | `open_resource`, `run_inference` (`start`, `wait` with a time-out of five seconds, `get_result`), `release_resource` | called by the inference thread; the driver and the hardware are external |
| TVM run time (`drpai-models/drpai-tvm/*`) | PreRuntime's operators, current parameters and files; the MERA run time | `Load`, `LoadParamInfo`, `Pre` with its updates, `GetResult`; `TVM_DRPAI::open_resource`, `run_inference` | alternative to the driver access; opens the device a second time |
| YOLO post-processor (`drpai-yolo/yolo_post_processor.*`) | `last_det`, filter region, tracker, layout of the output tensor | `open_resource`, `extract_detections` (under `mutex`), `render_detections_on_image`, `get_json`, `set_property` | inference thread writes, streaming thread renders |
| Detection filter (`drpai-yolo/detection_filterer.*`, `box.*`) | wanted classes, region of interest | `apply`: non-maximum suppression, then classes and region | called by `extract_detections` |
| Tracker (`drpai-yolo/tracker.*`, `utils/smoothie.h`) | `current_items`, `historical_items`, `counts`, `last_used_ID`, `last_tracked_detection` | `track`, `erase_outdated_history`, `count`, `get_json` | called by `extract_detections`; read by the streaming thread |
| Other post-processors (`base_post_processor.*`, mobilenet, dummy) | `last_det`, labels | the same interface | as for YOLO |
| Rates, smoothing, JSON (`rate_controller.h`, `utils/*`) | averages | `inform_frame`, `add` | everywhere |
| gst-app (`gst-app/src/main.cpp`, `messages.h`) | the pipeline, the loop | `main`, `message_cb`, `signalHandler` | the bus, the element's state |
| Split thread (`gst-app/src/split_thread.h`) | `thread_stop` | constructor, `worker_thread`, `stop` | a splitmuxsink, once an hour |

### What is hard about it

* **Two threads and one image.** `process_image` reads and writes
  `thread_state` and notifies without the mutex that the inference thread
  waits with; the image is handed over by that variable alone.
* **A function written for two uses.** `thread_function_single` is the body of
  a thread that waits, and also a call inside `process_image`.
* **Errors and closing.** Three failed runs in a row end inference, one good
  run forgets the failures, and `release_resources` joins the thread from
  whatever it is doing.
* **A device that answers late or not at all.** `select` gives up after five
  seconds, and the hardware goes on; the next run starts behind it.
* **Errors that nobody looks at**: a `uint8_t` that is compared with -1, a
  status whose error is not read, a `throw` with nothing to rethrow, exceptions
  of types that are not caught. And a state change that failed may be asked for
  again: the second attempt starts on what the first one left.
* **Updates that stop half way.** `UpdateParamData` rewrites operators one
  parameter after another and returns at the first one it refuses.
* **Lists that are changed while they are iterated.** Suppression erases under
  two nested iterators, the second loop of the filter erases and advances,
  the tracker moves items between two lists and matches greedily.
* **State shared by two threads with and without a lock**: `last_det` with,
  the tracker's list, the options and `open_resource` without.
* **Life cycle.** `max-drpai-rate=0`, a failed open, CAPS events before or
  during streaming, READY to NULL without a CAPS event, a signal while the
  pipeline starts, and a thread that starts before its flag has a value.
* **Wall-clock time and narrow integers** in the history of the tracker, in
  the size of an output item and the grids, and in the hour of the split
  thread, whose clock may be set.

`PROJECT.json` lists each hazard at its line with the properties that would
catch it going wrong, or why there is none.

### What makes each component correct

* Controller: nobody writes the image while inference uses it, but in two cases;
  detections come from one whole frame and never go back; a frame is analysed at
  most once; a saved bitmap shows the frame of its detections; `FLOW_ERROR` has a
  cause; the streaming thread waits for the inference thread while that extracts
  detections, but not for good; closing ends.
* Driver access and TVM: a run returns the result of its own frame or an
  error, and it returns; the hardware never runs on part of a model; what was
  opened is closed; the parameters PreRuntime reports, its operators and the
  device agree.
* Post-processor: the streaming thread never renders a list that the inference
  thread is changing (with tracking it does) and is never blocked for good; each
  value of the output is read once; the region is the one that was asked for.
* Filter: no two rivals are left, nothing is taken without a rival as good,
  the best of a class is never lost, the second loop keeps exactly what the
  filter wants (it does not), and both loops end.
* Tracker: each detection has exactly one item, the matching is stable, counts
  are those of the lists, history is closed, and is kept as long as configured
  (it is not).
* gst-app: a signal, the end of the stream or an error of the element ends the
  program, with nothing left running; the element is not used after its
  release. Split thread: one cut an hour at most, and it stops.

## The modules

| Module | Models |
|---|---|
| `FrameMailbox` | what the hand-over of frames promises: one slot with one owner at a time |
| `DrpaiController` | the controller with the element's calls on one side and the inference thread on the other; implements `FrameMailbox` |
| `Pipeline` | gst-app, its bus, signal handler and split thread, composed with `DrpaiController`, which it implements |
| `BaseDrpai` | `BaseDRPAI`, the driver and the hardware |
| `PreParams` | the parameters of PreRuntime: `LoadParamInfo`, `UpdateParamData`, `UpdateWeightData` as operators |
| `TvmDrpai` | `TVM_DRPAI` and PreRuntime on top of `BaseDrpai` and `PreParams`; both kinds of models in one specification |
| `PostProcessor` | `YOLO_PostProcessor` and its base, between the two threads |
| `DetectionFilter` | `detection_filterer::apply`, one action for each turn of its loops |
| `Tracker` | `tracker::track`, one action for each turn of its loops, and the clock |
| `MCTvmDrpai`, `MCPostProcessor`, `MCDetectionFilter`, `MCTracker` | models, networks, requests and detections for TLC |
| `DrpaiControllerProofs`, `PipelineProofs`, `TvmDrpaiProofs`, `PostProcessorProofs`, `DetectionFilterProofs`, `TrackerProofs` | theorems and their proofs |
| `PreParamsProofs` | lemmas about the operators of `PreParams`: what a request does to shapes and colours |
| `NaturalLemmas` | lemmas about numbers: induction stated with a set, order of products, a number in two places |

Operators whose comment begins with "Mutant of" are defects on purpose; the
properties are known to find them, and no specification uses them.

### DrpaiController

`stream` is the program counter of the pipeline's side and `infer` that of
`thread_function_single`. One counter is enough for the application thread and
the streaming thread, because GStreamer stops the streaming thread before it
changes the state from READY to NULL. Where the C++ code has a step that the
other thread can see half done there are two actions: `Copy`/`EndCopy`,
`BeginMap`/`EndMap`, `StartInference`/`EndInference`, `Test`/`Sleep` (the
predicate of `v.wait` and the sleep), `Publish`/`Notify` (the store and
`notify_one`), `BeginRender`/`EndRender` and `BeginExtract`/`EndExtract` (the
two sections of the post-processor's mutex).

| Code | Actions |
|---|---|
| `open_resources` | `OpenDisabled`, `OpenThread`, `OpenDevice`; a second attempt is `Reopen` |
| `open_resources_with_image_size` | `BeginMap`, `EndMap`, `RefuseCaps` |
| `process_image` | `Arrive` (the switch), `Copy`, `EndCopy`, `Publish`, `Notify`, or `CallInline` and `ReturnInline`, then `Render`, or `AskDetections`, `BeginRender` and `EndRender` when boxes of `last_det` are drawn |
| `thread_function_single` | `LockState`, `SetReady`, `Test`, `Sleep`, `Reacquire`, `Prepare`, `StartInference`, `EndInference`, `BeginExtract`, `EndExtract`, `SaveBmp`, `SendSocketData`, `Succeed`; errors are `Throw` and `Catch` |
| `thread_function_loop` | `Returned`, `Fail` |
| `release_resources` | `Close`, `Join` |

A frame is its number, and detections are the number of the frame they were
computed from; that is all the properties need. The image is -1 (`Torn`) while
it is partly written, and what the hardware reads becomes torn when anybody
writes meanwhile. The mutexes are not variables: the inference thread holds
`state_mutex` exactly in three states, and the section of `release_resources`
is one action; it holds the post-processor's in the state `"extracting"`, and the
streaming thread in the state `"drawing"`. Without `show-bbox`, and for the list of
the tracker, the streaming thread takes no lock (`Render`).
Undefined behaviour is a choice: with `StoresInOrder = FALSE` the store of
`Processing`, which no lock or fence orders, may be seen before the image is
complete (`late_copying`). The history variable `disturbed` says that since a
frame was last handed over in order the image was replaced by a CAPS event, or
a frame was handed over too early.

### Pipeline

`DrpaiController` lets its operations be called whenever their order allows
it. `Pipeline` gives them their callers: `gst_element_set_state` in `main` and
in `message_cb`, and the streaming thread of the source in between.

| Code | Actions |
|---|---|
| `main` up to the loop | `ConstructSplitThread`, `ConstructThreadStop`, `OpenElement`, `StartSource`, `EnterLoop`, `StartFails` |
| `signalHandler` | `Signal` |
| `message_cb` | `HandleError`, `HandleEos`, then `CloseElement` and `Closed` for the change to NULL |
| the end of `main` | `StopSplit`, `JoinSplit`, `Free` |
| `worker_thread` | `TestStop`, `Look`, `EmitSplitNow`, `SleepSecond` |
| `system_clock`, which may be set at any time | `SetClock` |
| the source (GstBaseSrc, external) | `StartSource`, `Stream`, `FlowError`, `EndOfStream` |

The members of `split_thread` are initialised in their order of declaration,
so the thread may read `thread_stop` before it has a value (`PipelineInit`
leaves it open). The clock counts ticks since the full hour. It moves by the
sleeps of the split thread, somewhat more than these ask for, and by `SetClock`
between any two steps of it, forward, back or to another hour, which is also
the time that passes outside of the sleeps. The history variable `cut` says that
`split-now` was emitted in this hour of the clock, and that the clock was not
set back since.

### BaseDrpai, PreParams and TvmDrpai

One specification has both kinds of models; `tvm` says which one is used.
Every call into the driver, every file and every library call may fail, in each
way in which the code tells failures apart: a `runtime_error` ends the state
change or, with `stop_error` off, is forgotten (`AfterOpenError`), an exception
of another type ends the program, and an error of PreRuntime's loader that is
stored in a `uint8_t` is not seen at all (`lost`). After a state change that
failed the application may ask for it again (`"closed"`); an element that was
released is not opened again, since its controller is gone.

| Code | Actions |
|---|---|
| `BaseDRPAI::open_resource` | `OpenDriver`, `ReadAddrmap`, `ReadDataIn`, `LoadFile`, `LoadParamFile` |
| `BaseDRPAI::run_inference` | `Start`, `WaitDone` or `Timeout`, `GetResult`, `Return` |
| `BaseDRPAI::release_resource` | `Release` |
| the driver and the hardware (external) | `DriverStarts`, `HardwareEnds` |
| `PreRuntime::Load` | `PreOpen`, `ReadAddrmapTxt`, `ParseParamInfo`, `LoadHeldFile`, `LoadFileToMemDynamic`, `LoadInfo` |
| `PreRuntime::Pre` | `PreUpdate`, `PreStart`, `PreDone` or `PreTimeout`, `PreResult` |
| `PreRuntime::UpdateParamData`, `UpdateWeightData` | the operators of the same names in `PreParams`, from `LoadParamInfo` on |
| `TVM_DRPAI::open_resource`, `run_inference` | `LoadModel`; `RunModel`, `CopyOutputs` |

A frame and everything computed from it is its number. `Torn` is a frame that
was overwritten while the hardware still read it, after a time-out. `NextFrame`
is the controller's copy, which does not ask whether the hardware has ended.
The hardware is external: it refuses to start while it runs, and it need never
end. In `PreParams` a width and a height, which the code always treats
together, are one number; a model is the sequence of its operators with the
parameters that each library has; half-precision coefficients are one number
for all three channels. After a second `Load` PreRuntime's `param_info` has
each operator twice, with the same offsets into the parameters of the device:
`pre.copies` counts them, and the loops that run over `param_info` then come
past an operator once more (`UpdateResizeShape`, `UpdateCropParam`). What they
write into `param_info` itself nobody reads, so that the bytes are all there is to
know. `unwritten` is a history variable: what a refused request has changed was not
yet written to the device.

TVM_DRPAI itself asks `Pre` for no change but the address of its input; the
requests of the model are those any user of PreRuntime's public interface may
make.

### PostProcessor

`stream` is the streaming thread, which also handles the options (before the
element is opened) and CAPS events; `infer` is the inference thread. A list of
detections is the number of the run that wrote it, and whether it is finished.

| Code | Actions |
|---|---|
| `set_property` (region) | `SetProperty` |
| `open_resource` | `BeginOpen`, `LoadLabels`, `LoadGrids`, `EndOpen` |
| `extract_detections` | `BeginExtract` (lock and clear), `Decode`, `Filter`, `BeginTrack`, `EndTrack`, `EndExtract` (unlock) |
| `get_json` | `GetJson` |
| `render_detections_on_image` | `Frame`, `BeginRender`, `EndRender` |

The layout of the output tensor is computed as in the code, with `item_size`,
`anchor_offset` and, where cells are decoded, the grids (`Grid`) as eight bits;
products of sizes fit in their 32 bits, and a layer's number in its eight
(`LayersAssumption`). `Offset` is `yolo_offset`, `Cells`
and `Reads` are the loops of the two decoders, `DecodeThrows` is where
`vector::at` or `matrix_ref` throw. The probabilities are left out: before
version 8 anchors are only looked at for a detection above the threshold, so
`Decode` may pass in spite of `DecodeThrows`. Without labels the greatest
element of an empty vector is read, which ends the program here. `failed` says
that the last run has thrown, and `again` which sizes of the region were given
a second time with their edge not given since. The image has the same size at
each CAPS event.

### DetectionFilter

Nodes of the list are numbers of the input and iterators are positions; 0 is
`end()`. libstdc++'s list is circular around its sentinel, so that `++end()` is
`begin()` and `--begin()` is `end()`; both loops depend on that. Boxes are
intervals on one line, one pixel high, and the arithmetic is exact. Using the
sentinel as a detection ends in the state `"undefined"`.

### Tracker

Items are numbered in the order of their IDs, the two lists are sequences of
IDs, the permutation is a set of records, and `Match` takes any record of least
distance because `std::sort` leaves the order of equal ones open. `Tick` moves
`system_clock` between any two steps, in the checked instance also back.
`history_length` has its 16 bits. `before` is a history variable for the
property about the matching.

## The runs

| Run | Shows | States |
|---|---|---|
| `controller_control` | for any build, order of stores and a second CAPS event: type correctness (at most three errors), inline detections are those of the buffer, the image is written under inference in two cases only, whole detections, bitmaps that match, detections that never go back and at most one analysis of a frame from the next frame on that is handed over in order, `FLOW_ERROR` has a cause, `process_image` returns, closing ends | 162 000 |
| `controller_handoff` | for one CAPS event and stores in order: refinement of the mailbox | 40 000 |
| `pipeline` | a signal or a refused buffer ends the program; nothing is left running; the element is not used after its release; one cut an hour at most unless the clock is set back | 430 000 |
| `inference` | results are those of their frame, only whole models run, what was opened is closed, parameters reach the device, operators fit each other after any sequence of requests, formats are as reported, a run returns | 711 000 |
| `postprocessor` | the output is read once and whole, decoding fails for a cause, a list that is rendered stays and is whole but after a failed run, the region is as asked for in any order of the options, a frame does not wait for good | 186 000 |
| `filter_apply` | suppression leaves no rivals, takes nothing without a rival as good that overlaps it, keeps each class's best; the second loop loses nothing wanted; `apply` returns | 192 000 |
| `tracker_track` | one item for each detection, a stable matching, right counts, closed history | 2 058 000 |
| `lost_wakeup` | **violated:** a frame that was handed over need not be taken | |
| `release_before_caps` | **violated:** inference may run without an image | |
| `filter_classes` | **violated:** what the filter excludes may stay | |
| `tracker_history` | **violated:** history is dropped early | |
| `render_tracked` | **violated:** a list may be rendered while it is replaced | |

### What the violated runs say

* `lost_wakeup` (`drpai_controller.cpp:68-69`): `Processing` is stored and
  `notify_one` called without `state_mutex`. Between the predicate and the
  sleep of the inference thread the notification is lost. All later buffers
  find `Processing`, so nothing notifies again: the video goes on with old
  boxes and no error. Taking the mutex for the store is enough.
* `release_before_caps` (`:206`, `:211`): `Closing` satisfies the predicate, so
  the thread runs an inference before it notices; without a CAPS event its
  image is a null pointer. `Pipeline` reaches this with a signal that comes
  before the source has started.
* `filter_classes` (`detection_filterer.cpp:55-66`): after `det = d.erase(det)`
  the loop's `++det` skips a detection; after the first of the two erasures
  the next detection is only tested for the region, and at the end of the list
  the sentinel is taken for a detection.
* `tracker_history` (`yolo_post_processor.cpp:462`): minutes times sixty in a
  `uint16_t`; 1440 minutes become 348. The same property also fails, by up to
  the time between two calls of `track`, for shorter histories, because items
  that leave `current_items` in one call are not sorted by `seen_last` and
  `erase_outdated_history` drops everything behind the first outdated one.
* `render_tracked` (`yolo_post_processor.cpp:419`): with tracking
  `render_detections_on_image` iterates `last_tracked_detection` without the
  mutex under which `extract_detections` lets the tracker clear and refill it.
  In C++ that is a data race on a vector, and on the items it points to.

What the properties of the passing runs exclude is worth reading too, since it
is what the code does:

* The five properties of the controller's data permit what a store of
  `Processing` that overtakes the copy, or a second CAPS event, does to the frame
  it meets (`disturbed`): its detections may be mixed. They say that it ends
  there. Only `MailboxSpec` is checked without both.
* `OneSplitAnHour` permits a second cut once the clock was set back, since the
  thread then comes past the full hour again.
* `OwnResult` excludes errors that the hardware reports in its status
  (`base_drpai.cpp:172`), inputs of a type that `TVM_DRPAI` does not support,
  and an element that went on after it failed to open.
* `WholeModelRuns` excludes errors of the driver that a `uint8_t` hides, and
  `stop_error` off with the plain driver access.
* `ClosedAfterRelease` holds for the first attempt only: a second one
  overwrites the descriptor, and PreRuntime's own is never closed.
* `ParamsReachDevice` excludes errors of the driver that a `uint8_t` hides. A
  request that is refused half way is not excluded: until one that is accepted
  writes the operators, these may differ from the device, and from then on
  they do not.
* `ChainFits` excludes models with a crop, where a new shape of the input
  becomes the output of the crop, and models with a resize after a second
  attempt to open the element, where a new shape of the output is also written
  to the operators in front of the resize. `FormatAsReported` excludes those
  whose imagescaler swaps the colours behind a conversion from YUV, and colour
  models with neither a conversion nor an imagescaler: there `UpdateParamData`
  finds no operator to change and reports the formats asked for all the same
  (`Convertible`).
* `EveryValueOnce` and `DecodeFailsForCause` hold for one CAPS event and at most
  255 channels. A second CAPS event appends labels, anchors and grids to
  themselves, and all later runs of versions before 8 read beside the values.
  `EveryValueOnce` also needs labels, and grids of at most 255: a larger one is
  cut to its last byte, and some or all of the values are not read.
* `RenderedWhole` permits a list that the last run has left half done by an
  exception; the next run replaces it.
* `RegionAsAsked` excludes, for each axis of its own, a size without that of the
  other axis, which `open_resource` replaces, and the edge of a size that was given
  a second time after it: `set_filter_region_width` takes the centre for the
  edge, which it is only while the width is zero.

Read in the code on the way, without a run: the keys `track-history-length`
and `track-doa-thresh` of README.md:64-65 are `history-length` and
`doa-threshold` in `set_property` (`yolo_post_processor.cpp:461,465`), so the
documented ones are refused; `read_data_in_list` stores the line "Height" in
`IN_WIDTH` (`base_drpai.cpp:225-233`), which shows with a model that is not
square; `check_save_bmp` marks a copy of the detection as saved
(`drpai_controller.cpp:461,469`); with `max-drpai-rate=0` the size of the model
is never read, so that `open_resources_with_image_size` refuses the first CAPS
event with an exception nobody catches (`:24`, `:152`, modelled as `RefuseCaps`);
`b_intersection >= area() - 1` makes every box a rival of one of at most a pixel
(`detection_filterer.cpp:32`, which `SuppressedHasReason` names).

### Bounds

* Controller: four buffers and two CAPS events, or five and one. Three failures
  in a row need three buffers, and one more shows what follows; a lost
  notification, a retry and a repeated analysis need two. No behaviour depends
  on the number of a frame but for its order, and the theorems hold without
  the bounds.
* Pipeline: one buffer, one signal, one foreign error, since a program ends
  once: the first of the events that end it decides, and a second one can only
  meet it on the way. An hour has two minutes of two seconds, so that a full
  minute is not a full hour and a second not a full minute. The sleeps and the
  settings of the clock reach every time of the hour, the next one and the one
  before.
* Inference: two attempts to open and two frames, so that a late answer meets
  the next frame, two changes of parameters follow each other, and operators
  are loaded twice. Five preprocessing models have every operator in front of,
  or behind, every other one it may change, and a sixth has none that could
  change colours; seven requests change no, one or several parameters and some
  are refused in the middle. Failures of a write are one at a time. The theorems
  hold without these bounds.
* Post-processor: two runs, so that one finished list is rendered while the
  other is written; two CAPS events; four options, which is each of them once,
  or some of them twice. Eight networks: two layers with two boxes, version 8,
  sizes of items that wrap around to 49 and to 0, a grid of 257, and two
  without labels.
* Filter: all lists of up to four out of ten detections: chains of overlaps
  in which neighbours are rivals and the ends are not, ties, boxes of one pixel,
  and detections outside the region or the class next to each other and at
  either end. The theorems hold for any list.
* Tracker: two detections a frame out of three neighbouring places and a second
  class, three IDs, a clock with four values that moves both ways. Two
  detections that compete for an item and two items that compete for a
  detection need no more; an outdated item in front of and behind one that is
  not needs three. The frame never has a detection twice, as suppression
  guarantees (`NoRivalsLeft`).

### Fairness

The operating system runs every thread that can run; nothing the environment
decides is forced.

* Controller (`FairSpec`): weak fairness of the steps of the inference thread,
  of `process_image` once a buffer has arrived, of opening, mapping and
  joining. Buffers, CAPS events, spurious wake-ups and the decision to close
  are free. The wait for the lock in `release_resources` has strong fairness,
  since the inference thread takes and releases the mutex again and again and a
  pthread mutex lets a waiter through at some time. For the post-processor's
  mutex weak fairness is enough here: the inference thread does not extract
  again before the next buffer, which only the streaming thread brings. A run of the hardware ends
  with a result or an error, which is what `RunReturns` of `inference` shows.
* Pipeline (`FairPipelineSpec`): the same for `main`, the streaming thread
  inside of a call, the inference thread and the split thread. External is
  what GstBaseSrc does: it sends EOS once it was asked to or after a flow error
  (strong fairness, because buffers may come in between). Signals, buffers and
  foreign errors are free.
* Inference: weak fairness of the thread that runs the inference, whose
  `select` times out. The hardware has no fairness, it need never answer.
* Post-processor: weak fairness of both threads inside of their functions and
  strong fairness for the mutex: the inference thread lets go of it for the
  time of an inference.
* Filter: weak fairness of the only thread there is. The tracker has no
  liveness property: each of its loops runs over a list or set that shrinks.

No run turns the check for deadlocks off. The states in which the program may
really stop (`Stopped`, `Returned`, `ProgramOver`) have a step that changes
nothing.

## The proofs

`DrpaiControllerProofs`, for any number of frames:

* `ControlInv` is inductive without an assumption about the constants. Type
  correctness alone is not: `error_retries <= 3` needs that no run starts once
  the third error was counted, which needs to know where an inline run can be
  (`InlineOnly`, `InlineState`) and what `Failed` and `Closing` leave open
  (`ErrorsFinal`, `ClosingIsLast`). It gives `TypeCorrect` and
  `FlowErrorsCaused`. On top of it `InlineInv` follows one buffer through
  `process_image` without a thread: the image, what the hardware read and the
  detections are this buffer's, unless a run failed (`InlineCurrent`).
* `HandoffInv` and `DataInv` are inductive without an assumption, too. The core is
  that `Ready` is visible only while the inference thread is at rest
  (`ReadyMeansAtRest`) and that a copy runs only while `Ready` is
  (`CopyWhileReady`), but for the copy that `Processing` has overtaken; from these
  follows `Exclusion`. While no frame was disturbed, the image then stays what
  the hardware read (`InputIsImage`, `TornWhileWriting`), hence `DetectionsWhole`,
  `BitmapsMatch` and `DetectionsNeverGoBack`; `UndisturbedRun` and
  `WhoWritesDetections` say which steps there are to look at. `OnceInv` adds that
  the image is newer than what was read last whenever it waits for the thread
  (`WaitingIsNew`), which is `AnalysedOnce`: a retry begins by setting `Ready`, and
  so waits for a new frame.
* `ImplementsMailbox` alone assumes `StoresInOrder` and `MaxCaps = 1`: `NeverDisturbed`
  says that then nothing is ever disturbed, and the rest is step by step. TLC
  refutes it without either.

`PipelineProofs`, for any number of frames, signals and errors and any clock:

* `PipelineStep`: each step of the program is one of `DrpaiController` or
  leaves it alone, hence `PipelineImplementsController`. Whatever is proved
  about the controller holds in the program; `PipelineExclusion` is an example.
* `RestInv` says that the inference thread is at rest once the element is
  released, which `ControlInv` alone does not: an element with the DRP-AI
  disabled never has a thread. With it nothing of the controller moves after
  the release (`NotUsedAgain`), and with `SplitJoined`, that `main` does not go
  on before the split thread is back, `NothingLeft` follows.
* `CutIsPast`: after a cut the thread is either still in the two sleeps that
  follow it or past the full second. A sleep, however long, or a new setting of
  the clock either leaves it there or comes to another hour or back, and then
  there is no cut in this hour (`OneSplit`).

`TvmDrpaiProofs`, for any models, requests and outputs and any number of
attempts and frames:

* `Control` says where each kind of model can be and that the hardware is idle
  while files are loaded; `Descriptor` counts what is open; `Loaded` says which
  files are in the device at each step of both loaders, from which
  `OnlyWholeModels` follows.
* `Results`: what the hardware has read is the frame in the udmabuf, unless a
  run timed out and the image was overwritten (`Torn`); a result is fetched only
  of the frame that was started last. With `Room`, that all of the outputs fit
  or the run throws, this is `ResultIsOwn`.
* `Params`: the device has the coefficients of PreRuntime, and its operators unless
  a refused request has left some unwritten, as long as no write was lost. The
  lemma `NoUpdate` has the core of it: an update that reports no change has
  changed no operator, and so has one that was refused before it changed any.
* `ParamInfo`: what PreRuntime holds goes with the model (`Fits`): its operators
  are those of the model, in the model's order, each reads the shape that the
  one before it writes, and the parameters that decide on colours agree with the
  formats it reports (`Agrees`). The last is stronger than `FormatAsReported`,
  which only compares the output: a later request starts from the format of
  the input and the order of the imagescaler as well. `ParamInfo` also holds
  after a request that was refused in the middle, and for the chain in models
  without a resize also when there are two copies of the operators. `ShapesStayAChain` and
  `FormatsAsReported` follow.

  `PreParamsProofs` has the sequential part. `StepsOfUpdate` walks through
  `UpdateParamData` in its order (shape, format, crop, resize, algorithm).
  `SameShapes` and `SameColours` are what a step leaves alone: only the steps of
  shape and resize have to argue about the chain, and only that of the format
  about colours. These loops stop at the first operator that settles the
  matter, and the proofs show where that is in each of the kinds of models.

  These two rest on `ModelsAssumption`: models are as DRP-AI's translator makes
  them (`Translated`). Only the first operator converts colours and there is one
  resize; PreRuntime looks for the first of each and is wrong about any model
  with two.

`PostProcessorProofs`, for any networks and numbers of options, CAPS events and
runs:

* `LockInv`: the inference thread holds the mutex exactly while it extracts, and
  the streaming thread exactly while it renders without tracking; a list is
  unfinished only in between or when the last run threw an exception.
  `RenderingSeesWhole` follows.
* `RegionInv`: the region is, at each point, the function of the options given
  so far that does not depend on their order (`Placed`), which is what makes
  the setters commute although `set_filter_region_width` moves the centre; a size
  given again is followed in `again` until its edge is.
* `ReadsEveryValueOnce` and `DecodingFailsForCause` are about the arithmetic of
  `yolo_offset` for networks of any size. The grids are summed by a recursive
  function, and what is known of it is proved by induction over the layers:
  `SetInduction` of `NaturalLemmas` takes the set of the numbers for which a
  formula holds, where the library's theorem takes an operator.
  `SumOfLayersBefore` says that the layers before one, and that one, fit below
  the sum of all. Box, layer and cell of a value are then digits of its place:
  `Two(t, q, r)` is t * q + r, and each number is that for one `t` and
  one `r` below q (`TwoPlacesExist`, `TwoPlacesUnique`), and so every place
  below the sum belongs to one layer (`PlaceUnique`) and every value of the
  output to one cell (`LayersCounted`; `ColumnsRead` for version 8).
* `LayoutInv` says at which step of `open_resource` which part of the layout has
  been read, and that after it (`Complete`) sizes are those of the files. It holds
  up to the second CAPS event, as the two properties do. `FilesAssumption` is
  that label, anchor and grid files belong to their network: the output is a
  whole number of boxes, with two anchors for each. `Belong` does not assume
  that channels, item sizes or grids fit their eight bits. That the size of an
  item wraps around is what remains as the cause of a failure; a grid that does
  only makes the places smaller, which is what `DecodingFailsForCause` shows of it.

`DetectionFilterProofs`, for any list, thresholds and filter:

* `LoopInv`: the list is strictly increasing, the rows before the outer
  iterator are free of rivals (`Rows`), and so is its own row up to the inner
  iterator (`Row`). `EraseProperties` says what erasing does to positions, and
  `Old` translates a position after an erasure to the one before. At the end
  of the outer loop `Rows` is `NoRivalsLeft`.
* `LeftStep`: whatever a step erases has a rival of at least its probability
  that stays. Here it matters that being rivals is symmetric
  (`RivalsSymmetric`). `UnbeatenStays`, `BestStays` and `SuppressionHasReason`
  follow.
* `WantedStays`: the second loop erases only what is out of class or region.

`TrackerProofs`, for any detections, thresholds and clock:

* `Lists`: the two lists are each without repetition and have no item in
  common. It is not enough to know this of each list: `erase_outdated_history`
  cuts the tail of one while `track` moves items into it from the other, and
  `counts` belongs to both. `Counted` and `BothCounted` turn it into the
  cardinalities that `Counts` compares class by class, which gives
  `CountsRight`, and with it that no count gets below zero (`TypeCorrect`).
* `Matching` and `Candidates`: the records that are left pair a detection that
  is still pending with an item that is still unmatched and was already looked
  at. `OneItem` follows at the end of the matching.
* `Stable`: a near pair keeps its record until one of the two is matched at
  least as near, since `Match` takes a record of least distance
  (`MatchingStable`).
* `HistoryClosed` follows from `Lists` and `Matching`: what is matched was in
  `current_items`, and nothing in the history is.

Only model-checked: liveness (`ChainReturns`, `ReleaseCompletes`,
`SignalEndsProgram`, `FlowErrorEndsProgram`, `RunReturns`, `FrameRendered`,
`Terminates`), which needs ENABLED. Every invariant and every action property of
the passing runs has a theorem.

Assumed, not shown: `DrpaiController` takes it that a run that throws has ended
in the hardware too (`inference` shows that after a time-out it has not);
GStreamer serialises its calls into the element; arithmetic on boxes is exact;
the files of a model belong together (`ModelsAssumption`, `FilesAssumption`).

## What is not modelled

* Drawing, fonts and colour conversion (`image.cpp`), and the probabilities and
  boxes that the values of the output decode to: arithmetic without state.
* The text of parameter, address and label files: a file is missing, is refused,
  or is read. The same holds for `parse_param_info` of PreRuntime and its
  half-precision coefficients.
* PreRuntime's MODE_POST and its `SetInput`, `Occupied` and
  dumping functions, which the plug-in does not call, and the MERA run time, a
  library that is not in the repository (external).
* MobileNet and the dummy model: they fill the same list under the same lock.
* JSON, UDP, average rates and the sleeping of the rate limiters; GObject
  properties other than those the models name.
* Build files and recipes.

## Plan

Done: all of the modules above. What is left, in this order:

1. The tracked list with the races of its readers in C++: which reads of
   `get_json` and `render_detections_on_image` may meet freed items; that needs
   `Tracker` composed with `PostProcessor`.
2. `Image` as a module: the buffer in front of the udmabuf for YUV, and the
   drawing on the buffer that is pushed on while the other is read.
3. MobileNet's `extract_detections` in `PostProcessor`.
4. Proofs: that a run of the hardware in `DrpaiController` is what
   `BaseDrpai` promises of one.
