-------------------------- MODULE DrpaiController --------------------------
(***************************************************************************)
(* DRPAI_Controller: the hand-over of frames between the GStreamer         *)
(* streaming thread and the inference thread.                              *)
(*                                                                         *)
(* `stream' is the program counter of the pipeline's side.  GStreamer      *)
(* calls open_resources, open_resources_with_image_size, process_image and *)
(* release_resources one after the other (it stops the streaming thread    *)
(* before a state change from READY to NULL), so one counter stands for    *)
(* the application thread and the streaming thread.  `infer' is the        *)
(* program counter of thread_function_single, which either the loop of the *)
(* inference thread runs (multithread) or process_image itself calls.      *)
(*                                                                         *)
(* thread_state is a plain enum: process_image reads and writes it without *)
(* state_mutex, the other functions under it.  The mutex is held by the    *)
(* inference thread exactly in the states of HoldsStateMutex; the section  *)
(* of release_resources that holds it is the single action Close.          *)
(* The mutex of the post-processor is another one: the inference thread    *)
(* has it while it extracts the detections, the streaming thread while it  *)
(* draws them.                                                             *)
(*                                                                         *)
(* A frame is its sequence number, the detections are the number of the    *)
(* frame they were computed from, and 0 is the blank image that mapping    *)
(* the udmabuf leaves behind.  The image is what copy writes and prepare   *)
(* and the DRP-AI read: the udmabuf, and the buffer in front of it when    *)
(* the model wants YUV.                                                    *)
(***************************************************************************)
EXTENDS Integers

CONSTANTS
  MaxFrames,      \* bound: buffers pushed into the element
  MaxCaps,        \* bound: CAPS events, each of which maps the udmabuf again
  StoresInOrder   \* FALSE: the unsynchronised store of Processing may become
                  \* visible before the stores of the copied image

ASSUME BoundsAssumption == MaxFrames \in Nat /\ MaxCaps \in Nat
ASSUME StoresAssumption == StoresInOrder \in BOOLEAN

Torn == -1   \* an image that is only partly written

\* Mutant of MaxErrors: one error too few.
TwoErrors == 2

MaxErrors == 3   \* failed runs in a row that end inference

VARIABLES
  enabled,        \* max_drpai_rate is not zero, set before the element is opened
  multithread,    \* property, set before the element is opened
  stop_error,     \* property of the element, set before it is opened
  thread_state,
  stream,         \* where the pipeline's side is
  infer,          \* where thread_function_single is
  frame,          \* number of the last buffer that arrived
  caps,           \* CAPS events seen
  mapped,         \* image_mapped_udma is not null
  udma,           \* the frame in the udmabuf, or Torn
  input,          \* the frame the DRP-AI read, or Torn
  disturbed,      \* history: since a frame was last handed over in order, the
                  \* image was replaced, or a frame handed over too early
  last_det,       \* the frame that the published detections describe
  error_retries

settings == <<enabled, multithread, stop_error>>
image == <<caps, mapped, udma, input, disturbed>>
vars == <<enabled, multithread, stop_error, thread_state, stream, infer, frame, caps,
          mapped, udma, input, disturbed, last_det, error_retries>>

ThreadState == {"Unknown", "Ready", "Processing", "Failed", "Closing"}

StreamStates ==
  {"null", "opening", "abandoned", "unopened", "ready", "mapping", "idle",
   "copying", "copied", "late_copying", "published", "inline", "render",
   "want", "drawing", "halted", "release", "join", "released", "crashed"}

InferStates ==
  {"off", "top", "checked", "test", "sleep", "waiting", "woken", "prepare",
   "start", "running", "extract", "extracting", "bmp", "socket", "json",
   "catch", "escape", "exited", "crashed"}

\* open_resources creates the inference thread.
HasThread == enabled /\ multithread

HoldsStateMutex == infer \in {"checked", "test", "sleep"}

\* From the wake-up to the end of check_save_bmp the image is in use.
InSection == infer \in {"prepare", "start", "running", "extract", "extracting", "bmp"}

\* The pipeline's side is writing the udmabuf.
Writing == stream \in {"mapping", "copying", "copied", "late_copying"}

\* Mutant of Returned: an inline run loops like the thread does.
ReturnedToLoop == "top"

\* Where thread_function_single returns to.
Returned == IF multithread THEN "top" ELSE "off"

\* Mutant of Notified: nobody is notified.
NotNotified == infer

\* v.notify_one wakes the inference thread if it sleeps, and is lost if not.
Notified == IF infer = "waiting" THEN "woken" ELSE infer

\* Writing the udmabuf while the hardware reads it tears what it reads.
ReadDuringWrite == IF infer = "running" THEN Torn ELSE input

TypeOK ==
  /\ enabled \in BOOLEAN
  /\ multithread \in BOOLEAN
  /\ stop_error \in BOOLEAN
  /\ thread_state \in ThreadState
  /\ stream \in StreamStates
  /\ infer \in InferStates
  /\ frame \in Nat
  /\ caps \in Nat
  /\ mapped \in BOOLEAN
  /\ udma \in Nat \union {Torn}
  /\ input \in Nat \union {Torn}
  /\ disturbed \in BOOLEAN
  /\ last_det \in Nat \union {Torn}
  /\ error_retries \in 0 .. MaxErrors

Init ==
  /\ enabled \in BOOLEAN
  /\ multithread \in BOOLEAN
  /\ stop_error \in BOOLEAN
  /\ thread_state = "Unknown"
  /\ stream = "null"
  /\ infer = "off"
  /\ frame = 0
  /\ caps = 0
  /\ mapped = FALSE
  /\ udma = 0
  /\ input = 0
  /\ disturbed = FALSE
  /\ last_det = 0
  /\ error_retries = 0

-----------------------------------------------------------------------------
(* open_resources and open_resources_with_image_size                       *)

\* max_drpai_rate = 0: no thread is created and no device is opened.
OpenDisabled ==
  /\ stream = "null"
  /\ ~enabled
  /\ stream' = "unopened"
  /\ UNCHANGED <<settings, thread_state, infer, frame, image, last_det, error_retries>>

\* The thread is created before the devices are opened, and its first
\* statement that matters is a step of its own.
OpenThread ==
  /\ stream = "null"
  /\ enabled
  /\ stream' = "opening"
  /\ infer' = IF multithread THEN "top" ELSE "off"
  /\ thread_state' = IF multithread THEN thread_state ELSE "Ready"
  /\ UNCHANGED <<settings, frame, image, last_det, error_retries>>

\* Opening the udmabuf address file and the DRP-AI.  After an exception the
\* element fails its state change; with stop_error off it goes on, with or
\* without the size of the model's input.
OpenDevice ==
  /\ stream = "opening"
  /\ stream' \in {"ready", IF stop_error THEN "abandoned" ELSE "unopened"}
  /\ UNCHANGED <<settings, thread_state, infer, frame, image, last_det, error_retries>>

\* The application asks for READY again after a failure: the unique_ptr of
\* a thread that is still joinable is overwritten, which ends the program.
Reopen ==
  /\ stream = "abandoned"
  /\ stream' = IF multithread THEN "crashed" ELSE "opening"
  /\ infer' = IF multithread THEN "crashed" ELSE infer
  /\ UNCHANGED <<settings, thread_state, frame, image, last_det, error_retries>>

\* gst_drpai_sink_event throws on an exception, and no caller of it catches:
\* the size is not the model's, the udmabuf cannot be mapped, a file of the
\* post-processor is missing, or the old image is freed under its reader.
RefuseCaps ==
  /\ stream \in {"unopened", "ready", "idle"}
  /\ stream' = "crashed"
  /\ infer' = "crashed"
  /\ UNCHANGED <<settings, thread_state, frame, image, last_det, error_retries>>

\* A CAPS event maps the image, or replaces it: map_udmabuf fills the udmabuf
\* with zeros.
BeginMap ==
  /\ stream \in {"ready", "idle"}
  /\ caps < MaxCaps
  /\ stream' = "mapping"
  /\ caps' = caps + 1
  /\ mapped' = TRUE
  /\ udma' = Torn
  /\ input' = ReadDuringWrite
  /\ disturbed' = (disturbed \/ caps > 0)
  /\ UNCHANGED <<settings, thread_state, infer, frame, last_det, error_retries>>

EndMap ==
  /\ stream = "mapping"
  /\ stream' = "idle"
  /\ udma' = 0
  /\ UNCHANGED <<settings, thread_state, infer, frame, caps, mapped, input, disturbed,
                 last_det, error_retries>>

-----------------------------------------------------------------------------
(* process_image, called by gst_drpai_chain                                *)

\* An exception out of process_image: FLOW_ERROR ends the stream, or the
\* element pushes the buffer as it is and waits for the next one.
AfterError == IF stop_error THEN "halted" ELSE "idle"

\* Mutant of Arrive: the case for Processing falls into the one for Ready.
ArriveFallsThrough ==
  /\ stream = "idle"
  /\ frame < MaxFrames
  /\ frame' = frame + 1
  /\ stream' = IF thread_state \in {"Ready", "Processing"} THEN "copying" ELSE AfterError
  /\ UNCHANGED <<settings, thread_state, infer, image, last_det, error_retries>>

\* The switch over thread_state, read without the mutex.
Arrive ==
  /\ stream = "idle"
  /\ frame < MaxFrames
  /\ frame' = frame + 1
  /\ stream' = CASE thread_state = "Ready" -> "copying"
                 [] thread_state = "Processing" -> IF multithread THEN "render" ELSE "published"
                 [] OTHER -> AfterError
  /\ UNCHANGED <<settings, thread_state, infer, image, last_det, error_retries>>

\* The first byte of Image::copy ...
Copy ==
  /\ stream = "copying"
  /\ udma # Torn
  /\ udma' = Torn
  /\ input' = ReadDuringWrite
  /\ UNCHANGED <<settings, thread_state, stream, infer, frame, caps, mapped, disturbed,
                 last_det, error_retries>>

\* Mutant of EndCopy: the image stays what inference read before.
EndCopyOfOldImage ==
  /\ stream \in {"copying", "late_copying"}
  /\ udma = Torn
  /\ udma' = input
  /\ stream' = IF stream = "copying" THEN "copied" ELSE "published"
  /\ UNCHANGED <<settings, thread_state, infer, frame, caps, mapped, input, disturbed,
                 last_det, error_retries>>

\* ... and its last one.
EndCopy ==
  /\ stream \in {"copying", "late_copying"}
  /\ udma = Torn
  /\ udma' = frame
  /\ input' = ReadDuringWrite
  /\ stream' = IF stream = "copying" THEN "copied" ELSE "published"
  /\ UNCHANGED <<settings, thread_state, infer, frame, caps, mapped, disturbed, last_det,
                 error_retries>>

\* Mutant of Publish: Processing is stored before the image is copied.
PublishFirst ==
  /\ \/ stream = "copied"
     \/ stream = "copying" /\ udma = Torn
  /\ thread_state' = "Processing"
  /\ stream' = IF stream = "copied" THEN "published" ELSE "late_copying"
  /\ disturbed' = FALSE
  /\ UNCHANGED <<settings, infer, frame, caps, mapped, udma, input, last_det, error_retries>>

\* thread_state = Processing, without the mutex.  When stores may pass each
\* other it becomes visible while the image is still being written.
Publish ==
  /\ \/ stream = "copied"
     \/ stream = "copying" /\ udma = Torn /\ multithread /\ ~StoresInOrder
  /\ thread_state' = "Processing"
  /\ stream' = IF stream = "copied" THEN "published" ELSE "late_copying"
  /\ disturbed' = (stream # "copied")
  /\ UNCHANGED <<settings, infer, frame, caps, mapped, udma, input, last_det, error_retries>>

\* v.notify_one, without the mutex.
Notify ==
  /\ stream = "published"
  /\ multithread
  /\ infer' = Notified
  /\ stream' = "render"
  /\ UNCHANGED <<settings, thread_state, frame, image, last_det, error_retries>>

\* Without a thread process_image runs the inference itself.
CallInline ==
  /\ stream = "published"
  /\ ~multithread
  /\ thread_state' = "Ready"
  /\ infer' = "top"
  /\ stream' = "inline"
  /\ UNCHANGED <<settings, frame, image, last_det, error_retries>>

ReturnInline ==
  /\ stream = "inline"
  /\ infer = "off"
  /\ stream' = "render"
  /\ UNCHANGED <<settings, thread_state, infer, frame, image, last_det, error_retries>>

\* The corner text, and the push downstream: no boxes are shown, or those of
\* the tracker, which are drawn without the mutex of the post-processor.
Render ==
  /\ stream = "render"
  /\ stream' = "idle"
  /\ UNCHANGED <<settings, thread_state, infer, frame, image, last_det, error_retries>>

\* render_detections_on_image draws last_det under that mutex ...
AskDetections ==
  /\ stream = "render"
  /\ stream' = "want"
  /\ UNCHANGED <<settings, thread_state, infer, frame, image, last_det, error_retries>>

\* ... for which it may have to wait until an extraction has ended.
BeginRender ==
  /\ stream = "want"
  /\ infer # "extracting"
  /\ stream' = "drawing"
  /\ UNCHANGED <<settings, thread_state, infer, frame, image, last_det, error_retries>>

EndRender ==
  /\ stream = "drawing"
  /\ stream' = "idle"
  /\ UNCHANGED <<settings, thread_state, infer, frame, image, last_det, error_retries>>

-----------------------------------------------------------------------------
(* thread_function_single                                                  *)

\* Take state_mutex; a closing thread throws, and lets go of it.
LockState ==
  /\ infer = "top"
  /\ infer' = IF thread_state = "Closing" THEN "catch" ELSE "checked"
  /\ UNCHANGED <<settings, thread_state, stream, frame, image, last_det, error_retries>>

SetReady ==
  /\ infer = "checked"
  /\ thread_state' = "Ready"
  /\ infer' = IF multithread THEN "test" ELSE "prepare"
  /\ UNCHANGED <<settings, stream, frame, image, last_det, error_retries>>

\* The predicate of v.wait is evaluated ...
Test ==
  /\ infer = "test"
  /\ infer' = IF thread_state # "Ready" THEN "prepare" ELSE "sleep"
  /\ UNCHANGED <<settings, thread_state, stream, frame, image, last_det, error_retries>>

\* ... before the thread lets go of the mutex and joins the sleepers.
Sleep ==
  /\ infer = "sleep"
  /\ infer' = "waiting"
  /\ UNCHANGED <<settings, thread_state, stream, frame, image, last_det, error_retries>>

\* The C++ standard lets wait return without a notification.
SpuriousWakeup ==
  /\ infer = "waiting"
  /\ infer' = "woken"
  /\ UNCHANGED <<settings, thread_state, stream, frame, image, last_det, error_retries>>

\* Mutant of Reacquire: v.wait without its predicate.
ReacquireUnconditionally ==
  /\ infer = "woken"
  /\ infer' = "prepare"
  /\ UNCHANGED <<settings, thread_state, stream, frame, image, last_det, error_retries>>

Reacquire ==
  /\ infer = "woken"
  /\ infer' = "test"
  /\ UNCHANGED <<settings, thread_state, stream, frame, image, last_det, error_retries>>

\* image_mapped_udma->prepare(): undefined when no CAPS event made an image.
Prepare ==
  /\ infer = "prepare"
  /\ infer' = IF mapped THEN "start" ELSE "crashed"
  /\ stream' = IF mapped THEN stream ELSE "crashed"
  /\ UNCHANGED <<settings, thread_state, frame, image, last_det, error_retries>>

\* DRPAI_START: the hardware begins to read the udmabuf ...
StartInference ==
  /\ infer = "start"
  /\ infer' = "running"
  /\ input' = udma
  /\ UNCHANGED <<settings, thread_state, stream, frame, caps, mapped, udma, disturbed,
                 last_det, error_retries>>

\* ... and the select on its file returns.
EndInference ==
  /\ infer = "running"
  /\ infer' = "extract"
  /\ UNCHANGED <<settings, thread_state, stream, frame, image, last_det, error_retries>>

\* extract_detections takes the mutex of the post-processor and clears
\* last_det before anything in it can throw.
BeginExtract ==
  /\ infer = "extract"
  /\ stream # "drawing"
  /\ infer' = "extracting"
  /\ last_det' = input
  /\ UNCHANGED <<settings, thread_state, stream, frame, image, error_retries>>

\* Mutant of EndExtract: the image is given back before the file is written.
EndExtractAndGiveBack ==
  /\ infer = "extracting"
  /\ infer' \in {"bmp", "catch"}
  /\ thread_state' = "Ready"
  /\ UNCHANGED <<settings, stream, frame, image, last_det, error_retries>>

\* It gives the mutex back when it returns or throws.
EndExtract ==
  /\ infer = "extracting"
  /\ infer' \in {"bmp", "catch"}
  /\ UNCHANGED <<settings, thread_state, stream, frame, image, last_det, error_retries>>

\* check_save_bmp returns, with or without writing a file.
SaveBmp ==
  /\ infer = "bmp"
  /\ infer' = "socket"
  /\ UNCHANGED <<settings, thread_state, stream, frame, image, last_det, error_retries>>

\* send_socket_data reads last_det under the mutex, if there is a socket.
SendSocketData ==
  /\ infer = "socket"
  /\ infer' = "json"
  /\ UNCHANGED <<settings, thread_state, stream, frame, image, last_det, error_retries>>

\* It never throws; a successful run forgets earlier errors.
Succeed ==
  /\ \/ infer = "socket"
     \/ infer = "json" /\ stream # "drawing"
  /\ error_retries' = 0
  /\ infer' = Returned
  /\ UNCHANGED <<settings, thread_state, stream, frame, image, last_det>>

\* prepare, the DRP-AI driver calls and save_bmp throw std::runtime_error.
Throw ==
  /\ infer \in {"start", "running", "bmp"}
  /\ infer' = "catch"
  /\ UNCHANGED <<settings, thread_state, stream, frame, image, last_det, error_retries>>

\* Mutants of Catch: the detections are dropped with the error, and the
\* thread never gives up.
CatchAndClear ==
  /\ infer = "catch"
  /\ error_retries' = error_retries + 1
  /\ infer' = IF error_retries' >= MaxErrors THEN "escape" ELSE Returned
  /\ last_det' = 0
  /\ UNCHANGED <<settings, thread_state, stream, frame, image>>

CatchForever ==
  /\ infer = "catch"
  /\ error_retries' = error_retries + 1
  /\ infer' = Returned
  /\ UNCHANGED <<settings, thread_state, stream, frame, image, last_det>>

\* The handler of thread_function_single.
Catch ==
  /\ infer = "catch"
  /\ error_retries' = error_retries + 1
  /\ infer' = IF error_retries' >= MaxErrors THEN "escape" ELSE Returned
  /\ UNCHANGED <<settings, thread_state, stream, frame, image, last_det>>

\* The third error leaves thread_function_loop, or process_image.
Fail ==
  /\ infer = "escape"
  /\ thread_state' = "Failed"
  /\ infer' = IF multithread THEN "exited" ELSE "off"
  /\ stream' = IF multithread THEN stream ELSE AfterError
  /\ UNCHANGED <<settings, frame, image, last_det, error_retries>>

-----------------------------------------------------------------------------
(* release_resources                                                       *)

\* The pipeline is brought down from READY, from streaming or after an error.
Release ==
  /\ stream \in {"unopened", "ready", "idle", "halted"}
  /\ stream' = "release"
  /\ UNCHANGED <<settings, thread_state, infer, frame, image, last_det, error_retries>>

\* Lock, store Closing, notify, unlock.
Close ==
  /\ stream = "release"
  /\ HasThread
  /\ ~HoldsStateMutex
  /\ thread_state' = "Closing"
  /\ infer' = Notified
  /\ stream' = "join"
  /\ UNCHANGED <<settings, frame, image, last_det, error_retries>>

\* Mutant of Join: nobody waits for the thread.
JoinNobody ==
  /\ \/ stream = "join"
     \/ stream = "release" /\ ~HasThread
  /\ stream' = "released"
  /\ mapped' = FALSE
  /\ UNCHANGED <<settings, thread_state, infer, frame, caps, udma, input, disturbed,
                 last_det, error_retries>>

\* process_thread->join() returns, or there never was a thread, and the
\* image is unmapped.
Join ==
  /\ \/ stream = "join" /\ infer = "exited"
     \/ stream = "release" /\ ~HasThread
  /\ stream' = "released"
  /\ mapped' = FALSE
  /\ UNCHANGED <<settings, thread_state, infer, frame, caps, udma, input, disturbed,
                 last_det, error_retries>>

\* The program may stop here: nothing calls the controller any more.
Stopped ==
  /\ stream \in {"released", "abandoned", "crashed"}
  /\ UNCHANGED vars

-----------------------------------------------------------------------------
ProcessImage ==
  \/ Arrive \/ Copy \/ EndCopy \/ Publish \/ Notify \/ CallInline \/ ReturnInline
  \/ Render \/ AskDetections \/ BeginRender \/ EndRender

ThreadFunction ==
  \/ LockState \/ SetReady \/ Test \/ Sleep \/ Reacquire \/ Prepare
  \/ StartInference \/ EndInference \/ BeginExtract \/ EndExtract
  \/ SaveBmp \/ SendSocketData \/ Succeed
  \/ Throw \/ Catch \/ Fail

Next ==
  \/ OpenDisabled \/ OpenThread \/ OpenDevice \/ Reopen \/ RefuseCaps \/ BeginMap \/ EndMap
  \/ ProcessImage
  \/ ThreadFunction \/ SpuriousWakeup
  \/ Release \/ Close \/ Join
  \/ Stopped

Spec == Init /\ [][Next]_vars

\* The operating system runs both threads.  Frames, CAPS events, spurious
\* wake-ups and the decision to close are the environment's.  Close is fair
\* in the strong sense: lock() gets a mutex that is free again and again.
Fairness ==
  /\ WF_vars(OpenDevice)
  /\ WF_vars(EndMap)
  /\ WF_vars(stream # "idle" /\ ProcessImage)
  /\ WF_vars(ThreadFunction)
  /\ SF_vars(Close)
  /\ WF_vars(Join)

FairSpec == Spec /\ Fairness

-----------------------------------------------------------------------------
(* Control: what holds for every build and any number of CAPS events       *)

\* gst_drpai_chain ends the stream with FLOW_ERROR only after three failed
\* runs in a row, or when the first buffer overtakes the start of the thread.
FlowErrorHasCause ==
  [][stream # "halted" /\ stream' = "halted"
       => error_retries = 3 \/ thread_state = "Unknown"]_vars

\* Without a thread, a buffer whose inference did not fail is rendered with
\* its own detections and not with those of an earlier buffer.
InlineDetectionsAreCurrent ==
  ~multithread /\ stream \in {"render", "want", "drawing"} /\ error_retries = 0 =>
    last_det = frame

\* process_image always returns to gst_drpai_chain, although it may wait for
\* the post-processor while the inference thread extracts detections.
ChainReturns ==
  (stream \in {"copying", "copied", "late_copying", "published", "inline", "render",
               "want", "drawing"})
    ~> (stream \in {"idle", "halted"})

\* release_resources ends, from whatever the inference thread was doing, if
\* an image was mapped: also when an earlier wake-up got lost.
ReleaseCompletes == (stream = "release" /\ mapped) ~> (stream = "released")

-----------------------------------------------------------------------------
(* Data: what the hand-over of thread_state protects, and when it does not *)

\* The pipeline writes the udmabuf while prepare, the DRP-AI or check_save_bmp
\* use it, where neither side holds a lock, in two cases only: the store of
\* Processing overtook the copy, and it is that copy, or a second CAPS event
\* replaces the image.
BufferExclusion ==
  Writing /\ InSection => stream = "late_copying" \/ (stream = "mapping" /\ caps > 1)

\* Detections come to mix two frames only in a run on an image that was
\* replaced, or handed over too early: the next frame handed over in order
\* has detections of its own again.
WholeDetections == [][last_det' = Torn => last_det = Torn \/ disturbed]_vars

\* The file check_save_bmp writes shows the very frame whose detections
\* triggered it, unless that frame was disturbed.
BitmapShowsDetections == infer = "bmp" /\ ~disturbed => udma = last_det

\* The published detections never go back to an older frame, except by a run
\* on a disturbed image.
DetectionsAdvance == [][disturbed \/ last_det' >= last_det]_vars

\* While streaming no frame is analysed twice, in spite of spurious wake-ups
\* and of retries after an error.  (An image that is replaced while it waits to
\* be analysed is blank, as the one before it may have been.)
FrameAnalysedOnce ==
  [][infer = "start" /\ infer' = "running" /\ thread_state # "Closing" /\ ~disturbed
       => input' # input]_vars

-----------------------------------------------------------------------------
(* For one CAPS event and stores that stay in order, the abstract view     *)

\* The image belongs to inference from the moment Processing is visible
\* until Ready is, and while an inline run uses it.
Owner ==
  IF InSection \/ infer = "catch" \/ thread_state \notin {"Unknown", "Ready"}
    THEN "inference"
    ELSE "pipeline"

Mailbox == INSTANCE FrameMailbox WITH owner <- Owner, slot <- udma, result <- last_det

\* The controller implements the one-slot mailbox of FrameMailbox.
MailboxSpec == Mailbox!Spec

-----------------------------------------------------------------------------
(* What the documents say and the code does not do                         *)

\* README.md:37,43: a separate thread detects objects and the latest
\* detections are rendered, so a frame handed over is taken by the thread.
PublishedFrameIsTaken ==
  (thread_state = "Processing") ~> (thread_state # "Processing" \/ stream = "crashed")

\* README.md:8-9: the UDMA module provides the input image of the DRP-AI, so
\* inference never runs without one.
InferenceHasImage == infer = "prepare" => mapped
=============================================================================
