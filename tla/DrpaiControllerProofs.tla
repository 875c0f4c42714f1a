----------------------- MODULE DrpaiControllerProofs -----------------------
(***************************************************************************)
(* Proofs about DrpaiController for any number of frames and CAPS events.  *)
(*                                                                         *)
(* ControlInv holds for every build.  It is what keeps error_retries at    *)
(* three: no run starts once the third error is counted.  HandoffInv says  *)
(* which states of the inference thread each thread_state leaves open, and *)
(* from it follows when nobody writes the udmabuf while inference uses it. *)
(* DataInv is about the content of an image that is not disturbed.         *)
(* InlineInv and OnceInv follow a buffer from its arrival to its analysis. *)
(* None of them assumes anything about the constants: only the refinement  *)
(* of the mailbox needs stores in program order and a single CAPS event.   *)
(***************************************************************************)
EXTENDS DrpaiController, TLAPS

\* Before the first frame, between two evaluations of the predicate, or dead.
AtRest == {"test", "sleep", "waiting", "woken", "crashed"}

\* Nothing has happened to a controller that was never opened.
NotOpened == stream = "null" => infer = "off" /\ thread_state = "Unknown"

\* An inline run happens inside process_image and nowhere else.
InlineOnly ==
  ~multithread =>
    /\ infer # "exited"
    /\ infer # "off" => \/ stream = "inline"
                        \/ stream = "crashed" /\ infer = "crashed"
    /\ stream # "late_copying"

\* What process_image knows of thread_state without a second thread.
InlineState ==
  ~multithread =>
    /\ stream \in {"copying", "copied"} => thread_state = "Ready"
    /\ stream = "published" => thread_state = "Processing"

\* The third error ends inference for good.
ErrorsFinal ==
  /\ infer \in {"escape", "exited"} => error_retries = MaxErrors
  /\ thread_state = "Failed" => error_retries = MaxErrors
  /\ error_retries = MaxErrors =>
       \/ infer \in {"escape", "exited", "crashed"}
       \/ ~multithread /\ infer = "off" /\ thread_state = "Failed"

ClosingIsLast == thread_state = "Closing" => stream \in {"join", "released", "crashed"}

ControlInv ==
  TypeOK /\ NotOpened /\ InlineOnly /\ InlineState /\ ErrorsFinal /\ ClosingIsLast

\* What an inline run works on is the buffer that process_image has at hand:
\* nothing arrives and nothing is copied before it returns.
InlineInv ==
  ~multithread =>
    /\ thread_state = "Processing" => stream = "published"
    /\ stream \in {"copied", "published", "inline"} => udma = frame
    /\ infer \in {"running", "extract"} => input = frame
    /\ infer \in {"extracting", "bmp", "socket", "json"} => last_det = frame
    /\ infer \notin {"test", "sleep", "waiting", "woken"}
    /\ (stream = "inline" /\ infer = "off") \/ stream \in {"render", "want", "drawing"} =>
         error_retries # 0 \/ last_det = frame

-----------------------------------------------------------------------------
\* While Ready is visible the inference thread cannot be past its predicate.
ReadyMeansAtRest ==
  multithread =>
    /\ thread_state = "Ready" => infer \in AtRest
    /\ thread_state = "Unknown" => infer \in {"off", "top", "checked", "crashed"}

\* Nothing is published before the image is mapped for the first time.
MapBeforePublish ==
  stream \in {"null", "opening", "abandoned", "unopened", "ready"}
    \/ (stream = "mapping" /\ caps <= 1) =>
      thread_state \in {"Unknown", "Ready"}

\* The copy begins at Ready, and nobody else leaves Ready.
CopyWhileReady == stream \in {"copying", "copied"} => thread_state = "Ready"

\* Streaming starts with the CAPS event.
StreamHasCaps ==
  /\ stream \in {"null", "opening", "abandoned", "ready"} => caps = 0
  /\ stream \in {"mapping", "idle", "copying", "copied", "late_copying", "published", "inline",
                 "render", "want", "drawing"} => caps > 0 /\ mapped

HandoffInv ==
  TypeOK /\ InlineOnly /\ ReadyMeansAtRest /\ MapBeforePublish /\ CopyWhileReady /\ StreamHasCaps

\* The image is partly written only while somebody writes it.
TornWhileWriting ==
  /\ udma = Torn => stream \in {"mapping", "copying", "late_copying"}
  /\ stream \in {"mapping", "late_copying"} => udma = Torn
  /\ stream = "late_copying" \/ (stream = "mapping" /\ caps > 1) => disturbed
  /\ stream = "copied" => udma = frame

\* What the hardware reads is what the image holds to the end of the run.
InputIsImage == infer \in {"running", "extract"} /\ ~disturbed => input = udma

BitmapInv == infer \in {"extracting", "bmp"} /\ ~disturbed => last_det = udma

\* Frames are numbered upwards, and detections follow their frame.
DetectionsBehind ==
  /\ last_det <= frame
  /\ input <= frame
  /\ udma <= frame
  /\ udma # Torn /\ ~disturbed => last_det <= udma
  /\ stream = "mapping" /\ ~disturbed => last_det <= 0
  /\ stream \in {"null", "opening", "abandoned", "unopened", "ready"} =>
       last_det = 0 /\ input = 0

DataInv == TornWhileWriting /\ InputIsImage /\ BitmapInv /\ DetectionsBehind

Inv == ControlInv /\ HandoffInv /\ DataInv

\* The hardware never read the frame that waits for it.
WaitingIsNew ==
  IF multithread
    THEN thread_state = "Processing" /\ ~disturbed
           /\ infer \in {"test", "sleep", "waiting", "woken", "prepare", "start"} => input < udma
    ELSE /\ stream = "published" => input < frame
         /\ stream = "inline" /\ infer \in {"top", "checked", "prepare", "start"} => input < frame

OnceInv ==
  /\ stream \in {"copying", "copied"} => input < frame
  /\ WaitingIsNew

-----------------------------------------------------------------------------
(* The type invariant, for Init.                                           *)

LEMMA InitTypeOK == Init => TypeOK
<1> SUFFICES ASSUME Init PROVE TypeOK
  OBVIOUS
<1> USE DEF Init
<1>1. enabled \in BOOLEAN /\ multithread \in BOOLEAN /\ stop_error \in BOOLEAN  OBVIOUS
<1>2. thread_state \in ThreadState  BY DEF ThreadState
<1>3. stream \in StreamStates /\ infer \in InferStates  BY DEF StreamStates, InferStates
<1>4. frame \in Nat /\ caps \in Nat /\ mapped \in BOOLEAN  OBVIOUS
<1>5. /\ udma \in Nat \union {Torn}
      /\ input \in Nat \union {Torn}
      /\ last_det \in Nat \union {Torn}
  OBVIOUS
<1>6. error_retries \in 0 .. MaxErrors  BY DEF MaxErrors
<1>. QED BY <1>1, <1>2, <1>3, <1>4, <1>5, <1>6 DEF TypeOK

-----------------------------------------------------------------------------
(* ControlInv is inductive, with no assumption about the constants.        *)

LEMMA ControlInit == Init => ControlInv
<1>1. Init => NotOpened /\ InlineOnly /\ InlineState
  BY DEF Init, NotOpened, InlineOnly, InlineState
<1>2. Init => ErrorsFinal /\ ClosingIsLast
  BY DEF Init, ErrorsFinal, ClosingIsLast, MaxErrors
<1>. QED BY InitTypeOK, <1>1, <1>2 DEF ControlInv

LEMMA ControlStep == ControlInv /\ [Next]_vars => ControlInv'
<1> SUFFICES ASSUME ControlInv, [Next]_vars PROVE ControlInv'
  OBVIOUS
<1> USE DEF ControlInv, TypeOK, ThreadState, StreamStates, InferStates, NotOpened, InlineOnly,
            InlineState, ErrorsFinal, ClosingIsLast, MaxErrors, Torn, vars, settings, image
<1>1. CASE OpenThread  BY <1>1 DEF OpenThread
<1>2. CASE OpenDevice  BY <1>2 DEF OpenDevice
<1>3. CASE BeginMap  BY <1>3 DEF BeginMap, ReadDuringWrite
<1>4. CASE EndMap  BY <1>4 DEF EndMap
<1>5. CASE Arrive  BY <1>5 DEF Arrive, AfterError
<1>6. CASE Copy  BY <1>6 DEF Copy, ReadDuringWrite
<1>7. CASE EndCopy  BY <1>7 DEF EndCopy, ReadDuringWrite
<1>8. CASE Publish  BY <1>8 DEF Publish
<1>9. CASE Notify  BY <1>9 DEF Notify, Notified
<1>10. CASE CallInline  BY <1>10 DEF CallInline
<1>11. CASE ReturnInline  BY <1>11 DEF ReturnInline
<1>12. CASE Render  BY <1>12 DEF Render
<1>13. CASE LockState  BY <1>13 DEF LockState
<1>14. CASE SetReady  BY <1>14 DEF SetReady
<1>15. CASE Test  BY <1>15 DEF Test
<1>16. CASE Sleep  BY <1>16 DEF Sleep
<1>17. CASE SpuriousWakeup  BY <1>17 DEF SpuriousWakeup
<1>18. CASE Reacquire  BY <1>18 DEF Reacquire
<1>19. CASE Prepare  BY <1>19 DEF Prepare
<1>20. CASE StartInference  BY <1>20 DEF StartInference
<1>21. CASE EndInference  BY <1>21 DEF EndInference
<1>22. CASE BeginExtract  BY <1>22 DEF BeginExtract
<1>23. CASE SaveBmp  BY <1>23 DEF SaveBmp
<1>24. CASE Succeed  BY <1>24 DEF Succeed, Returned
<1>25. CASE Throw  BY <1>25 DEF Throw
<1>26. CASE Catch  BY <1>26 DEF Catch, Returned
<1>27. CASE Fail  BY <1>27 DEF Fail, AfterError, MaxErrors
<1>28. CASE Release  BY <1>28 DEF Release
<1>29. CASE Close  BY <1>29 DEF Close, Notified, HoldsStateMutex, HasThread
<1>30. CASE Join
  <2>1. stream \in {"join", "release"} /\ stream' = "released"  BY <1>30 DEF Join
  <2>2. TypeOK'
    <3>1. stream' \in StreamStates /\ mapped' \in BOOLEAN  BY <1>30 DEF Join
    <3>2. UNCHANGED <<settings, thread_state, infer, frame, caps, udma, input, disturbed,
                      last_det, error_retries>>
      BY <1>30 DEF Join
    <3>. QED BY <3>1, <3>2
  <2>3. NotOpened' /\ InlineState' /\ ErrorsFinal' /\ ClosingIsLast'
    BY <1>30, <2>1 DEF Join
  <2>4. InlineOnly'  BY <1>30, <2>1 DEF Join
  <2>. QED BY <2>2, <2>3, <2>4
<1>31. CASE Stopped  BY <1>31 DEF Stopped
<1>32. CASE OpenDisabled  BY <1>32 DEF OpenDisabled
<1>33. CASE Reopen  BY <1>33 DEF Reopen
<1>34. CASE RefuseCaps  BY <1>34 DEF RefuseCaps
<1>36. CASE AskDetections  BY <1>36 DEF AskDetections
<1>37. CASE BeginRender  BY <1>37 DEF BeginRender
<1>38. CASE EndRender  BY <1>38 DEF EndRender
<1>39. CASE EndExtract  BY <1>39 DEF EndExtract
<1>40. CASE SendSocketData  BY <1>40 DEF SendSocketData
<1>35. CASE UNCHANGED vars BY <1>35
<1>. QED BY <1>1, <1>2, <1>3, <1>4, <1>5, <1>6, <1>7, <1>8, <1>9, <1>10, <1>11, <1>12,
          <1>13, <1>14, <1>15, <1>16, <1>17, <1>18, <1>19, <1>20, <1>21, <1>22, <1>23,
          <1>24, <1>25, <1>26, <1>27, <1>28, <1>29, <1>30, <1>31, <1>32,
          <1>33, <1>34, <1>35, <1>36, <1>37,
          <1>38, <1>39, <1>40
         DEF Next, ProcessImage, ThreadFunction

\* Spec keeps every variable in its type: in particular error_retries never
\* passes three (drpai_controller.cpp:249-252), in any build.
THEOREM TypeCorrect == Spec => []TypeOK
<1>1. Spec => []ControlInv  BY ControlInit, ControlStep, PTL DEF Spec
<1>2. ControlInv => TypeOK  BY DEF ControlInv
<1>. QED BY <1>1, <1>2, PTL

\* gst_drpai_chain reports FLOW_ERROR only when inference failed three times
\* in a row or the thread has not started yet, in any build
\* (drpai_controller.cpp:59-63, gstdrpai.cpp:209-212).
THEOREM FlowErrorsCaused == Spec => FlowErrorHasCause
<1> DEFINE A == stream # "halted" /\ stream' = "halted"
                  => error_retries = 3 \/ thread_state = "Unknown"
<1>1. ControlInv /\ [Next]_vars => A \/ UNCHANGED vars
  <2> SUFFICES ASSUME ControlInv, Next, stream # "halted", stream' = "halted"
               PROVE error_retries = 3 \/ thread_state = "Unknown"
    OBVIOUS
  <2>1. Arrive \/ Fail
    BY DEF Next, ProcessImage, ThreadFunction, OpenDisabled, Reopen, RefuseCaps, OpenThread,
           OpenDevice, BeginMap, EndMap, Copy,
           EndCopy, Publish, Notify, CallInline, ReturnInline, Render,
           AskDetections, BeginRender, EndRender, SendSocketData, LockState, SetReady, Test,
           Sleep, SpuriousWakeup, Reacquire, Prepare, StartInference, EndInference, BeginExtract, EndExtract,
           SaveBmp, Succeed, Throw, Catch, Release, Close, Join, Stopped, vars
  <2>2. CASE Arrive
    BY <2>2 DEF Arrive, AfterError, ControlInv, ErrorsFinal, ClosingIsLast, MaxErrors, TypeOK,
                ThreadState
  <2>3. CASE Fail  BY <2>3 DEF Fail, ControlInv, ErrorsFinal, MaxErrors
  <2>. QED BY <2>1, <2>2, <2>3
<1>2. Spec => []ControlInv  BY ControlInit, ControlStep, PTL DEF Spec
<1>. QED BY <1>1, <1>2, PTL DEF Spec, FlowErrorHasCause

-----------------------------------------------------------------------------
(* Without a thread: the image, the run and the buffer are one frame.      *)

LEMMA InlineStep == ControlInv /\ InlineInv /\ [Next]_vars => InlineInv'
<1> SUFFICES ASSUME ControlInv, InlineInv, [Next]_vars PROVE InlineInv'
  OBVIOUS
<1> USE DEF ControlInv, TypeOK, InlineOnly, InlineState, InlineInv, MaxErrors, Torn, vars,
            settings, image
<1>1. CASE OpenThread  BY <1>1 DEF OpenThread
<1>2. CASE OpenDevice  BY <1>2 DEF OpenDevice
<1>3. CASE BeginMap  BY <1>3 DEF BeginMap, ReadDuringWrite
<1>4. CASE EndMap  BY <1>4 DEF EndMap
<1>5. CASE Arrive  BY <1>5 DEF Arrive, AfterError
<1>6. CASE Copy  BY <1>6 DEF Copy, ReadDuringWrite
<1>7. CASE EndCopy  BY <1>7 DEF EndCopy, ReadDuringWrite
<1>8. CASE Publish  BY <1>8 DEF Publish
<1>9. CASE Notify  BY <1>9 DEF Notify, Notified
<1>10. CASE CallInline  BY <1>10 DEF CallInline
<1>11. CASE ReturnInline  BY <1>11 DEF ReturnInline
<1>12. CASE Render  BY <1>12 DEF Render
<1>13. CASE LockState  BY <1>13 DEF LockState
<1>14. CASE SetReady  BY <1>14 DEF SetReady
<1>15. CASE Test  BY <1>15 DEF Test
<1>16. CASE Sleep  BY <1>16 DEF Sleep
<1>17. CASE SpuriousWakeup  BY <1>17 DEF SpuriousWakeup
<1>18. CASE Reacquire  BY <1>18 DEF Reacquire
<1>19. CASE Prepare  BY <1>19 DEF Prepare
<1>20. CASE StartInference  BY <1>20 DEF StartInference
<1>21. CASE EndInference  BY <1>21 DEF EndInference
<1>22. CASE BeginExtract  BY <1>22 DEF BeginExtract
<1>23. CASE SaveBmp  BY <1>23 DEF SaveBmp
<1>24. CASE Succeed  BY <1>24 DEF Succeed, Returned
<1>25. CASE Throw  BY <1>25 DEF Throw
<1>26. CASE Catch  BY <1>26 DEF Catch, Returned
<1>27. CASE Fail  BY <1>27 DEF Fail, AfterError
<1>28. CASE Release  BY <1>28 DEF Release
<1>29. CASE Close  BY <1>29 DEF Close, Notified, HasThread
<1>30. CASE Join  BY <1>30 DEF Join, HasThread
<1>31. CASE Stopped  BY <1>31 DEF Stopped
<1>32. CASE OpenDisabled  BY <1>32 DEF OpenDisabled
<1>33. CASE Reopen  BY <1>33 DEF Reopen
<1>34. CASE RefuseCaps  BY <1>34 DEF RefuseCaps
<1>36. CASE AskDetections  BY <1>36 DEF AskDetections
<1>37. CASE BeginRender  BY <1>37 DEF BeginRender
<1>38. CASE EndRender  BY <1>38 DEF EndRender
<1>39. CASE EndExtract  BY <1>39 DEF EndExtract
<1>40. CASE SendSocketData  BY <1>40 DEF SendSocketData
<1>35. CASE UNCHANGED vars BY <1>35
<1>. QED BY <1>1, <1>2, <1>3, <1>4, <1>5, <1>6, <1>7, <1>8, <1>9, <1>10, <1>11, <1>12,
          <1>13, <1>14, <1>15, <1>16, <1>17, <1>18, <1>19, <1>20, <1>21, <1>22, <1>23, <1>24,
          <1>25, <1>26, <1>27, <1>28, <1>29, <1>30, <1>31, <1>32, <1>33, <1>34, <1>35, <1>36, <1>37,
          <1>38, <1>39, <1>40
         DEF Next, ProcessImage, ThreadFunction

LEMMA InlineHolds == Spec => []InlineInv
<1>1. Init => InlineInv  BY DEF Init, InlineInv
<1>. QED BY <1>1, ControlInit, ControlStep, InlineStep, PTL DEF Spec

\* Without a thread, a buffer whose inference did not fail is rendered with its
\* own detections (drpai_controller.cpp:79-85, 211-220), in any build and for
\* any number of frames and CAPS events.
THEOREM InlineCurrent == Spec => []InlineDetectionsAreCurrent
<1>1. Spec => []InlineInv  BY InlineHolds
<1>2. InlineInv => InlineDetectionsAreCurrent  BY DEF InlineInv, InlineDetectionsAreCurrent
<1>. QED BY <1>1, <1>2, PTL

-----------------------------------------------------------------------------
(* HandoffInv is inductive, with no assumption about the constants.        *)

LEMMA HandoffInit == Init => HandoffInv
<1>1. Init => InlineOnly /\ ReadyMeansAtRest /\ MapBeforePublish
  BY DEF Init, InlineOnly, ReadyMeansAtRest, MapBeforePublish
<1>2. Init => CopyWhileReady /\ StreamHasCaps
  BY DEF Init, CopyWhileReady, StreamHasCaps
<1>. QED BY InitTypeOK, <1>1, <1>2 DEF HandoffInv

LEMMA HandoffStep ==
  ASSUME ControlInv, HandoffInv, [Next]_vars
  PROVE  HandoffInv'
<1>t. TypeOK'  BY ControlStep DEF ControlInv
<1> USE DEF HandoffInv, TypeOK, NotOpened, InlineOnly, InlineState, ClosingIsLast, ControlInv,
            ReadyMeansAtRest, AtRest, MapBeforePublish, CopyWhileReady, StreamHasCaps,
            ErrorsFinal, vars, settings, image
<1>1. CASE OpenThread  BY <1>t, <1>1 DEF OpenThread
<1>2. CASE OpenDevice  BY <1>t, <1>2 DEF OpenDevice
<1>3. CASE BeginMap  BY <1>t, <1>3 DEF BeginMap
<1>4. CASE EndMap  BY <1>t, <1>4 DEF EndMap
<1>5. CASE Arrive  BY <1>t, <1>5 DEF Arrive, AfterError
<1>6. CASE Copy  BY <1>t, <1>6 DEF Copy
<1>7. CASE EndCopy  BY <1>t, <1>7 DEF EndCopy
<1>8. CASE Publish  BY <1>t, <1>8 DEF Publish
<1>9. CASE Notify  BY <1>t, <1>9 DEF Notify, Notified
<1>10. CASE CallInline  BY <1>t, <1>10 DEF CallInline
<1>11. CASE ReturnInline  BY <1>t, <1>11 DEF ReturnInline
<1>12. CASE Render  BY <1>t, <1>12 DEF Render
<1>13. CASE LockState  BY <1>t, <1>13 DEF LockState
<1>14. CASE SetReady  BY <1>t, <1>14 DEF SetReady
<1>15. CASE Test  BY <1>t, <1>15 DEF Test
<1>16. CASE Sleep  BY <1>t, <1>16 DEF Sleep
<1>17. CASE SpuriousWakeup  BY <1>t, <1>17 DEF SpuriousWakeup
<1>18. CASE Reacquire  BY <1>t, <1>18 DEF Reacquire
<1>19. CASE Prepare  BY <1>t, <1>19 DEF Prepare
<1>20. CASE StartInference  BY <1>t, <1>20 DEF StartInference
<1>21. CASE EndInference  BY <1>t, <1>21 DEF EndInference
<1>22. CASE BeginExtract  BY <1>t, <1>22 DEF BeginExtract
<1>23. CASE SaveBmp  BY <1>t, <1>23 DEF SaveBmp
<1>24. CASE Succeed  BY <1>t, <1>24 DEF Succeed, Returned
<1>25. CASE Throw  BY <1>t, <1>25 DEF Throw
<1>26. CASE Catch  BY <1>t, <1>26 DEF Catch, Returned
<1>27. CASE Fail  BY <1>t, <1>27 DEF Fail, AfterError
<1>28. CASE Release  BY <1>t, <1>28 DEF Release
<1>29. CASE Close  BY <1>t, <1>29 DEF Close, Notified, HoldsStateMutex, HasThread
<1>30. CASE Join  BY <1>t, <1>30 DEF Join, HasThread
<1>31. CASE Stopped  BY <1>31 DEF Stopped
<1>32. CASE OpenDisabled  BY <1>t, <1>32 DEF OpenDisabled
<1>33. CASE Reopen  BY <1>t, <1>33 DEF Reopen
<1>34. CASE RefuseCaps  BY <1>t, <1>34 DEF RefuseCaps
<1>36. CASE AskDetections  BY <1>t, <1>36 DEF AskDetections
<1>37. CASE BeginRender  BY <1>t, <1>37 DEF BeginRender
<1>38. CASE EndRender  BY <1>t, <1>38 DEF EndRender
<1>39. CASE EndExtract  BY <1>t, <1>39 DEF EndExtract
<1>40. CASE SendSocketData  BY <1>t, <1>40 DEF SendSocketData
<1>35. CASE UNCHANGED vars BY <1>35
<1>. QED BY <1>1, <1>2, <1>3, <1>4, <1>5, <1>6, <1>7, <1>8, <1>9, <1>10, <1>11, <1>12,
          <1>13, <1>14, <1>15, <1>16, <1>17, <1>18, <1>19, <1>20, <1>21, <1>22, <1>23,
          <1>24, <1>25, <1>26, <1>27, <1>28, <1>29, <1>30, <1>31, <1>32,
          <1>33, <1>34, <1>35, <1>36, <1>37,
          <1>38, <1>39, <1>40
         DEF Next, ProcessImage, ThreadFunction

\* The pipeline writes the udmabuf while inference uses it
\* (drpai_controller.cpp:66 against 211-220) only in a copy that the store of
\* Processing overtook, or when a second CAPS event replaces the image: in any
\* build, for any number of frames and CAPS events.
THEOREM Exclusion == Spec => []BufferExclusion
<1>1. Spec => [](ControlInv /\ HandoffInv)
  BY ControlInit, ControlStep, HandoffInit, HandoffStep, PTL DEF Spec
<1>2. ControlInv /\ HandoffInv => BufferExclusion
  BY DEF ControlInv, HandoffInv, BufferExclusion, Writing, InSection, InlineOnly, ReadyMeansAtRest,
         AtRest, MapBeforePublish, CopyWhileReady, TypeOK
<1>. QED BY <1>1, <1>2, PTL

-----------------------------------------------------------------------------
(* DataInv: the content of the image and the detections.                   *)

LEMMA DataInit == Init => DataInv
BY DEF Init, DataInv, TornWhileWriting, InputIsImage, BitmapInv, DetectionsBehind, Torn

LEMMA DataStep ==
  ASSUME Inv, [Next]_vars
  PROVE  DataInv'
<1>t. TypeOK'  BY ControlStep DEF ControlInv, Inv
<1> USE DEF Inv, ControlInv, TypeOK, InlineOnly, HandoffInv, ReadyMeansAtRest, AtRest,
            MapBeforePublish, CopyWhileReady, StreamHasCaps, DataInv, TornWhileWriting,
            InputIsImage, BitmapInv, DetectionsBehind, Torn, NotOpened, vars, settings, image
<1>1. CASE OpenThread  BY <1>1 DEF OpenThread
<1>2. CASE OpenDevice  BY <1>2 DEF OpenDevice
<1>3. CASE BeginMap
  <2>1. stream \in {"ready", "idle"} /\ stream' = "mapping" /\ caps' = caps + 1
    BY <1>3 DEF BeginMap
  <2>2. udma' = Torn /\ input' = ReadDuringWrite /\ (disturbed' <=> disturbed \/ caps > 0)
    BY <1>3 DEF BeginMap
  <2>3. UNCHANGED <<last_det, frame, infer>>  BY <1>3 DEF BeginMap
  <2>4. caps > 0 \/ stream = "ready"  BY <2>1
  <2>5. infer \notin {"running", "extract", "extracting", "bmp"} \/ caps > 0  BY <2>1, <2>4
  <2>6. TornWhileWriting' /\ InputIsImage' /\ BitmapInv'
    BY <2>1, <2>2, <2>3, <2>5 DEF ReadDuringWrite
  <2>7. DetectionsBehind'  BY <2>1, <2>2, <2>3, <2>4 DEF ReadDuringWrite
  <2>. QED BY <2>6, <2>7
<1>4. CASE EndMap  BY <1>4 DEF EndMap
<1>5. CASE Arrive  BY <1>5 DEF Arrive, AfterError
<1>6. CASE Copy  BY <1>6 DEF Copy, ReadDuringWrite
<1>7. CASE EndCopy  BY <1>7 DEF EndCopy, ReadDuringWrite
<1>8. CASE Publish  BY <1>8 DEF Publish
<1>9. CASE Notify  BY <1>9 DEF Notify, Notified
<1>10. CASE CallInline  BY <1>10 DEF CallInline
<1>11. CASE ReturnInline  BY <1>11 DEF ReturnInline
<1>12. CASE Render  BY <1>12 DEF Render
<1>13. CASE LockState  BY <1>13 DEF LockState
<1>14. CASE SetReady  BY <1>14 DEF SetReady
<1>15. CASE Test  BY <1>15 DEF Test
<1>16. CASE Sleep  BY <1>16 DEF Sleep
<1>17. CASE SpuriousWakeup  BY <1>17 DEF SpuriousWakeup
<1>18. CASE Reacquire  BY <1>18 DEF Reacquire
<1>19. CASE Prepare
  <2>1. infer' \in {"start", "crashed"} /\ stream' \in {stream, "crashed"}
    BY <1>19 DEF Prepare
  <2>2. UNCHANGED <<frame, caps, udma, input, disturbed, last_det>>  BY <1>19 DEF Prepare
  <2>3. infer = "prepare"  BY <1>19 DEF Prepare
  <2>4. stream # "copying" /\ (stream = "mapping" => disturbed)  BY <2>3
  <2>5. udma = Torn => stream' = stream  BY <1>19 DEF Prepare
  <2>. QED BY <2>1, <2>2, <2>4, <2>5
<1>20. CASE StartInference  BY <1>20 DEF StartInference
<1>21. CASE EndInference  BY <1>21 DEF EndInference
<1>22. CASE BeginExtract  BY <1>22 DEF BeginExtract
<1>23. CASE SaveBmp  BY <1>23 DEF SaveBmp
<1>24. CASE Succeed  BY <1>24 DEF Succeed, Returned
<1>25. CASE Throw  BY <1>25 DEF Throw
<1>26. CASE Catch  BY <1>26 DEF Catch, Returned
<1>27. CASE Fail  BY <1>27 DEF Fail, AfterError
<1>28. CASE Release  BY <1>28 DEF Release
<1>29. CASE Close  BY <1>29 DEF Close, Notified
<1>30. CASE Join  BY <1>30 DEF Join, HasThread
<1>31. CASE Stopped  BY <1>31 DEF Stopped
<1>32. CASE OpenDisabled  BY <1>32 DEF OpenDisabled
<1>33. CASE Reopen  BY <1>33 DEF Reopen
<1>34. CASE RefuseCaps  BY <1>34 DEF RefuseCaps
<1>36. CASE AskDetections  BY <1>36 DEF AskDetections
<1>37. CASE BeginRender  BY <1>37 DEF BeginRender
<1>38. CASE EndRender  BY <1>38 DEF EndRender
<1>39. CASE EndExtract  BY <1>39 DEF EndExtract
<1>40. CASE SendSocketData  BY <1>40 DEF SendSocketData
<1>35. CASE UNCHANGED vars BY <1>35
<1>. QED BY <1>1, <1>2, <1>3, <1>4, <1>5, <1>6, <1>7, <1>8, <1>9, <1>10, <1>11, <1>12,
          <1>13, <1>14, <1>15, <1>16, <1>17, <1>18, <1>19, <1>20, <1>21, <1>22, <1>23,
          <1>24, <1>25, <1>26, <1>27, <1>28, <1>29, <1>30, <1>31, <1>32,
          <1>33, <1>34, <1>35, <1>36, <1>37,
          <1>38, <1>39, <1>40
         DEF Next, ProcessImage, ThreadFunction

LEMMA InvHolds == Spec => []Inv
<1>1. Init => Inv  BY ControlInit, HandoffInit, DataInit DEF Inv
<1>2. Inv /\ [Next]_vars => Inv'  BY ControlStep, HandoffStep, DataStep DEF Inv
<1>. QED BY <1>1, <1>2, PTL DEF Spec

LEMMA WhoWritesDetections ==
  ASSUME TypeOK, [Next]_vars
  PROVE  BeginExtract \/ last_det' = last_det
BY DEF Next, ProcessImage, ThreadFunction, OpenDisabled, Reopen, RefuseCaps, OpenThread,
       OpenDevice, BeginMap, EndMap, Arrive, Copy, EndCopy, Publish, Notify, CallInline,
       ReturnInline, Render, AskDetections, BeginRender, EndRender, LockState, SetReady, Test,
       Sleep, SpuriousWakeup, Reacquire, Prepare, StartInference, EndInference, EndExtract,
       SaveBmp, SendSocketData, Succeed, Throw, Catch, Fail, Release, Close, Join, Stopped,
       vars, image

\* A run on an undisturbed image reads a whole frame, the newest there is.
LEMMA UndisturbedRun ==
  ASSUME Inv, ~disturbed, BeginExtract
  PROVE  last_det' = udma /\ udma \in Nat /\ last_det <= udma
<1>1. last_det' = udma  BY DEF BeginExtract, Inv, DataInv, InputIsImage
<1>2. udma # Torn
  BY DEF BeginExtract, Inv, ControlInv, TypeOK, DataInv, TornWhileWriting, HandoffInv,
         InlineOnly, ReadyMeansAtRest, AtRest, MapBeforePublish, CopyWhileReady, StreamHasCaps
<1>3. udma \in Nat /\ last_det <= udma
  BY <1>2 DEF Inv, ControlInv, TypeOK, DataInv, DetectionsBehind
<1>. QED BY <1>1, <1>3

\* Detections mix two frames only after a run on an image that was replaced, or
\* handed over too early, since a frame was last handed over in order
\* (drpai_controller.cpp:66,214,217): in any build, for any number of frames
\* and CAPS events.
THEOREM DetectionsWhole == Spec => WholeDetections
<1>1. ASSUME Inv, [Next]_vars
      PROVE  last_det' = Torn => last_det = Torn \/ disturbed
  <2>1. BeginExtract \/ last_det' = last_det  BY <1>1, WhoWritesDetections DEF Inv, ControlInv
  <2>2. CASE BeginExtract  BY <1>1, <2>2, UndisturbedRun DEF Torn
  <2>. QED BY <2>1, <2>2
<1>. QED BY InvHolds, <1>1, PTL DEF Spec, WholeDetections

\* check_save_bmp writes the frame it has the detections of
\* (drpai_controller.cpp:217-220,461-466), unless that frame was disturbed.
THEOREM BitmapsMatch == Spec => []BitmapShowsDetections
<1>1. Inv => BitmapShowsDetections  BY DEF Inv, DataInv, BitmapInv, BitmapShowsDetections
<1>. QED BY InvHolds, <1>1, PTL

\* The published detections never go back to an older frame, except by a run on
\* a disturbed image (drpai_controller.cpp:217 is the only place that replaces
\* them).
THEOREM DetectionsNeverGoBack == Spec => DetectionsAdvance
<1>1. ASSUME Inv, [Next]_vars
      PROVE  disturbed \/ last_det' >= last_det
  <2>1. BeginExtract \/ last_det' = last_det  BY <1>1, WhoWritesDetections DEF Inv, ControlInv
  <2>2. last_det \in Int  BY <1>1 DEF Inv, ControlInv, TypeOK, Torn
  <2>3. CASE BeginExtract /\ ~disturbed  BY <1>1, <2>2, <2>3, UndisturbedRun
  <2>. QED BY <2>1, <2>2, <2>3
<1>. QED BY InvHolds, <1>1, PTL DEF Spec, DetectionsAdvance

-----------------------------------------------------------------------------
(* No frame is analysed twice.                                             *)

LEMMA OnceStep ==
  ASSUME Inv, InlineInv, OnceInv, [Next]_vars
  PROVE  OnceInv'
<1> USE DEF Inv, ControlInv, TypeOK, InlineOnly, InlineState, ErrorsFinal, ClosingIsLast, HandoffInv,
            ReadyMeansAtRest, AtRest, MapBeforePublish, CopyWhileReady, StreamHasCaps, DataInv,
            TornWhileWriting, InputIsImage, DetectionsBehind, NotOpened, InlineInv, OnceInv,
            WaitingIsNew, Torn, vars, settings, image
<1>1. CASE OpenThread  BY <1>1 DEF OpenThread
<1>2. CASE OpenDevice  BY <1>2 DEF OpenDevice
<1>3. CASE BeginMap  BY <1>3 DEF BeginMap, ReadDuringWrite
<1>4. CASE EndMap  BY <1>4 DEF EndMap
<1>5. CASE Arrive  BY <1>5 DEF Arrive, AfterError
<1>6. CASE Copy  BY <1>6 DEF Copy, ReadDuringWrite
<1>7. CASE EndCopy  BY <1>7 DEF EndCopy, ReadDuringWrite
<1>8. CASE Publish  BY <1>8 DEF Publish
<1>9. CASE Notify  BY <1>9 DEF Notify, Notified
<1>10. CASE CallInline  BY <1>10 DEF CallInline
<1>11. CASE ReturnInline  BY <1>11 DEF ReturnInline
<1>12. CASE Render  BY <1>12 DEF Render
<1>13. CASE LockState  BY <1>13 DEF LockState
<1>14. CASE SetReady  BY <1>14 DEF SetReady
<1>15. CASE Test  BY <1>15 DEF Test
<1>16. CASE Sleep  BY <1>16 DEF Sleep
<1>17. CASE SpuriousWakeup  BY <1>17 DEF SpuriousWakeup
<1>18. CASE Reacquire  BY <1>18 DEF Reacquire
<1>19. CASE Prepare  BY <1>19 DEF Prepare
<1>20. CASE StartInference  BY <1>20 DEF StartInference
<1>21. CASE EndInference  BY <1>21 DEF EndInference
<1>22. CASE BeginExtract  BY <1>22 DEF BeginExtract
<1>23. CASE SaveBmp  BY <1>23 DEF SaveBmp
<1>24. CASE Succeed  BY <1>24 DEF Succeed, Returned
<1>25. CASE Throw  BY <1>25 DEF Throw
<1>26. CASE Catch  BY <1>26 DEF Catch, Returned
<1>27. CASE Fail  BY <1>27 DEF Fail, AfterError
<1>28. CASE Release  BY <1>28 DEF Release
<1>29. CASE Close  BY <1>29 DEF Close, Notified, HasThread
<1>30. CASE Join  BY <1>30 DEF Join, HasThread
<1>31. CASE Stopped  BY <1>31 DEF Stopped
<1>32. CASE OpenDisabled  BY <1>32 DEF OpenDisabled
<1>33. CASE Reopen  BY <1>33 DEF Reopen
<1>34. CASE RefuseCaps  BY <1>34 DEF RefuseCaps
<1>36. CASE AskDetections  BY <1>36 DEF AskDetections
<1>37. CASE BeginRender  BY <1>37 DEF BeginRender
<1>38. CASE EndRender  BY <1>38 DEF EndRender
<1>39. CASE EndExtract  BY <1>39 DEF EndExtract
<1>40. CASE SendSocketData  BY <1>40 DEF SendSocketData
<1>35. CASE UNCHANGED vars BY <1>35
<1>. QED BY <1>1, <1>2, <1>3, <1>4, <1>5, <1>6, <1>7, <1>8, <1>9, <1>10, <1>11, <1>12,
          <1>13, <1>14, <1>15, <1>16, <1>17, <1>18, <1>19, <1>20, <1>21, <1>22, <1>23, <1>24,
          <1>25, <1>26, <1>27, <1>28, <1>29, <1>30, <1>31, <1>32, <1>33, <1>34, <1>35, <1>36, <1>37,
          <1>38, <1>39, <1>40
         DEF Next, ProcessImage, ThreadFunction

\* While streaming no frame that is handed over in order is analysed twice, in
\* spite of spurious wake-ups and of retries (drpai_controller.cpp:204-213,
\* 246-252).
THEOREM AnalysedOnce == Spec => FrameAnalysedOnce
<1> DEFINE A == infer = "start" /\ infer' = "running" /\ thread_state # "Closing" /\ ~disturbed
                  => input' # input
<1>1. Init => OnceInv  BY DEF Init, OnceInv, WaitingIsNew, Torn
<1>2. Inv /\ InlineInv /\ OnceInv /\ [Next]_vars => OnceInv'  BY OnceStep
<1>3. ASSUME Inv, InlineInv, OnceInv, [Next]_vars
      PROVE  A
  <2> SUFFICES ASSUME infer = "start", infer' = "running", thread_state # "Closing",
                      ~disturbed
               PROVE  input' # input
    OBVIOUS
  <2>1. StartInference
    BY <1>3 DEF Next, ProcessImage, ThreadFunction, OpenDisabled, Reopen, RefuseCaps,
                OpenThread, OpenDevice, BeginMap, EndMap, Arrive, Copy, EndCopy, Publish, Notify,
                Notified,
                CallInline, ReturnInline, Render,
           AskDetections, BeginRender, EndRender, SendSocketData, LockState, SetReady, Test, Sleep,
                SpuriousWakeup, Reacquire, Prepare, EndInference, BeginExtract, EndExtract, SaveBmp, Succeed,
                Throw, Catch, Fail, Release, Close, Join, Stopped, vars
  <2>2. input' = udma  BY <2>1 DEF StartInference
  <2>3. input < udma
    <3>1. CASE multithread
      BY <1>3, <3>1 DEF Inv, ControlInv, HandoffInv, TypeOK, ThreadState, ReadyMeansAtRest, AtRest,
                        ErrorsFinal, OnceInv, WaitingIsNew
    <3>2. CASE ~multithread
      BY <1>3, <3>2 DEF Inv, ControlInv, InlineOnly, InlineInv, OnceInv, WaitingIsNew
    <3>. QED BY <3>1, <3>2
  <2>4. input \in Int  BY <1>3 DEF Inv, ControlInv, TypeOK, Torn
  <2>. QED BY <2>2, <2>3, <2>4
<1>. QED BY InvHolds, InlineHolds, <1>1, <1>2, <1>3, PTL DEF Spec, FrameAnalysedOnce

-----------------------------------------------------------------------------
(* Every step of the controller is a step of the mailbox, or none.         *)

LEMMA NeverDisturbed ==
  ASSUME StoresInOrder, MaxCaps = 1
  PROVE  Spec => [](caps <= 1 /\ ~disturbed /\ last_det # Torn /\ stream # "late_copying")
<1> DEFINE Quiet == caps <= 1 /\ ~disturbed /\ stream # "late_copying"
           Still == caps <= 1 /\ ~disturbed /\ last_det # Torn /\ stream # "late_copying"
<1>1. Init => Still  BY DEF Init, Torn
<1>2. ASSUME Inv, Still, [Next]_vars
      PROVE  Still'
  <2>1. last_det' # Torn
    <3>1. BeginExtract \/ last_det' = last_det  BY <1>2, WhoWritesDetections DEF Inv, ControlInv
    <3>2. CASE BeginExtract  BY <1>2, <3>2, UndisturbedRun DEF Torn
    <3>. QED BY <1>2, <3>1, <3>2
  <2>2. Quiet'
    BY <1>2 DEF Inv, ControlInv, TypeOK, Next, ProcessImage, ThreadFunction, OpenDisabled, Reopen,
       RefuseCaps, OpenThread, OpenDevice, BeginMap, EndMap, Arrive, AfterError, Copy, EndCopy,
       Publish, Notify, CallInline, ReturnInline, Render, AskDetections, BeginRender, EndRender,
       LockState, SetReady, Test, Sleep, SpuriousWakeup, Reacquire, Prepare, StartInference,
       EndInference, BeginExtract, EndExtract, SaveBmp, SendSocketData, Succeed, Throw, Catch,
       Fail, Release, Close, Join, Stopped, vars, settings, image
  <2>. QED BY <2>1, <2>2
<1>. QED BY InvHolds, <1>1, <1>2, PTL DEF Spec

LEMMA MailboxStep ==
  ASSUME caps <= 1, ~disturbed, last_det # Torn, stream # "late_copying", caps' <= 1,
         ~disturbed', last_det' # Torn, stream' # "late_copying", Inv, Inv', [Next]_vars
  PROVE  [Mailbox!Next]_(Mailbox!vars)
<1> USE DEF Inv, ControlInv, TypeOK, InlineOnly, HandoffInv, ReadyMeansAtRest, AtRest,
            MapBeforePublish, CopyWhileReady, StreamHasCaps, DataInv, TornWhileWriting,
            InputIsImage, DetectionsBehind, Torn, NotOpened, vars, settings, image,
            Owner, InSection, Mailbox!vars
<1> USE DEF Mailbox!Next, Mailbox!BeginWrite, Mailbox!EndWrite, Mailbox!HandOver,
            Mailbox!Analyse, Mailbox!Grant
<1>1. CASE OpenThread  BY <1>1 DEF OpenThread
<1>2. CASE OpenDevice  BY <1>2 DEF OpenDevice
<1>3. CASE BeginMap  BY <1>3 DEF BeginMap, ReadDuringWrite
<1>4. CASE EndMap
  <2>1. Owner = "pipeline" /\ Owner' = "pipeline"  BY <1>4 DEF EndMap
  <2>2. last_det' = last_det /\ last_det = 0  BY <1>4 DEF EndMap
  <2>3. udma = Torn /\ udma' = 0  BY <1>4 DEF EndMap
  <2>. QED BY <2>1, <2>2, <2>3
<1>5. CASE Arrive  BY <1>5 DEF Arrive, AfterError
<1>6. CASE Copy  BY <1>6 DEF Copy, ReadDuringWrite
<1>7. CASE EndCopy  BY <1>7 DEF EndCopy, ReadDuringWrite
<1>8. CASE Publish  BY <1>8 DEF Publish
<1>9. CASE Notify  BY <1>9 DEF Notify, Notified
<1>10. CASE CallInline  BY <1>10 DEF CallInline
<1>11. CASE ReturnInline  BY <1>11 DEF ReturnInline
<1>12. CASE Render  BY <1>12 DEF Render
<1>13. CASE LockState  BY <1>13 DEF LockState
<1>14. CASE SetReady  BY <1>14 DEF SetReady
<1>15. CASE Test  BY <1>15 DEF Test
<1>16. CASE Sleep  BY <1>16 DEF Sleep
<1>17. CASE SpuriousWakeup  BY <1>17 DEF SpuriousWakeup
<1>18. CASE Reacquire  BY <1>18 DEF Reacquire
<1>19. CASE Prepare  BY <1>19 DEF Prepare
<1>20. CASE StartInference  BY <1>20 DEF StartInference
<1>21. CASE EndInference  BY <1>21 DEF EndInference
<1>22. CASE BeginExtract  BY <1>22 DEF BeginExtract
<1>23. CASE SaveBmp  BY <1>23 DEF SaveBmp
<1>24. CASE Succeed  BY <1>24 DEF Succeed, Returned
<1>25. CASE Throw  BY <1>25 DEF Throw
<1>26. CASE Catch  BY <1>26 DEF Catch, Returned
<1>27. CASE Fail  BY <1>27 DEF Fail, AfterError
<1>28. CASE Release  BY <1>28 DEF Release
<1>29. CASE Close  BY <1>29 DEF Close, Notified
<1>30. CASE Join  BY <1>30 DEF Join, HasThread
<1>31. CASE Stopped  BY <1>31 DEF Stopped
<1>32. CASE OpenDisabled  BY <1>32 DEF OpenDisabled
<1>33. CASE Reopen  BY <1>33 DEF Reopen
<1>34. CASE RefuseCaps  BY <1>34 DEF RefuseCaps
<1>36. CASE AskDetections  BY <1>36 DEF AskDetections
<1>37. CASE BeginRender  BY <1>37 DEF BeginRender
<1>38. CASE EndRender  BY <1>38 DEF EndRender
<1>39. CASE EndExtract  BY <1>39 DEF EndExtract
<1>40. CASE SendSocketData  BY <1>40 DEF SendSocketData
<1>35. CASE UNCHANGED vars BY <1>35
<1>. QED BY <1>1, <1>2, <1>3, <1>4, <1>5, <1>6, <1>7, <1>8, <1>9, <1>10, <1>11, <1>12,
          <1>13, <1>14, <1>15, <1>16, <1>17, <1>18, <1>19, <1>20, <1>21, <1>22, <1>23,
          <1>24, <1>25, <1>26, <1>27, <1>28, <1>29, <1>30, <1>31, <1>32,
          <1>33, <1>34, <1>35, <1>36, <1>37,
          <1>38, <1>39, <1>40
         DEF Next, ProcessImage, ThreadFunction

\* The controller hands frames over the way FrameMailbox promises.
THEOREM ImplementsMailbox ==
  ASSUME StoresInOrder, MaxCaps = 1
  PROVE  Spec => MailboxSpec
<1>1. Init => Mailbox!Init  BY DEF Init, Mailbox!Init, Owner, InSection
<1> DEFINE Still == caps <= 1 /\ ~disturbed /\ last_det # Torn /\ stream # "late_copying"
<1>2. Still /\ Still' /\ Inv /\ Inv' /\ [Next]_vars => [Mailbox!Next]_(Mailbox!vars)
  BY MailboxStep
<1>. QED BY InvHolds, NeverDisturbed, <1>1, <1>2, PTL DEF Spec, Mailbox!Spec, MailboxSpec
=============================================================================
