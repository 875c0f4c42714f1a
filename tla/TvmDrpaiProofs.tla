---------------------------- MODULE TvmDrpaiProofs ----------------------------
(***************************************************************************)
(* Proofs about TvmDrpai, for any number of attempts and frames, and for   *)
(* any models, requests and outputs.                                       *)
(***************************************************************************)
EXTENDS TvmDrpai, PreParamsProofs, FiniteSetTheorems

-----------------------------------------------------------------------------
(* Where each kind of model can be                                         *)

BaseOpening == {"addrmap", "data_in", "files", "param"}
BeforeInfo == {"pre_open", "pre_addrmap", "pre_parse", "pre_files", "pre_info"}
Opening == {"closed", "model"} \cup BaseOpening \cup BeforeInfo

\* A kind of model has its own steps; the hardware does nothing while the
\* model is loaded; and a TVM_DRPAI that may be opened again, with a size,
\* stops at errors.
Control ==
  /\ tvm => pc \notin BaseOpening
  /\ ~tvm => pc \notin BeforeInfo \cup {"model", "pre", "mera", "copy"}
  /\ pc \in Opening => hw = "idle"
  /\ pc \in {"result", "mera", "copy", "done"} => hw = "done"
  /\ pc = "ended" => hw # "running"
  /\ tvm /\ pc \in BeforeInfo \cup {"closed"} => stop_error \/ ~sized

LEMMA ControlInit == Init => Control
BY DEF Init, BaseInit, Control, BaseOpening, BeforeInfo, Opening

LEMMA ControlStep == Control /\ [Next]_vars => Control'
<1> SUFFICES ASSUME Control, [Next]_vars PROVE Control'
  OBVIOUS
<1> USE DEF Control, BaseOpening, BeforeInfo, Opening, base_settings, opening, device, base_vars
<1>1. CASE OpenDriver  BY <1>1 DEF OpenDriver, AfterOpenError
<1>2. CASE ReadAddrmap  BY <1>2 DEF ReadAddrmap, AfterOpenError
<1>3. CASE ReadDataIn  BY <1>3 DEF ReadDataIn
<1>4. CASE LoadFile \/ LoadParamFile  BY <1>4 DEF LoadFile, LoadParamFile, AfterOpenError
<1>5. CASE HardwareEnds \/ NextFrame  BY <1>5 DEF HardwareEnds, NextFrame
<1>6. CASE RunNext  BY <1>6 DEF RunNext, Start, DriverStarts, Timeout, WaitDone, GetResult, Return
<1>7. CASE Release \/ Stopped  BY <1>7 DEF Release, Stopped
<1>8. CASE PreOpen \/ ReadAddrmapTxt \/ ParseParamInfo
  <2>1. UNCHANGED <<tvm, stop_error, hw, sized>> /\ pc \in BeforeInfo /\ pc' \in BeforeInfo \cup {"ended"}
    BY <1>8 DEF PreOpen, ReadAddrmapTxt, ParseParamInfo
  <2>. QED BY <2>1
<1>9. CASE LoadHeldFile \/ LoadFileToMemDynamic
  <2>1. pc = "pre_files" /\ pc' \in {"pre_files", "pre_info", "ended"}
    BY <1>9 DEF LoadHeldFile, LoadFileToMemDynamic, AfterFile, ReadFileDataFails
  <2>2. UNCHANGED <<tvm, stop_error, hw, sized>>  BY <1>9 DEF LoadHeldFile, LoadFileToMemDynamic
  <2>. QED BY <2>1, <2>2
<1>10. CASE LoadInfo \/ LoadModel  BY <1>10 DEF LoadInfo, LoadModel, AfterOpenError
<1>11. CASE PreUpdate  BY <1>11 DEF PreUpdate
<1>12. CASE PreStart \/ PreTimeout \/ PreDone \/ PreResult
  BY <1>12 DEF PreStart, DriverStarts, PreTimeout, PreDone, PreResult
<1>13. CASE RunModel \/ CopyOutputs  BY <1>13 DEF RunModel, CopyOutputs
<1>14. CASE UNCHANGED vars  BY <1>14 DEF vars
<1>. QED BY <1>1, <1>2, <1>3, <1>4, <1>5, <1>6, <1>7, <1>8, <1>9, <1>10, <1>11, <1>12, <1>13, <1>14
         DEF Next, BaseNext, OpenNext, PreLoadNext, TvmRunNext

-----------------------------------------------------------------------------
(* The descriptor                                                          *)

Descriptor ==
  /\ opens \in Nat
  /\ opens = 0 => open_fds = 0 /\ drpai_fd # "open"
  /\ opens = 1 => open_fds = IF drpai_fd = "open" THEN 1 ELSE 0
  /\ pc = "released" => drpai_fd # "open"

LEMMA DescriptorInit == Init => Descriptor
BY DEF Init, BaseInit, Descriptor

LEMMA DescriptorStep == Descriptor /\ [Next]_vars => Descriptor'
<1> SUFFICES ASSUME Descriptor, [Next]_vars PROVE Descriptor'
  OBVIOUS
<1> USE DEF Descriptor, base_settings, opening, device, base_vars
<1>1. CASE OpenDriver
  <2>1. opens' = opens + 1 /\ pc' # "released"  BY <1>1 DEF OpenDriver, AfterOpenError
  <2>2. CASE drpai_fd' = "open" /\ open_fds' = open_fds + 1  BY <2>1, <2>2
  <2>3. CASE drpai_fd' = "bad" /\ open_fds' = open_fds  BY <2>1, <2>3
  <2>. QED BY <1>1, <2>2, <2>3 DEF OpenDriver
<1>2. CASE Release
  <2>1. opens' = opens /\ pc' = "released"  BY <1>2 DEF Release
  <2>2. CASE drpai_fd = "open" /\ drpai_fd' = "closed" /\ open_fds' = open_fds - 1
    BY <2>1, <2>2
  <2>3. CASE drpai_fd # "open" /\ UNCHANGED <<drpai_fd, open_fds>>  BY <2>1, <2>3
  <2>. QED BY <1>2, <2>2, <2>3 DEF Release
<1>3. CASE UNCHANGED <<opens, open_fds, drpai_fd>> /\ (pc' = "released" => pc = "released")
  BY <1>3
<1>4. CASE OpenNext
  BY <1>3, <1>4 DEF OpenNext, ReadAddrmap, ReadDataIn, LoadFile, LoadParamFile, AfterOpenError
<1>5. CASE HardwareEnds \/ NextFrame \/ Stopped
  BY <1>3, <1>5 DEF HardwareEnds, NextFrame, Stopped
<1>6. CASE RunNext  BY <1>3, <1>6 DEF RunNext, Start, Timeout, WaitDone, GetResult, Return
<1>7. CASE PreOpen \/ ReadAddrmapTxt \/ ParseParamInfo \/ LoadInfo \/ LoadModel
  BY <1>3, <1>7 DEF PreOpen, ReadAddrmapTxt, ParseParamInfo, LoadInfo, LoadModel, AfterOpenError
<1>8. CASE LoadHeldFile \/ LoadFileToMemDynamic
  BY <1>3, <1>8 DEF LoadHeldFile, LoadFileToMemDynamic, AfterFile, ReadFileDataFails
<1>9. CASE PreUpdate  BY <1>3, <1>9 DEF PreUpdate
<1>10. CASE PreStart \/ PreTimeout \/ PreDone \/ PreResult \/ RunModel \/ CopyOutputs
  BY <1>3, <1>10 DEF PreStart, PreTimeout, PreDone, PreResult, RunModel, CopyOutputs
<1>11. CASE UNCHANGED vars  BY <1>3, <1>11 DEF vars
<1>. QED BY <1>1, <1>2, <1>4, <1>5, <1>6, <1>7, <1>8, <1>9, <1>10, <1>11
         DEF Next, BaseNext, PreLoadNext, TvmRunNext

\* Whatever fails in between: an element opened at the first attempt leaves no
\* descriptor of the device behind (base_drpai.cpp:199).
THEOREM NoDescriptorLeft == Spec => []ClosedAfterRelease
<1>1. Descriptor => ClosedAfterRelease  BY DEF Descriptor, ClosedAfterRelease
<1>. QED BY <1>1, DescriptorInit, DescriptorStep, PTL DEF Spec

-----------------------------------------------------------------------------
(* The files of the model                                                  *)

\* The model may run only when it is all in the memory of the device, unless
\* errors are to be ignored.
Strict == ~lost /\ (stop_error \/ tvm)

Loaded ==
  /\ step \in 0 .. 5
  /\ tvm /\ pc \in {"pre_addrmap", "pre_parse"} => step = 0
  /\ tvm /\ pc = "pre_files" => step < 5
  /\ tvm /\ Strict /\ pc \notin {"closed", "pre_open", "ended"} =>
       \A i \in 1 .. step : PreFiles[i] \in loaded
  /\ tvm /\ pc \notin {"closed", "ended"} \cup BeforeInfo => step = 5
  /\ tvm /\ pc = "pre_info" => step = 5
  /\ ~tvm /\ Strict /\ pc \notin {"closed", "ended", "addrmap", "data_in", "files"} =>
       loaded = Files

OnlyFiles == loaded \subseteq Files

LEMMA OnlyFilesStep == OnlyFiles /\ Control /\ Loaded /\ [Next]_vars => OnlyFiles'
<1> SUFFICES ASSUME OnlyFiles, Control, Loaded, [Next]_vars PROVE OnlyFiles'
  OBVIOUS
<1> USE DEF OnlyFiles, opening, base_vars
<1>1. CASE OpenDriver  BY <1>1 DEF OpenDriver
<1>2. CASE LoadFile  BY <1>2 DEF LoadFile
<1>3. CASE LoadHeldFile \/ LoadFileToMemDynamic
  <2>1. step \in 0 .. 4  BY <1>3 DEF Control, BeforeInfo, Loaded, LoadHeldFile, LoadFileToMemDynamic
  <2>2. NextFile \in Files  BY <2>1 DEF NextFile, PreFiles, Files
  <2>. QED BY <1>3, <2>2 DEF LoadHeldFile, LoadFileToMemDynamic, LoadDataToMem, ReadFileDataFails
<1>4. CASE loaded' = loaded  BY <1>4
<1>5. CASE ReadAddrmap \/ ReadDataIn \/ LoadParamFile \/ HardwareEnds \/ NextFrame \/ Release \/ Stopped
  BY <1>4, <1>5 DEF ReadAddrmap, ReadDataIn, LoadParamFile, HardwareEnds, NextFrame, Release, Stopped
<1>6. CASE RunNext  BY <1>4, <1>6 DEF RunNext, Start, Timeout, WaitDone, GetResult, Return
<1>7. CASE PreOpen \/ ReadAddrmapTxt \/ ParseParamInfo \/ LoadInfo \/ LoadModel
  BY <1>4, <1>7 DEF PreOpen, ReadAddrmapTxt, ParseParamInfo, LoadInfo, LoadModel, AfterOpenError
<1>8. CASE TvmRunNext
  BY <1>4, <1>8, Zenon DEF TvmRunNext, PreUpdate, PreStart, PreTimeout, PreDone, PreResult,
         RunModel, CopyOutputs
<1>9. CASE UNCHANGED vars  BY <1>9, <1>4 DEF vars
<1>. QED BY <1>1, <1>2, <1>3, <1>5, <1>6, <1>7, <1>8, <1>9
         DEF Next, BaseNext, OpenNext, PreLoadNext

LEMMA AllFiles == ASSUME \A i \in 1 .. 5 : PreFiles[i] \in loaded, loaded \subseteq Files
                  PROVE  loaded = Files
<1>1. /\ PreFiles[1] = "drp_desc" /\ PreFiles[2] = "drpcfg" /\ PreFiles[3] = "drp_param"
      /\ PreFiles[4] = "aimac_desc" /\ PreFiles[5] = "weight"
  BY DEF PreFiles
<1>2. Files \subseteq loaded  BY <1>1 DEF Files
<1>. QED BY <1>2

LEMMA LoadedInit == Init => Loaded
BY DEF Init, BaseInit, Loaded, BeforeInfo

LEMMA LoadedStep == Control /\ Loaded /\ [Next]_vars => Loaded'
<1> SUFFICES ASSUME Control, Loaded, [Next]_vars PROVE Loaded'
  OBVIOUS
<1> USE DEF Control, Loaded, Strict, BaseOpening, BeforeInfo,
            base_settings, opening, device, base_vars, loading, tvm_vars
<1>1. CASE OpenDriver /\ UNCHANGED tvm_vars
  <2>1. pc = "closed" /\ UNCHANGED <<tvm, stop_error, lost, step>>  BY <1>1 DEF OpenDriver
  <2>2. tvm => pc' \in {"closed", "pre_open", "ended"}
    BY <1>1, <2>1 DEF OpenDriver, AfterOpenError
  <2>3. ~tvm /\ stop_error => pc' \in {"closed", "addrmap"}
    BY <1>1, <2>1 DEF OpenDriver, AfterOpenError
  <2>5. tvm => Loaded'  BY <2>1, <2>2
  <2>6. ~tvm => Loaded'  BY <2>1, <2>3
  <2>. QED BY <2>5, <2>6
<1>2. CASE OpenNext /\ UNCHANGED tvm_vars
  <2>1. pc \in BaseOpening /\ UNCHANGED <<tvm, stop_error, lost, step>>
    BY <1>2 DEF OpenNext, ReadAddrmap, ReadDataIn, LoadFile, LoadParamFile
  <2>2. CASE ReadAddrmap \/ ReadDataIn
    <3>1. stop_error => pc' \in {"closed", "data_in", "files", "ended"}
      BY <2>2 DEF ReadAddrmap, ReadDataIn, AfterOpenError
    <3>. QED BY <2>1, <3>1
  <2>3. CASE LoadFile
    <3>1. stop_error => pc' \in {"closed", "files"} \/ (pc' = "param" /\ loaded' = Files)
      <4>1. ASSUME NEW f \in Files, stop_error, loaded' = loaded \cup {f},
                   pc' = IF loaded' = Files THEN "param" ELSE "files"
            PROVE  pc' \in {"closed", "files"} \/ (pc' = "param" /\ loaded' = Files)
        BY <4>1
      <4>2. stop_error => AfterOpenError = "closed"  BY DEF AfterOpenError
      <4>. QED BY <2>3, <4>1, <4>2 DEF LoadFile
    <3>. QED BY <2>1, <3>1
  <2>4. CASE LoadParamFile
    <3>1. pc = "param" /\ UNCHANGED loaded  BY <2>4 DEF LoadParamFile
    <3>. QED BY <2>1, <3>1
  <2>. QED BY <1>2, <2>2, <2>3, <2>4 DEF OpenNext
<1>3. CASE PreOpen \/ ReadAddrmapTxt \/ ParseParamInfo
  <2>1. /\ pc \in {"pre_open", "pre_addrmap", "pre_parse"}
        /\ pc' \in {"pre_addrmap", "pre_parse", "pre_files", "ended"}
        /\ UNCHANGED <<tvm, stop_error, loaded>>
        /\ step' = 0
    BY <1>3 DEF PreOpen, ReadAddrmapTxt, ParseParamInfo
  <2>2. lost => lost'  BY <1>3 DEF PreOpen, ReadAddrmapTxt, ParseParamInfo
  <2>3. tvm  BY <2>1
  <2>. QED BY <2>1, <2>2, <2>3
<1>4. CASE LoadHeldFile \/ LoadFileToMemDynamic
  <2>1. pc = "pre_files" /\ step' = step + 1 /\ UNCHANGED <<tvm, stop_error>>
    BY <1>4 DEF LoadHeldFile, LoadFileToMemDynamic
  <2>2. tvm /\ step \in 0 .. 4  BY <2>1
  <2>3. CASE pc' = "ended"  BY <2>1, <2>2, <2>3
  <2>4. CASE pc' = AfterFile /\ LoadDataToMem(NextFile)
    <3>1. pc' = IF step' = 5 THEN "pre_info" ELSE "pre_files"
      BY <2>1, <2>4 DEF AfterFile, PreFiles
    <3>2. lost' \/ (~lost /\ ~lost' /\ loaded' = loaded \cup {PreFiles[step']})
          \/ (lost /\ lost')
      BY <2>1, <2>4 DEF LoadDataToMem, NextFile
    <3>3. ~lost' => \A i \in 1 .. step' : PreFiles[i] \in loaded'
      BY <2>1, <2>2, <3>2
    <3>. QED BY <2>1, <2>2, <3>1, <3>3
  <2>. QED BY <1>4, <2>3, <2>4 DEF LoadHeldFile, LoadFileToMemDynamic, ReadFileDataFails
<1>5. ASSUME pc \in {"pre_info", "model"} \/ pc \notin Opening \cup {"ended"},
             pc' \in {"model", "ended"} \/ pc' \notin Opening \/ (tvm /\ pc' = "closed"),
             UNCHANGED <<tvm, stop_error, step, loaded>>, lost => lost'
      PROVE  Loaded'
  BY <1>5 DEF Opening
<1>6. CASE LoadInfo \/ LoadModel
  <2>1. tvm  BY <1>6 DEF LoadInfo, LoadModel
  <2>. QED BY <1>5, <1>6, <2>1 DEF LoadInfo, LoadModel, AfterOpenError, Opening
<1>7. CASE PreUpdate
  <2>1. pc = "pre" /\ pc' \in {"idle", "start"} /\ UNCHANGED <<tvm, stop_error, step, loaded>>
    BY <1>7 DEF PreUpdate
  <2>2. lost => lost'  BY <1>7, Zenon DEF PreUpdate
  <2>. QED BY <1>5, <2>1, <2>2 DEF Opening
<1>8. CASE PreStart \/ PreTimeout \/ PreDone \/ PreResult \/ RunModel \/ CopyOutputs
  <2>1. /\ pc \in {"start", "wait", "result", "mera", "copy"}
        /\ pc' \in {"idle", "wait", "result", "mera", "copy", "done", "ended"}
        /\ UNCHANGED <<tvm, stop_error, step, loaded>>
    BY <1>8 DEF PreStart, PreTimeout, PreDone, PreResult, RunModel, CopyOutputs
  <2>2. lost' = lost
    BY <1>8, Zenon DEF PreStart, PreTimeout, PreDone, PreResult, RunModel, CopyOutputs
  <2>. QED BY <1>5, <2>1, <2>2 DEF Opening
<1>9. CASE (NextFrame \/ RunNext \/ Release) /\ UNCHANGED tvm_vars
  <2>1. /\ pc \in {"idle", "start", "wait", "result", "done"}
        /\ pc' \in {"idle", "pre", "start", "wait", "result", "done", "released"}
        /\ UNCHANGED <<tvm, stop_error, step, loaded>>
    BY <1>9 DEF NextFrame, RunNext, Start, Timeout, WaitDone, GetResult, Return, Release
  <2>2. lost' = lost  BY <1>9
  <2>. QED BY <1>5, <2>1, <2>2 DEF Opening
<1>10. CASE (HardwareEnds \/ Stopped) /\ UNCHANGED tvm_vars
  <2>1. UNCHANGED <<pc, tvm, stop_error, step, loaded>>  BY <1>10 DEF HardwareEnds, Stopped
  <2>2. lost' = lost  BY <1>10
  <2>. QED BY <2>1, <2>2
<1>11. CASE UNCHANGED vars
  <2>1. UNCHANGED <<pc, tvm, stop_error, step, loaded>>  BY <1>11 DEF vars
  <2>2. lost' = lost  BY <1>11, Zenon DEF vars
  <2>. QED BY <2>1, <2>2
<1>. QED BY <1>1, <1>2, <1>3, <1>4, <1>6, <1>7, <1>8, <1>9, <1>10, <1>11
         DEF Next, BaseNext, PreLoadNext, TvmRunNext

\* Nothing that fails while the model is loaded lets the hardware run on part
\* of it, but an error of the driver that is not looked at, or the wish to go
\* on (base_drpai.cpp:70-105, PreRuntime.cpp:319-340).
THEOREM OnlyWholeModels == Spec => []WholeModelRuns
<1>1. Control /\ Loaded /\ OnlyFiles => WholeModelRuns
  <2> SUFFICES ASSUME Control, Loaded, OnlyFiles, hw = "running", Strict PROVE loaded = Files
    BY DEF WholeModelRuns, Strict
  <2>1. pc \notin Opening  BY DEF Control
  <2>2. CASE tvm
    <3>1. pc # "ended"  BY DEF Control
    <3>2. \A i \in 1 .. 5 : PreFiles[i] \in loaded  BY <2>1, <2>2, <3>1 DEF Loaded, Opening, BeforeInfo
    <3>. QED BY <3>2, AllFiles DEF OnlyFiles
  <2>3. CASE ~tvm  BY <2>1, <2>3 DEF Control, Loaded, Opening, BaseOpening
  <2>. QED BY <2>2, <2>3
<1>2. Init => OnlyFiles  BY DEF Init, BaseInit, OnlyFiles
<1>. QED BY <1>1, <1>2, ControlInit, ControlStep, LoadedInit, LoadedStep, OnlyFilesStep, PTL DEF Spec

-----------------------------------------------------------------------------
(* Types                                                                   *)

Flags ==
  /\ tvm \in BOOLEAN /\ stop_error \in BOOLEAN /\ sized \in BOOLEAN /\ in_addr \in BOOLEAN
  /\ hw_err \in BOOLEAN /\ lost \in BOOLEAN /\ unwritten \in BOOLEAN

Places ==
  /\ pc \in {"closed", "addrmap", "data_in", "files", "param", "pre_open",
             "pre_addrmap", "pre_parse", "pre_files", "pre_info", "model",
             "idle", "pre", "start", "wait", "result", "mera",
             "copy", "done", "released", "ended"}
  /\ drpai_fd \in {"unset", "bad", "open", "closed"}
  /\ hw \in {"idle", "running", "done"}

\* Every descriptor belongs to an attempt.
Counts ==
  /\ opens \in 0 .. MaxOpens /\ open_fds \in 0 .. opens /\ pre_fds \in 0 .. opens
  /\ drpai_fd = "open" => open_fds > 0
  /\ pc = "pre_open" => pre_fds < opens

Contents ==
  /\ image \in 0 .. MaxRuns
  /\ hw_in \in Frames /\ out_mem \in Frames /\ pre_out \in Frames /\ model_in \in Frames
  /\ buf \in Seq(Frames)

Kinds ==
  /\ model \in Models
  /\ input_type \in DataTypes
  /\ outputs \in OutputLists \union {<<>>}

LEMMA FlagsStep == Flags /\ [Next]_vars => Flags'
<1> SUFFICES ASSUME Flags, [Next]_vars PROVE Flags'
  OBVIOUS
<1> USE DEF Flags, base_settings, opening, device, base_vars, loading, params, tvm_vars
<1>1. CASE OpenDriver /\ UNCHANGED tvm_vars  BY <1>1, Zenon DEF OpenDriver
<1>2. CASE OpenNext /\ UNCHANGED tvm_vars
  <2>1. in_addr' \in BOOLEAN /\ sized' \in BOOLEAN
    BY <1>2, Zenon DEF OpenNext, ReadAddrmap, ReadDataIn, LoadFile, LoadParamFile
  <2>. QED
    BY <1>2, <2>1, Zenon DEF OpenNext, ReadAddrmap, ReadDataIn, LoadFile, LoadParamFile
<1>3. CASE (HardwareEnds \/ NextFrame) /\ UNCHANGED tvm_vars  BY <1>3, Zenon DEF HardwareEnds, NextFrame
<1>4. CASE RunNext /\ UNCHANGED tvm_vars
  BY <1>4, Zenon DEF RunNext, Start, DriverStarts, Timeout, WaitDone, GetResult, Return
<1>5. CASE (Release \/ Stopped) /\ UNCHANGED tvm_vars  BY <1>5, Zenon DEF Release, Stopped
<1>6. CASE PreOpen \/ ReadAddrmapTxt \/ ParseParamInfo
  BY <1>6, Zenon DEF PreOpen, ReadAddrmapTxt, ParseParamInfo
<1>7. CASE LoadHeldFile \/ LoadFileToMemDynamic
  BY <1>7, Zenon DEF LoadHeldFile, LoadFileToMemDynamic, LoadDataToMem, ReadFileDataFails
<1>8. CASE LoadInfo \/ LoadModel  BY <1>8, Zenon DEF LoadInfo, LoadModel
<1>9. CASE PreUpdate
  <2>1. lost' \in BOOLEAN /\ unwritten' \in BOOLEAN  BY <1>9, Zenon DEF PreUpdate
  <2>. QED BY <1>9, <2>1, Zenon DEF PreUpdate
<1>10. CASE PreStart \/ PreTimeout \/ PreDone \/ PreResult
  BY <1>10, Zenon DEF PreStart, DriverStarts, PreTimeout, PreDone, PreResult
<1>11. CASE RunModel \/ CopyOutputs \/ UNCHANGED vars  BY <1>11, Zenon DEF RunModel, CopyOutputs, vars
<1>. QED BY <1>1, <1>2, <1>3, <1>4, <1>5, <1>6, <1>7, <1>8, <1>9, <1>10, <1>11
         DEF Next, BaseNext, PreLoadNext, TvmRunNext

LEMMA PlacesStep == Places /\ [Next]_vars => Places'
<1> SUFFICES ASSUME Places, [Next]_vars PROVE Places'
  OBVIOUS
<1> USE DEF Places, base_settings, opening, device, base_vars
<1>1. CASE OpenDriver  BY <1>1 DEF OpenDriver, AfterOpenError
<1>2. CASE ReadAddrmap \/ ReadDataIn  BY <1>2 DEF ReadAddrmap, ReadDataIn, AfterOpenError
<1>3. CASE LoadFile \/ LoadParamFile  BY <1>3 DEF LoadFile, LoadParamFile, AfterOpenError
<1>4. CASE HardwareEnds \/ NextFrame  BY <1>4 DEF HardwareEnds, NextFrame
<1>5. CASE RunNext  BY <1>5 DEF RunNext, Start, DriverStarts, Timeout, WaitDone, GetResult, Return
<1>6. CASE Release \/ Stopped  BY <1>6 DEF Release, Stopped
<1>7. CASE PreOpen \/ ReadAddrmapTxt \/ ParseParamInfo
  BY <1>7 DEF PreOpen, ReadAddrmapTxt, ParseParamInfo
<1>8. CASE LoadHeldFile \/ LoadFileToMemDynamic
  <2>1. pc' \in {"pre_files", "pre_info", "ended"} /\ UNCHANGED <<drpai_fd, hw>>
    BY <1>8 DEF LoadHeldFile, LoadFileToMemDynamic, AfterFile, ReadFileDataFails
  <2>. QED BY <2>1
<1>9. CASE LoadInfo \/ LoadModel  BY <1>9 DEF LoadInfo, LoadModel, AfterOpenError
<1>10. CASE PreUpdate
  <2>1. pc' \in {"idle", "start"} /\ UNCHANGED <<drpai_fd, hw>>  BY <1>10 DEF PreUpdate
  <2>. QED BY <2>1
<1>11. CASE PreStart \/ PreTimeout \/ PreDone \/ PreResult
  BY <1>11 DEF PreStart, DriverStarts, PreTimeout, PreDone, PreResult
<1>12. CASE RunModel \/ CopyOutputs  BY <1>12 DEF RunModel, CopyOutputs
<1>13. CASE UNCHANGED vars  BY <1>13 DEF vars
<1>. QED BY <1>1, <1>2, <1>3, <1>4, <1>5, <1>6, <1>7, <1>8, <1>9, <1>10, <1>11, <1>12, <1>13
         DEF Next, BaseNext, OpenNext, PreLoadNext, TvmRunNext

LEMMA CountsStep == Counts /\ [Next]_vars => Counts'
<1> SUFFICES ASSUME Counts, [Next]_vars PROVE Counts'
  OBVIOUS
<1> USE RunBounds DEF Counts, base_settings, opening, device, base_vars, loading, tvm_vars
<1>1. CASE OpenDriver /\ UNCHANGED tvm_vars
  <2>1. opens < MaxOpens /\ opens' = opens + 1 /\ pre_fds' = pre_fds  BY <1>1 DEF OpenDriver
  <2>2. \/ drpai_fd' = "open" /\ open_fds' = open_fds + 1
        \/ drpai_fd' = "bad" /\ open_fds' = open_fds
    BY <1>1 DEF OpenDriver
  <2>. QED BY <2>1, <2>2
<1>2. CASE Release /\ UNCHANGED tvm_vars
  <2>1. opens' = opens /\ pre_fds' = pre_fds /\ pc' = "released"  BY <1>2 DEF Release
  <2>2. \/ drpai_fd = "open" /\ drpai_fd' = "closed" /\ open_fds' = open_fds - 1
        \/ UNCHANGED <<drpai_fd, open_fds>>
    BY <1>2 DEF Release
  <2>. QED BY <2>1, <2>2
<1>3. CASE PreOpen
  <2>1. pc = "pre_open" /\ pc' # "pre_open" /\ pre_fds' \in {pre_fds, pre_fds + 1}
        /\ UNCHANGED <<opens, open_fds, drpai_fd>>
    BY <1>3 DEF PreOpen
  <2>. QED BY <2>1
<1>4. CASE UNCHANGED <<opens, open_fds, drpai_fd, pre_fds>> /\ (pc' = "pre_open" => pc = "pre_open")
  BY <1>4
<1>5. CASE OpenNext /\ UNCHANGED tvm_vars
  BY <1>4, <1>5 DEF OpenNext, ReadAddrmap, ReadDataIn, LoadFile, LoadParamFile, AfterOpenError
<1>6. CASE (HardwareEnds \/ NextFrame \/ RunNext \/ Stopped) /\ UNCHANGED tvm_vars
  BY <1>4, <1>6 DEF HardwareEnds, NextFrame, RunNext, Start, Timeout, WaitDone, GetResult, Return,
         Stopped
<1>7. CASE ReadAddrmapTxt \/ ParseParamInfo \/ LoadInfo \/ LoadModel
  BY <1>4, <1>7 DEF ReadAddrmapTxt, ParseParamInfo, LoadInfo, LoadModel, AfterOpenError
<1>8. CASE LoadHeldFile \/ LoadFileToMemDynamic
  <2>1. pc' \in {"pre_files", "pre_info", "ended"} /\ UNCHANGED <<opens, open_fds, drpai_fd, pre_fds>>
    BY <1>8 DEF LoadHeldFile, LoadFileToMemDynamic, AfterFile, ReadFileDataFails
  <2>. QED BY <1>4, <2>1
<1>9. CASE PreUpdate
  <2>1. pc' \in {"idle", "start"} /\ UNCHANGED <<opens, open_fds, drpai_fd, pre_fds>>
    BY <1>9 DEF PreUpdate
  <2>. QED BY <1>4, <2>1
<1>10. CASE PreStart \/ PreTimeout \/ PreDone \/ PreResult \/ RunModel \/ CopyOutputs
  BY <1>4, <1>10 DEF PreStart, PreTimeout, PreDone, PreResult, RunModel, CopyOutputs
<1>11. CASE UNCHANGED vars  BY <1>4, <1>11 DEF vars
<1>. QED BY <1>1, <1>2, <1>3, <1>5, <1>6, <1>7, <1>8, <1>9, <1>10, <1>11
         DEF Next, BaseNext, PreLoadNext, TvmRunNext

LEMMA CountOfType ==
  ASSUME NEW list \in OutputLists, NEW types
  PROVE  /\ IsFiniteSet({i \in DOMAIN list : list[i] \in types})
         /\ CountOf(list, types) \in Nat
<1>1. DOMAIN list = 1 .. Len(list) /\ Len(list) \in Nat  BY TypesAssumption
<1>2. IsFiniteSet(DOMAIN list)  BY <1>1, FS_Interval
<1>3. IsFiniteSet({i \in DOMAIN list : list[i] \in types})  BY <1>2, FS_Subset
<1>. QED BY <1>3, FS_CardinalityType DEF CountOf

LEMMA CountOfAny ==
  ASSUME NEW list \in OutputLists \cup {<<>>}, NEW types
  PROVE  CountOf(list, types) \in Nat
<1>1. CASE list = <<>>
  <2>1. {i \in DOMAIN list : list[i] \in types} = {}  BY <1>1
  <2>2. Cardinality({}) = 0  BY FS_EmptySet
  <2>3. CountOf(list, types) = 0  BY <2>1, <2>2, Zenon DEF CountOf
  <2>. QED BY <2>3
<1>. QED BY <1>1, CountOfType

LEMMA ContentsStep == Contents /\ [Next]_vars => Contents'
<1> SUFFICES ASSUME Contents, [Next]_vars PROVE Contents'
  OBVIOUS
<1> USE RunBounds DEF Contents, base_settings, opening, device, base_vars
<1>. 0 \in Frames /\ Other \in Frames /\ Torn \in Frames /\ \A i \in 0 .. MaxRuns : i \in Frames
  BY DEF Frames
<1>1. CASE UNCHANGED <<image, hw_in, out_mem, pre_out, model_in, buf>>  BY <1>1
<1>2. CASE OpenDriver /\ UNCHANGED tvm_vars  BY <1>1, <1>2 DEF OpenDriver, tvm_vars
<1>3. CASE OpenNext /\ UNCHANGED tvm_vars
  <2>1. UNCHANGED <<image, hw_in, out_mem, pre_out, model_in>> /\ buf' \in {buf, <<0>>}
    BY <1>3 DEF OpenNext, ReadAddrmap, ReadDataIn, LoadFile, LoadParamFile, tvm_vars
  <2>2. <<0>> \in Seq(Frames)  OBVIOUS
  <2>. QED BY <2>1, <2>2
<1>4. CASE HardwareEnds /\ UNCHANGED tvm_vars
  <2>1. UNCHANGED <<image, hw_in, pre_out, model_in, buf>> /\ out_mem' \in {out_mem, hw_in}
    BY <1>4 DEF HardwareEnds, tvm_vars
  <2>. QED BY <2>1
<1>5. CASE NextFrame /\ UNCHANGED tvm_vars
  <2>1. image < MaxRuns /\ image' = image + 1  BY <1>5 DEF NextFrame
  <2>2. hw_in' \in {hw_in, Torn} /\ UNCHANGED <<out_mem, pre_out, model_in, buf>>
    BY <1>5 DEF NextFrame, tvm_vars
  <2>. QED BY <2>1, <2>2
<1>6. CASE (Start /\ UNCHANGED tvm_vars) \/ PreStart
  <2>1. UNCHANGED <<image, out_mem, buf>> /\ hw_in' \in {hw_in, image, Other}
    BY <1>6 DEF Start, PreStart, DriverStarts
  <2>2. UNCHANGED <<pre_out, model_in>>  BY <1>6 DEF PreStart, tvm_vars
  <2>. QED BY <2>1, <2>2
<1>7. CASE (Timeout \/ WaitDone \/ Return \/ Release \/ Stopped) /\ UNCHANGED tvm_vars
  BY <1>1, <1>7 DEF Timeout, WaitDone, Return, Release, Stopped, tvm_vars
<1>8. CASE GetResult /\ UNCHANGED tvm_vars
  <2>1. UNCHANGED <<image, hw_in, out_mem, pre_out, model_in>> /\ buf' \in {buf, <<out_mem>>}
    BY <1>8 DEF GetResult, tvm_vars
  <2>2. <<out_mem>> \in Seq(Frames)  OBVIOUS
  <2>. QED BY <2>1, <2>2
<1>9. CASE PreOpen \/ ReadAddrmapTxt \/ ParseParamInfo
  BY <1>1, <1>9 DEF PreOpen, ReadAddrmapTxt, ParseParamInfo, tvm_vars
<1>10. CASE LoadHeldFile \/ LoadFileToMemDynamic \/ LoadInfo
  BY <1>1, <1>10, Zenon DEF LoadHeldFile, LoadFileToMemDynamic, LoadInfo
<1>11. CASE LoadModel
  <2>1. UNCHANGED <<image, hw_in, out_mem, pre_out, model_in>>  BY <1>11 DEF LoadModel
  <2>2. buf' \in Seq(Frames)
    <3>1. CASE buf' = buf  BY <3>1
    <3>2. CASE outputs' \in OutputLists /\ buf' = [i \in 1 .. CountOf(outputs', Floats) |-> 0]
      <4>1. CountOf(outputs', Floats) \in Nat  BY <3>2, CountOfType
      <4>. QED BY <3>2, <4>1
    <3>. QED BY <1>11, <3>1, <3>2 DEF LoadModel
  <2>. QED BY <2>1, <2>2
<1>12. CASE PreUpdate \/ PreTimeout \/ PreDone
  BY <1>1, <1>12, Zenon DEF PreUpdate, PreTimeout, PreDone, tvm_vars
<1>13. CASE PreResult
  <2>1. UNCHANGED <<image, hw_in, out_mem, model_in, buf>> /\ pre_out' \in {pre_out, out_mem}
    BY <1>13 DEF PreResult
  <2>. QED BY <2>1
<1>14. CASE RunModel
  <2>1. UNCHANGED <<image, hw_in, out_mem, pre_out, buf>> /\ model_in' \in {model_in, pre_out}
    BY <1>14 DEF RunModel
  <2>. QED BY <2>1
<1>15. CASE CopyOutputs
  <2>1. UNCHANGED <<image, hw_in, out_mem, pre_out, model_in>>  BY <1>15 DEF CopyOutputs, tvm_vars
  <2>2. \E n : buf' = [i \in DOMAIN buf |-> IF i <= n THEN model_in ELSE buf[i]]
    BY <1>15 DEF CopyOutputs
  <2>3. buf' \in Seq(Frames)  BY <2>2
  <2>. QED BY <2>1, <2>3
<1>16. CASE UNCHANGED vars  BY <1>1, <1>16 DEF vars, tvm_vars
<1>. QED BY <1>2, <1>3, <1>4, <1>5, <1>6, <1>7, <1>8, <1>9, <1>10, <1>11, <1>12, <1>13, <1>14,
         <1>15, <1>16 DEF Next, BaseNext, RunNext, PreLoadNext, TvmRunNext

LEMMA KindsStep == Kinds /\ [Next]_vars => Kinds'
<1> SUFFICES ASSUME Kinds, [Next]_vars PROVE Kinds'
  OBVIOUS
<1> USE TypesAssumption DEF Kinds, tvm_model
<1>1. CASE UNCHANGED <<model, input_type, outputs>>  BY <1>1
<1>2. CASE UNCHANGED tvm_vars  BY <1>1, <1>2 DEF tvm_vars
<1>3. CASE PreOpen \/ ReadAddrmapTxt \/ ParseParamInfo
  BY <1>1, <1>3 DEF PreOpen, ReadAddrmapTxt, ParseParamInfo, tvm_vars
<1>4. CASE LoadHeldFile \/ LoadFileToMemDynamic \/ LoadInfo
  BY <1>1, <1>4, Zenon DEF LoadHeldFile, LoadFileToMemDynamic, LoadInfo
<1>5. CASE LoadModel
  <2>1. model' = model /\ input_type' \in {input_type} \cup InputTypes
        /\ outputs' \in {outputs} \cup OutputLists
    BY <1>5 DEF LoadModel
  <2>. QED BY <2>1
<1>6. CASE TvmRunNext
  BY <1>1, <1>6, Zenon DEF TvmRunNext, PreUpdate, PreStart, PreTimeout, PreDone, PreResult, RunModel,
                           CopyOutputs, tvm_vars
<1>7. CASE UNCHANGED vars  BY <1>1, <1>7 DEF vars, tvm_vars
<1>. QED BY <1>2, <1>3, <1>4, <1>5, <1>6, <1>7 DEF Next, PreLoadNext

\* Everything keeps its type; there are no more descriptors than attempts to
\* open the device (base_drpai.cpp:184, PreRuntime.cpp:1036).
THEOREM TypeCorrect == Spec => []TypeOK
<1>1. Init => Flags /\ Kinds
  <2>1. Init => Flags  BY Zenon DEF Init, BaseInit, Flags
  <2>2. Init => Kinds  BY DEF Init, Kinds, DataTypes
  <2>. QED BY <2>1, <2>2
<1>2. Init => Places /\ OnlyFiles  BY DEF Init, BaseInit, Places, OnlyFiles
<1>3. Init => Counts  BY RunBounds DEF Init, BaseInit, Counts
<1>4. Init => Contents  BY RunBounds DEF Init, BaseInit, Contents, Frames
<1>5. Flags /\ Places /\ Counts /\ Contents /\ Kinds /\ OnlyFiles /\ Loaded => TypeOK
  <2> SUFFICES ASSUME Flags, Places, Counts, Contents, Kinds, OnlyFiles, Loaded PROVE TypeOK
    OBVIOUS
  <2>1. Len(PreFiles) = 5  BY DEF PreFiles
  <2>. QED BY <2>1 DEF TypeOK, Flags, Places, Counts, Contents, Kinds, OnlyFiles, Loaded
<1>. QED BY <1>1, <1>2, <1>3, <1>4, <1>5, FlagsStep, PlacesStep, CountsStep, ContentsStep, KindsStep,
         OnlyFilesStep, ControlInit, ControlStep, LoadedInit, LoadedStep, PTL DEF Spec

-----------------------------------------------------------------------------
(* The results                                                             *)

\* drpai_output_buf has no room for more than what is copied into it.
Room == tvm => Len(buf) <= CountOf(outputs, DataTypes \ {"OTHER"})

\* Where the frame in the udmabuf has got to.
Results ==
  /\ hw = "done" => hw_err \/ out_mem = hw_in
  /\ pc = "wait" => hw # "idle"
  /\ pc \in {"wait", "result", "mera", "copy", "done"} /\ in_addr => hw_in = image
  /\ pc = "mera" /\ in_addr => hw_err \/ pre_out = image
  /\ pc = "copy" /\ in_addr /\ input_type \in Floats => hw_err \/ model_in = image
  /\ pc = "done" /\ in_addr /\ (tvm => input_type \in Floats) =>
       hw_err \/ \A i \in DOMAIN buf : buf[i] = image

LEMMA RoomStep == Control /\ Contents /\ Kinds /\ Room /\ [Next]_vars => Room'
<1> SUFFICES ASSUME Control, Contents, Kinds, Room, [Next]_vars PROVE Room'
  OBVIOUS
<1> USE DEF base_settings, opening, device, base_vars, tvm_model
<1>1. CASE UNCHANGED <<tvm, buf, outputs>>  BY <1>1 DEF Room
<1>2. CASE ~tvm' /\ tvm' = tvm  BY <1>2 DEF Room
<1>3. CASE (OpenDriver \/ HardwareEnds \/ NextFrame \/ Release \/ Stopped) /\ UNCHANGED tvm_vars
  BY <1>1, <1>3 DEF OpenDriver, HardwareEnds, NextFrame, Release, Stopped, tvm_vars
<1>4. CASE OpenNext
  <2>1. pc \in BaseOpening /\ tvm' = tvm
    BY <1>4 DEF OpenNext, ReadAddrmap, ReadDataIn, LoadFile, LoadParamFile, BaseOpening
  <2>. QED BY <1>2, <2>1 DEF Control
<1>5. CASE RunNext /\ UNCHANGED tvm_vars
  <2>1. CASE GetResult  BY <1>2, <2>1 DEF GetResult
  <2>2. CASE Start \/ Timeout \/ WaitDone \/ Return
    BY <1>1, <1>5, <2>2 DEF Start, Timeout, WaitDone, Return, tvm_vars
  <2>. QED BY <1>5, <2>1, <2>2 DEF RunNext
<1>6. CASE PreOpen \/ ReadAddrmapTxt \/ ParseParamInfo
  BY <1>1, <1>6 DEF PreOpen, ReadAddrmapTxt, ParseParamInfo, tvm_vars
<1>7. CASE LoadHeldFile \/ LoadFileToMemDynamic \/ LoadInfo
  BY <1>1, <1>7, Zenon DEF LoadHeldFile, LoadFileToMemDynamic, LoadInfo
<1>8. CASE LoadModel
  <2>1. CASE UNCHANGED <<outputs, buf>>  BY <1>1, <1>8, <2>1 DEF LoadModel
  <2>2. CASE outputs' \in OutputLists /\ buf' = [i \in 1 .. CountOf(outputs', Floats) |-> 0]
    <3> DEFINE floats == {i \in DOMAIN outputs' : outputs'[i] \in Floats}
               copied == {i \in DOMAIN outputs' : outputs'[i] \in DataTypes \ {"OTHER"}}
    <3>1. IsFiniteSet(copied) /\ CountOf(outputs', Floats) \in Nat  BY <2>2, CountOfType
    <3>2. floats \subseteq copied  BY DEF Floats, DataTypes
    <3>3. Cardinality(floats) <= Cardinality(copied)  BY <3>1, <3>2, FS_Subset
    <3>4. Len(buf') = CountOf(outputs', Floats)  BY <2>2, <3>1
    <3>5. CountOf(outputs', Floats) = Cardinality(floats)
          /\ CountOf(outputs', DataTypes \ {"OTHER"}) = Cardinality(copied)
      BY Zenon DEF CountOf
    <3>. QED BY <3>3, <3>4, <3>5 DEF Room
  <2>. QED BY <1>8, <2>1, <2>2 DEF LoadModel
<1>9. CASE PreUpdate \/ PreStart \/ PreTimeout \/ PreDone \/ PreResult \/ RunModel
  BY <1>1, <1>9, Zenon DEF PreUpdate, PreStart, PreTimeout, PreDone, PreResult, RunModel, tvm_vars
<1>10. CASE CopyOutputs
  <2>1. UNCHANGED <<tvm, outputs>>  BY <1>10 DEF CopyOutputs, tvm_vars
  <2>2. \E n : buf' = [i \in DOMAIN buf |-> IF i <= n THEN model_in ELSE buf[i]]
    BY <1>10 DEF CopyOutputs
  <2>3. Len(buf') = Len(buf)  BY <2>2 DEF Contents
  <2>. QED BY <2>1, <2>3 DEF Room
<1>11. CASE UNCHANGED vars  BY <1>1, <1>11 DEF vars, tvm_vars
<1>. QED BY <1>3, <1>4, <1>5, <1>6, <1>7, <1>8, <1>9, <1>10, <1>11
         DEF Next, BaseNext, PreLoadNext, TvmRunNext

LEMMA ResultsStep == Control /\ Contents /\ Kinds /\ Room /\ Results /\ [Next]_vars => Results'
<1> SUFFICES ASSUME Control, Contents, Kinds, Room, Results, [Next]_vars PROVE Results'
  OBVIOUS
<1> USE DEF Results, base_settings, opening, device, base_vars, tvm_model
<1>1. ASSUME UNCHANGED <<tvm, hw, hw_in, hw_err, out_mem, image>>,
             pc' \notin {"wait", "result", "mera", "copy", "done"}
      PROVE  Results'
  BY <1>1
<1>2. CASE OpenDriver  BY <1>1, <1>2 DEF OpenDriver, AfterOpenError
<1>3. CASE OpenNext
  BY <1>1, <1>3 DEF OpenNext, ReadAddrmap, ReadDataIn, LoadFile, LoadParamFile, AfterOpenError
<1>4. CASE HardwareEnds /\ UNCHANGED tvm_vars
  <2>1. UNCHANGED <<pc, hw_in, image, in_addr>> /\ hw = "running" /\ hw' = "done"
    BY <1>4 DEF HardwareEnds
  <2>2. hw_err' \/ out_mem' = hw_in'  BY <1>4 DEF HardwareEnds
  <2>3. pc \notin {"result", "mera", "copy", "done"}  BY <2>1 DEF Control
  <2>. QED BY <2>1, <2>2, <2>3
<1>5. CASE NextFrame
  <2>1. pc' \in {"pre", "start"} /\ UNCHANGED <<hw, hw_err, out_mem>>  BY <1>5 DEF NextFrame
  <2>2. hw = "done" => hw_in' = hw_in  BY <1>5 DEF NextFrame
  <2>. QED BY <2>1, <2>2
<1>6. CASE Start \/ PreStart
  <2>1. CASE pc' = "wait" /\ DriverStarts(IF in_addr THEN image ELSE Other)
             /\ UNCHANGED <<image, in_addr>>
    BY <2>1 DEF DriverStarts
  <2>. QED BY <1>1, <1>6, <2>1 DEF Start, PreStart
<1>7. CASE Timeout \/ PreTimeout \/ Return \/ Release
  BY <1>1, <1>7 DEF Timeout, PreTimeout, Return, Release
<1>8. CASE WaitDone \/ PreDone
  <2>1. pc = "wait" /\ pc' \in {"result", "idle"} /\ UNCHANGED <<in_addr, hw, hw_in, hw_err, out_mem, image>>
    BY <1>8 DEF WaitDone, PreDone
  <2>. QED BY <2>1
<1>9. CASE GetResult
  <2>1. pc = "result" /\ UNCHANGED <<in_addr, hw, hw_in, hw_err, out_mem, image>>
    BY <1>9 DEF GetResult
  <2>2. hw = "done"  BY <2>1 DEF Control
  <2>3. CASE pc' = "idle"  BY <2>1, <2>2, <2>3
  <2>4. CASE pc' = "done" /\ buf' = <<out_mem>>
    <3>1. in_addr => hw_err \/ out_mem = image  BY <2>1, <2>2
    <3>2. \A i \in DOMAIN buf' : buf'[i] = out_mem  BY <2>4
    <3>. QED BY <2>1, <2>2, <2>4, <3>1, <3>2
  <2>. QED BY <1>9, <2>3, <2>4 DEF GetResult
<1>10. CASE Stopped /\ UNCHANGED tvm_vars
  <2>1. UNCHANGED <<tvm, pc, in_addr, hw, hw_in, hw_err, out_mem, image, buf>>  BY <1>10 DEF Stopped
  <2>2. UNCHANGED <<input_type, pre_out, model_in>>  BY <1>10 DEF tvm_vars
  <2>. QED BY <2>1, <2>2
<1>11. CASE PreOpen \/ ReadAddrmapTxt \/ ParseParamInfo \/ LoadModel
  BY <1>1, <1>11 DEF PreOpen, ReadAddrmapTxt, ParseParamInfo, LoadModel, AfterOpenError
<1>12. CASE LoadHeldFile \/ LoadFileToMemDynamic \/ LoadInfo
  <2>1. pc' \in {"pre_files", "pre_info", "model", "ended"}
    BY <1>12 DEF LoadHeldFile, LoadFileToMemDynamic, LoadInfo, AfterFile, ReadFileDataFails
  <2>2. UNCHANGED <<tvm, hw, hw_in, hw_err, out_mem, image>>
    BY <1>12 DEF LoadHeldFile, LoadFileToMemDynamic, LoadInfo
  <2>. QED BY <1>1, <2>1, <2>2
<1>13. CASE PreUpdate
  <2>1. pc' \in {"idle", "start"} /\ UNCHANGED <<tvm, hw, hw_in, hw_err, out_mem, image>>
    BY <1>13 DEF PreUpdate
  <2>. QED BY <1>1, <2>1
<1>14. CASE PreResult
  <2>1. pc = "result" /\ UNCHANGED <<in_addr, hw, hw_in, hw_err, out_mem, image>>
    BY <1>14 DEF PreResult
  <2>2. hw = "done"  BY <2>1 DEF Control
  <2>3. pc' = "idle" \/ (pc' = "mera" /\ pre_out' = out_mem)  BY <1>14 DEF PreResult
  <2>. QED BY <2>1, <2>2, <2>3
<1>15. CASE RunModel
  <2>1. pc = "mera" /\ UNCHANGED <<in_addr, hw, hw_in, hw_err, out_mem, image, input_type>>
    BY <1>15 DEF RunModel
  <2>2. input_type \in Floats => model_in' = pre_out  BY <1>15 DEF RunModel
  <2>3. pc' \in {"copy", "idle", "ended"}  BY <1>15 DEF RunModel
  <2>. QED BY <2>1, <2>2, <2>3
<1>16. CASE CopyOutputs
  <2> DEFINE copied == CountOf(outputs, DataTypes \ {"OTHER"})
  <2>1. pc = "copy" /\ tvm /\ UNCHANGED <<tvm, in_addr, hw, hw_in, hw_err, out_mem, image>>
    BY <1>16 DEF CopyOutputs, Control
  <2>2. UNCHANGED <<input_type, model_in>>  BY <1>16 DEF CopyOutputs, tvm_vars
  <2>3. buf' = [i \in DOMAIN buf |-> IF i <= copied THEN model_in ELSE buf[i]]
        /\ pc' \in {"done", "idle"}
    BY <1>16 DEF CopyOutputs
  <2>4. Len(buf) <= copied  BY <2>1 DEF Room
  <2>5. \A i \in DOMAIN buf : i <= copied
    <3>1. DOMAIN buf = 1 .. Len(buf) /\ Len(buf) \in Nat  BY DEF Contents
    <3>2. copied \in Int  BY CountOfAny DEF Kinds
    <3> HIDE DEF copied
    <3>. QED BY <2>4, <3>1, <3>2
  <2> HIDE DEF copied
  <2>6. \A i \in DOMAIN buf' : buf'[i] = model_in  BY <2>3, <2>5
  <2>. QED BY <2>1, <2>2, <2>3, <2>6
<1>17. CASE UNCHANGED vars
  <2>1. UNCHANGED <<tvm, pc, in_addr, hw, hw_in, hw_err, out_mem, image, buf, input_type, pre_out, model_in>>
    BY <1>17 DEF vars, tvm_vars
  <2>. QED BY <2>1
<1>. QED BY <1>2, <1>3, <1>4, <1>5, <1>6, <1>7, <1>8, <1>9, <1>10, <1>11, <1>12, <1>13, <1>14,
         <1>15, <1>16, <1>17 DEF Next, BaseNext, RunNext, PreLoadNext, TvmRunNext

\* However many frames have timed out, and whenever the hardware answers: the
\* post-processor gets the result of the frame that it is told about
\* (base_drpai.cpp:159-194, tvm_drpai.cpp:107).
THEOREM ResultIsOwn == Spec => []OwnResult
<1>1. Results => OwnResult  BY DEF Results, OwnResult
<1>2. Init => Kinds /\ Contents /\ Room /\ Results
  <2> SUFFICES ASSUME Init PROVE Kinds /\ Contents /\ Room /\ Results
    OBVIOUS
  <2>1. Kinds  BY DEF Init, Kinds, DataTypes
  <2>2. Contents  BY RunBounds DEF Init, BaseInit, Contents, Frames
  <2>3. Room
    <3>1. buf = <<>> /\ CountOf(outputs, DataTypes \ {"OTHER"}) \in Nat
      BY <2>1, CountOfAny DEF Init, BaseInit, Kinds
    <3>. QED BY <3>1 DEF Room
  <2>4. Results  BY DEF Init, BaseInit, Results
  <2>. QED BY <2>1, <2>2, <2>3, <2>4
<1>. QED BY <1>1, <1>2, ControlInit, ControlStep, ContentsStep, KindsStep, RoomStep, ResultsStep,
         PTL DEF Spec

-----------------------------------------------------------------------------
(* The parameters of Pre                                                   *)

Loading == {"closed", "ended", "released"} \cup BeforeInfo

\* The memory of the device follows PreRuntime from the third file on, but for
\* operators of which unwritten says so.
Params ==
  /\ IsPre(pre)
  /\ DOMAIN mem = {"ops", "cof"}
  /\ tvm /\ ~lost /\ pc = "pre_files" /\ step >= 3 => mem.ops = pre.ops
  /\ tvm /\ ~lost /\ pc = "pre_info" => mem.ops = pre.ops /\ mem.cof = 0
  /\ tvm /\ ~lost /\ pc \notin Loading =>
       mem.cof = pre.cur.cof /\ (unwritten \/ mem.ops = pre.ops)

LEMMA ParamsInit == Init => Params
BY DEF Init, BaseInit, Params, IsPre, PreFields, ParamFields, NoRequest, Loading, BeforeInfo

LEMMA ParamsStep == Control /\ Loaded /\ Params /\ [Next]_vars => Params'
<1> SUFFICES ASSUME Control, Loaded, Params, [Next]_vars PROVE Params'
  OBVIOUS
<1> USE DEF base_settings, opening, device, base_vars, params, loading
<1>1. ASSUME UNCHANGED <<tvm, pre, mem, unwritten>>, lost => lost', pc \notin Loading,
             pc' \notin BeforeInfo
      PROVE  Params'
  BY <1>1 DEF Params, Loading, BeforeInfo
<1>2. ASSUME UNCHANGED <<tvm, pre, mem>>, ~tvm \/ pc' \in {"closed", "pre_open", "pre_addrmap", "pre_parse", "ended"}
      PROVE  Params'
  BY <1>2 DEF Params, Loading, BeforeInfo
<1>3. CASE (OpenDriver \/ OpenNext \/ Start \/ Timeout \/ WaitDone \/ GetResult) /\ UNCHANGED tvm_vars
  <2>1. UNCHANGED <<tvm, pre, mem>>
    BY <1>3 DEF OpenDriver, OpenNext, ReadAddrmap, ReadDataIn, LoadFile, LoadParamFile, Start, Timeout,
                WaitDone, GetResult, tvm_vars
  <2>2. CASE OpenDriver
    <3>1. pc = "closed"  BY <2>2 DEF OpenDriver
    <3>2. tvm => pc' \in {"closed", "pre_open", "ended"}
      BY <2>2, <3>1 DEF OpenDriver, AfterOpenError, Control
    <3>. QED BY <1>2, <2>1, <3>2
  <2>3. CASE OpenNext \/ Start \/ Timeout \/ WaitDone \/ GetResult
    <3>1. ~tvm
      BY <2>3 DEF OpenNext, ReadAddrmap, ReadDataIn, LoadFile, LoadParamFile, Start, Timeout,
                  WaitDone, GetResult, Control, BaseOpening
    <3>. QED BY <1>2, <2>1, <3>1
  <2>. QED BY <1>3, <2>2, <2>3
<1>4. CASE (HardwareEnds \/ Stopped) /\ UNCHANGED tvm_vars
  <2>1. UNCHANGED <<pc, tvm>>  BY <1>4 DEF HardwareEnds, Stopped
  <2>2. UNCHANGED <<pre, mem, unwritten, step>> /\ (lost' <=> lost)  BY <1>4 DEF tvm_vars
  <2>. QED BY <2>1, <2>2 DEF Params
<1>5. CASE (NextFrame \/ Return \/ Release) /\ UNCHANGED tvm_vars
  <2>1. tvm' = tvm /\ pc \in {"idle", "done"} /\ (tvm => pc' \in {"pre", "idle", "released"})
    BY <1>5 DEF NextFrame, Return, Release
  <2>2. UNCHANGED <<pre, mem, unwritten>> /\ (lost' <=> lost)  BY <1>5 DEF tvm_vars
  <2>3. CASE tvm  BY <1>1, <2>1, <2>2, <2>3 DEF Loading, BeforeInfo
  <2>4. CASE ~tvm  BY <1>2, <2>1, <2>2, <2>4
  <2>. QED BY <2>3, <2>4
<1>6. CASE PreOpen \/ ReadAddrmapTxt \/ ParseParamInfo
  <2>1. tvm' = tvm /\ mem' = mem  BY <1>6 DEF PreOpen, ReadAddrmapTxt, ParseParamInfo, tvm_vars
  <2>2. IsPre(pre')
    BY <1>6 DEF PreOpen, ReadAddrmapTxt, ParseParamInfo, tvm_vars, Params, IsPre, PreFields
  <2>3. /\ pc \in {"pre_open", "pre_addrmap", "pre_parse"}
        /\ pc' \in {"pre_addrmap", "pre_parse", "pre_files", "ended"}
    BY <1>6 DEF PreOpen, ReadAddrmapTxt, ParseParamInfo
  <2>4. tvm /\ step' = 0
    BY <1>6, <2>3 DEF Control, BeforeInfo, Loaded, PreOpen, ReadAddrmapTxt, ParseParamInfo, tvm_vars
  <2>. QED BY <2>1, <2>2, <2>3, <2>4 DEF Params, Loading, BeforeInfo
<1>7. CASE LoadFileToMemDynamic
  <2>1. pc = "pre_files" /\ step' = step + 1 /\ UNCHANGED <<tvm, pre, mem, unwritten>>
    BY <1>7 DEF LoadFileToMemDynamic
  <2>2. tvm /\ step \in 0 .. 4  BY <2>1 DEF Control, BeforeInfo, Loaded
  <2>3. step \in {0, 1, 3}
    <3>1. NextFile \notin HeldFiles  BY <1>7 DEF LoadFileToMemDynamic
    <3>. QED BY <2>2, <3>1 DEF NextFile, HeldFiles, PreFiles
  <2>4. pc' \in {"pre_files", "ended"}
    BY <1>7, <2>3 DEF LoadFileToMemDynamic, AfterFile, PreFiles
  <2>5. lost => lost'  BY <1>7 DEF LoadFileToMemDynamic, LoadDataToMem
  <2>. QED BY <2>1, <2>3, <2>4, <2>5 DEF Params, Loading, BeforeInfo
<1>8. CASE LoadHeldFile
  <2>1. pc = "pre_files" /\ step' = step + 1 /\ UNCHANGED <<tvm, pre, unwritten>>
    BY <1>8 DEF LoadHeldFile
  <2>2. tvm /\ step \in 0 .. 4  BY <2>1 DEF Control, BeforeInfo, Loaded
  <2>3. step \in {2, 4} /\ (step = 2 <=> NextFile = "drp_param")
    <3>1. NextFile \in HeldFiles  BY <1>8 DEF LoadHeldFile
    <3>. QED BY <2>2, <3>1 DEF NextFile, HeldFiles, PreFiles
  <2>4. CASE pc' = "ended" /\ mem' = mem  BY <2>1, <2>4 DEF Params, Loading, BeforeInfo
  <2>5. CASE /\ pc' = AfterFile
             /\ LoadDataToMem(NextFile)
             /\ mem' = IF NextFile \notin loaded' THEN mem
                       ELSE IF NextFile = "drp_param" THEN [mem EXCEPT !.ops = pre.ops]
                       ELSE [mem EXCEPT !.cof = 0]
    <3>1. pc' = IF step = 4 THEN "pre_info" ELSE "pre_files"
      BY <2>2, <2>5 DEF AfterFile, PreFiles
    <3>2. DOMAIN mem' = {"ops", "cof"}  BY <2>5 DEF Params
    <3>3. ~lost' => NextFile \in loaded' /\ ~lost  BY <2>5 DEF LoadDataToMem
    <3>4. CASE step = 2
      <4>1. ~lost' => mem'.ops = pre.ops  BY <2>3, <2>5, <3>3, <3>4 DEF Params
      <4>. QED BY <2>1, <3>1, <3>2, <3>4, <4>1 DEF Params, Loading, BeforeInfo
    <3>5. CASE step = 4
      <4>1. ~lost' => mem'.ops = pre.ops /\ mem'.cof = 0
        BY <2>1, <2>2, <2>3, <2>5, <3>3, <3>5 DEF Params
      <4>. QED BY <2>1, <3>1, <3>2, <3>5, <4>1 DEF Params, Loading, BeforeInfo
    <3>. QED BY <2>3, <3>4, <3>5
  <2>. QED BY <1>8, <2>4, <2>5 DEF LoadHeldFile, ReadFileDataFails
<1>9. CASE LoadInfo
  <2>1. pc = "pre_info" /\ UNCHANGED <<tvm, mem, unwritten>>  BY <1>9 DEF LoadInfo
  <2>2. lost' <=> lost  BY <1>9 DEF LoadInfo
  <2>3. CASE pc' = "ended" /\ pre' = pre  BY <2>1, <2>3 DEF Params, Loading, BeforeInfo
  <2>4. CASE pc' = "model" /\ pre' = LoadParamInfo(pre, 0)
    <3>1. DOMAIN pre' = PreFields /\ pre'.ops = pre.ops /\ pre'.cur = ReadParams(pre.ops, 0)
      BY <2>4 DEF LoadParamInfo, Params, IsPre, PreFields
    <3>2. pre'.cur.cof = 0 /\ IsPre(pre')  BY <3>1 DEF ReadParams, IsPre, ParamFields
    <3>. QED BY <2>1, <2>2, <2>4, <3>1, <3>2 DEF Params, Loading, BeforeInfo
  <2>. QED BY <1>9, <2>3, <2>4 DEF LoadInfo
<1>10. CASE LoadModel
  <2>1. pc = "model" /\ pc' \in {"idle", "closed", "ended"} /\ UNCHANGED <<tvm, pre, mem, unwritten>>
    BY <1>10 DEF LoadModel, AfterOpenError
  <2>2. lost' <=> lost  BY <1>10 DEF LoadModel
  <2>. QED BY <1>1, <2>1, <2>2 DEF Loading, BeforeInfo
<1>11. CASE PreUpdate
  <2> DEFINE Done(u, w) ==
        IF u.refused
          THEN /\ pc' = "idle"
               /\ pre' = u.pre
               /\ unwritten' = (unwritten \/ u.updated)
               /\ UNCHANGED <<mem, lost>>
          ELSE /\ pc' = "start"
               /\ pre' = w
               /\ \E ops \in Written(u.updated, w.ops, mem.ops),
                     cof \in Written(w.cur.cof # pre.cur.cof, w.cur.cof, mem.cof) :
                    /\ mem' = [ops |-> ops, cof |-> cof]
                    /\ lost' = \/ lost
                               \/ u.updated /\ ops # w.ops
                               \/ w.cur.cof # pre.cur.cof /\ cof # w.cur.cof
               /\ unwritten' = (unwritten /\ ~u.updated)
  <2>1. PICK p \in Requests : \E u \in UpdateParamData(pre, p) :
          \E x \in {UpdateWeightData(u.pre, p)} : Done(u, x)
    BY <1>11, Zenon DEF PreUpdate
  <2>7. PICK u \in UpdateParamData(pre, p) : \E x \in {UpdateWeightData(u.pre, p)} : Done(u, x)
    BY <2>1, Zenon
  <2> DEFINE w == UpdateWeightData(u.pre, p)
  <2>2. Done(u, w)
    <3> HIDE DEF Done
    <3>. QED BY <2>7, Zenon
  <2> HIDE DEF w
  <2>3. pc = "pre" /\ tvm' = tvm  BY <1>11 DEF PreUpdate
  <2>4. Tells(u, pre)  BY NoUpdate DEF Params
  <2>8. tvm  BY <2>3 DEF Control
  <2>5. CASE u.refused
    <3>1. pc' = "idle" /\ pre' = u.pre /\ mem' = mem  BY <2>2, <2>5
    <3>2. (unwritten' <=> unwritten \/ u.updated) /\ (lost' <=> lost)  BY <2>2, <2>5
    <3>3. u.updated \/ u.pre.ops = pre.ops  BY <2>4 DEF Tells
    <3>. QED BY <2>3, <2>4, <3>1, <3>2, <3>3 DEF Params, Tells, IsState, Loading, BeforeInfo
  <2>6. CASE ~u.refused
    <3>1. PICK ops \in Written(u.updated, w.ops, mem.ops),
               cof \in Written(w.cur.cof # pre.cur.cof, w.cur.cof, mem.cof) :
                 /\ mem' = [ops |-> ops, cof |-> cof]
                 /\ lost' = \/ lost
                            \/ u.updated /\ ops # w.ops
                            \/ w.cur.cof # pre.cur.cof /\ cof # w.cur.cof
      BY <2>2, <2>6
    <3>2. pc' = "start" /\ pre' = w /\ (unwritten' <=> unwritten /\ ~u.updated)  BY <2>2, <2>6
    <3>3. IsPre(w) /\ w.ops = u.pre.ops
      BY <2>4 DEF w, UpdateWeightData, UpdateCoefficient, Tells, IsState, IsPre, PreFields, ParamFields
    <3>4. ASSUME ~lost' PROVE cof = w.cur.cof /\ (unwritten' \/ ops = w.ops)
      <4>1. ~lost  BY <3>1, <3>4
      <4>2. mem.cof = pre.cur.cof /\ (unwritten \/ mem.ops = pre.ops)
        BY <2>3, <2>8, <4>1 DEF Params, Loading, BeforeInfo
      <4>3. unwritten' \/ ops = w.ops
        <5>1. CASE u.updated  BY <3>1, <3>4, <5>1
        <5>2. CASE ~u.updated
          <6>1. ops = mem.ops  BY <5>2, <3>1 DEF Written
          <6>2. w.ops = pre.ops  BY <2>4, <3>3, <5>2 DEF Tells
          <6>. QED BY <3>2, <4>2, <5>2, <6>1, <6>2
        <5>. QED BY <5>1, <5>2
      <4>4. cof = w.cur.cof
        <5>1. CASE w.cur.cof # pre.cur.cof  BY <3>1, <3>4, <5>1
        <5>2. CASE w.cur.cof = pre.cur.cof
          <6>1. cof = mem.cof  BY <3>1, <5>2 DEF Written
          <6>. QED BY <4>2, <5>2, <6>1
        <5>. QED BY <5>1, <5>2
      <4>. QED BY <4>3, <4>4
    <3>. QED BY <2>3, <3>1, <3>2, <3>3, <3>4 DEF Params, Loading, BeforeInfo
  <2>. QED BY <2>5, <2>6
<1>12. CASE PreStart \/ PreTimeout \/ PreDone \/ PreResult \/ RunModel \/ CopyOutputs
  <2>1. /\ pc \in {"start", "wait", "result", "mera", "copy"}
        /\ pc' \in {"idle", "wait", "result", "mera", "copy", "done", "ended"}
        /\ pc' = "wait" => pc = "start"
        /\ tvm' = tvm
    BY <1>12 DEF PreStart, PreTimeout, PreDone, PreResult, RunModel, CopyOutputs, tvm_vars
  <2>2. UNCHANGED <<pre, mem, unwritten>>
    BY <1>12 DEF PreStart, PreTimeout, PreDone, PreResult, RunModel, CopyOutputs, tvm_vars
  <2>3. lost' = lost
    BY <1>12, Zenon DEF PreStart, PreTimeout, PreDone, PreResult, RunModel, CopyOutputs, tvm_vars
  <2>. QED BY <1>1, <2>1, <2>2, <2>3 DEF Loading, BeforeInfo
<1>13. CASE UNCHANGED vars
  <2>1. UNCHANGED <<pc, tvm>>  BY <1>13 DEF vars
  <2>2. UNCHANGED <<pre, mem, unwritten, step>> /\ (lost' <=> lost)  BY <1>13 DEF vars, tvm_vars
  <2>. QED BY <2>1, <2>2 DEF Params
<1>. QED BY <1>3, <1>4, <1>5, <1>6, <1>7, <1>8, <1>9, <1>10, <1>11, <1>12, <1>13
         DEF Next, BaseNext, RunNext, PreLoadNext, TvmRunNext

\* For any model and any requests in any order, of which any may be refused
\* half way: the device works with the coefficients that PreRuntime reports,
\* and with its parameters once a request that is accepted has changed any
\* (PreRuntime.cpp:2307-2330, 2338-2367).  With the reservations of
\* ParamsReachDevice: what a refused request has changed is not in the device
\* until then, and nothing is said after an error of the driver that
\* PreRuntime has not seen.
THEOREM DeviceFollows == Spec => []ParamsReachDevice
<1>1. Params => ParamsReachDevice  BY DEF Params, ParamsReachDevice, Loading, BeforeInfo
<1>. QED BY <1>1, ControlInit, ControlStep, LoadedInit, LoadedStep, ParamsInit, ParamsStep, PTL DEF Spec

-----------------------------------------------------------------------------
(* The operators of the model                                              *)

\* PreRuntime holds the operators of the model from ParseParamInfo on, and its
\* parameters go with them from LoadInfo on.
ParamInfo ==
  /\ model \in Models
  /\ pre.ops = <<>> \/ pre.ops = model \/ Fits(model, pre)
  /\ tvm /\ pc \in {"pre_files", "pre_info"} => pre.ops = model
  /\ tvm /\ pc \notin Loading => Fits(model, pre)

LEMMA ParamInfoInit == Init => ParamInfo
BY DEF Init, BaseInit, ParamInfo, Loading, BeforeInfo

LEMMA ParamInfoStep == Control /\ Params /\ ParamInfo /\ [Next]_vars => ParamInfo'
<1> SUFFICES ASSUME Control, Params, ParamInfo, [Next]_vars PROVE ParamInfo'
  OBVIOUS
<1>1. UNCHANGED <<model, tvm>>
  BY Zenon DEF Next, BaseNext, OpenNext, PreLoadNext, TvmRunNext, RunNext, OpenDriver, ReadAddrmap,
       ReadDataIn, LoadFile, LoadParamFile, HardwareEnds, NextFrame, Start, Timeout, WaitDone,
       GetResult, Return, Release, Stopped, PreOpen, ReadAddrmapTxt, ParseParamInfo, LoadHeldFile,
       LoadFileToMemDynamic, LoadInfo, LoadModel, PreUpdate, PreStart, PreTimeout, PreDone,
       PreResult, RunModel, CopyOutputs, vars, base_vars, base_settings, tvm_vars, tvm_model
<1>2. ASSUME pre' = pre, pc' \in {"pre_files", "pre_info"} => pc \in {"pre_files", "pre_info"},
             pc' \notin Loading => pc \notin Loading
      PROVE  ParamInfo'
  BY <1>1, <1>2 DEF ParamInfo
<1>3. ASSUME pre' = pre, ~tvm
      PROVE  ParamInfo'
  BY <1>1, <1>3 DEF ParamInfo
<1>4. CASE OpenDriver /\ UNCHANGED tvm_vars
  <2>1. pre' = pre  BY <1>4 DEF tvm_vars, params
  <2>2. pc = "closed" /\ (tvm => pc' \in {"closed", "pre_open", "ended"})
    BY <1>4 DEF OpenDriver, AfterOpenError, Control
  <2>. QED BY <1>2, <1>3, <2>1, <2>2 DEF Loading, BeforeInfo
<1>5. CASE (OpenNext \/ RunNext) /\ UNCHANGED tvm_vars
  <2>1. pre' = pre  BY <1>5 DEF tvm_vars, params
  <2>2. CASE OpenNext \/ Start \/ Timeout \/ WaitDone \/ GetResult
    <3>1. ~tvm
      BY <2>2 DEF OpenNext, ReadAddrmap, ReadDataIn, LoadFile, LoadParamFile, Start, Timeout,
                  WaitDone, GetResult, Control, BaseOpening
    <3>. QED BY <1>3, <2>1, <3>1
  <2>3. CASE Return  BY <1>2, <2>1, <2>3 DEF Return, Loading, BeforeInfo
  <2>. QED BY <1>5, <2>2, <2>3 DEF RunNext
<1>6. CASE (HardwareEnds \/ Stopped \/ NextFrame \/ Release) /\ UNCHANGED tvm_vars
  <2>1. pre' = pre  BY <1>6 DEF tvm_vars, params
  <2>2. pc' = pc \/ (pc = "idle" /\ pc' \in {"pre", "start", "released"})
    BY <1>6 DEF HardwareEnds, Stopped, NextFrame, Release, base_vars
  <2>. QED BY <1>2, <2>1, <2>2 DEF Loading, BeforeInfo
<1>7. CASE PreOpen \/ ReadAddrmapTxt
  BY <1>2, <1>7 DEF PreOpen, ReadAddrmapTxt, Loading, BeforeInfo, tvm_vars, params
<1>8. CASE ParseParamInfo
  <2>1. CASE pc' = "pre_files" /\ pre' = [pre EXCEPT !.ops = model, !.copies = @ + 1]
    <3>1. pre'.ops = model  BY <2>1 DEF Params, IsPre, PreFields
    <3>. QED BY <1>1, <2>1, <3>1 DEF ParamInfo, Loading, BeforeInfo
  <2>2. CASE pc' = "ended" /\ pre' = pre  BY <1>2, <2>2 DEF Loading, BeforeInfo
  <2>. QED BY <1>8, <2>1, <2>2 DEF ParseParamInfo
<1>9. CASE LoadHeldFile \/ LoadFileToMemDynamic
  <2>1. pc = "pre_files" /\ pc' \in {"pre_files", "pre_info", "ended"} /\ pre' = pre
    BY <1>9 DEF LoadHeldFile, LoadFileToMemDynamic, AfterFile, ReadFileDataFails, params
  <2>. QED BY <1>2, <2>1 DEF Loading, BeforeInfo
<1>10. CASE LoadInfo
  <2>1. CASE pc' = "model" /\ pre' = LoadParamInfo(pre, 0)
    <3>1. pre.ops = model  BY <1>10 DEF LoadInfo, ParamInfo, Control, BeforeInfo
    <3>2. Fits(model, pre')
      BY <2>1, <3>1, LoadFits, ModelsAssumption DEF ParamInfo, Params, IsPre
    <3>. QED BY <1>1, <2>1, <3>2 DEF ParamInfo, Loading, BeforeInfo
  <2>2. CASE pc' = "ended" /\ pre' = pre  BY <1>2, <2>2 DEF Loading, BeforeInfo
  <2>. QED BY <1>10, <2>1, <2>2 DEF LoadInfo
<1>11. CASE LoadModel
  BY <1>2, <1>11 DEF LoadModel, AfterOpenError, Loading, BeforeInfo, params
<1>12. CASE PreUpdate
  <2>1. pc = "pre" /\ pc' \in {"idle", "start"}  BY <1>12 DEF PreUpdate
  <2>2. PICK p \in Requests : \E u \in UpdateParamData(pre, p) :
          pre' = u.pre \/ pre' = UpdateWeightData(u.pre, p)
    BY <1>12, Zenon DEF PreUpdate
  <2>3. PICK u \in UpdateParamData(pre, p) : pre' = u.pre \/ pre' = UpdateWeightData(u.pre, p)
    BY <2>2, Zenon
  <2>4. tvm  BY <2>1 DEF Control
  <2>5. Fits(model, pre)  BY <2>1, <2>4 DEF ParamInfo, Loading, BeforeInfo
  <2>6. Fits(model, u.pre)  BY <2>5, UpdateFits, ModelsAssumption DEF ParamInfo
  <2>7. Fits(model, pre')  BY <2>3, <2>6, WeightFits
  <2>. QED BY <1>1, <2>1, <2>7 DEF ParamInfo, Loading, BeforeInfo
<1>13. CASE PreStart \/ PreTimeout \/ PreDone \/ PreResult \/ RunModel \/ CopyOutputs
  <2>1. /\ pc \in {"start", "wait", "result", "mera", "copy"}
        /\ pc' \in {"idle", "wait", "result", "mera", "copy", "done", "ended"}
    BY <1>13 DEF PreStart, PreTimeout, PreDone, PreResult, RunModel, CopyOutputs
  <2>2. pre' = pre
    BY <1>13 DEF PreStart, PreTimeout, PreDone, PreResult, RunModel, CopyOutputs, tvm_vars, params
  <2>. QED BY <1>2, <2>1, <2>2 DEF Loading, BeforeInfo
<1>14. CASE UNCHANGED vars
  <2>1. UNCHANGED <<pc, pre>>  BY <1>14 DEF vars, base_vars, tvm_vars, params
  <2>. QED BY <1>2, <2>1
<1>. QED BY <1>4, <1>5, <1>6, <1>7, <1>8, <1>9, <1>10, <1>11, <1>12, <1>13, <1>14
         DEF Next, BaseNext, PreLoadNext, TvmRunNext

\* For any model of the translator without a crop, and any requests, refused
\* ones too: the shapes that the operators read and write stay a chain
\* (UpdateInputShape and UpdateResizeShape, PreRuntime.cpp:1181-1290), when
\* PreRuntime has loaded once, or as often as it likes a model that does not
\* resize.  After a second Load a resize breaks the chain.
THEOREM ShapesStayAChain == Spec => []ChainFits
<1>1. ParamInfo => ChainFits
  <2> SUFFICES ASSUME ParamInfo, ~Has(pre.ops, "crop"),
                      pre.copies <= 1 \/ ~Has(pre.ops, "resize_hwc"),
                      NEW i \in DOMAIN pre.ops, i + 1 \in DOMAIN pre.ops
               PROVE  pre.ops[i].out = pre.ops[i + 1].in
    BY DEF ChainFits
  <2>1. Translated(model)  BY ModelsAssumption DEF ParamInfo
  <2>2. CASE pre.ops = <<>>  BY <2>2
  <2>3. CASE pre.ops = model  BY <2>1, <2>3 DEF Translated
  <2>4. CASE Fits(model, pre)  BY <2>1, <2>4, FitsChain
  <2>. QED BY <2>2, <2>3, <2>4 DEF ParamInfo
<1>. QED BY <1>1, ControlInit, ControlStep, LoadedInit, LoadedStep, ParamsInit, ParamsStep,
         ParamInfoInit, ParamInfoStep, PTL DEF Spec

\* For the same models and requests: the formats that PreRuntime reports are
\* those that its operators read and produce (UpdateFormat, PreRuntime.cpp:1432).
THEOREM FormatsAsReported == Spec => []FormatAsReported
<1>1. ParamInfo => FormatAsReported
  <2> SUFFICES ASSUME ParamInfo, tvm, pc = "wait", Convertible(model)
               PROVE  /\ Produced(pre.ops, pre.cur.in_format) = pre.cur.out_format
                      /\ pre.ops[1].lib \in Conversions => pre.ops[1].din = pre.cur.in_format
    BY DEF FormatAsReported
  <2>1. Translated(model)  BY ModelsAssumption DEF ParamInfo
  <2>2. Fits(model, pre)  BY DEF ParamInfo, Loading, BeforeInfo
  <2>. QED BY <2>1, <2>2, FitsFormats
<1>. QED BY <1>1, ControlInit, ControlStep, LoadedInit, LoadedStep, ParamsInit, ParamsStep,
         ParamInfoInit, ParamInfoStep, PTL DEF Spec
=============================================================================
