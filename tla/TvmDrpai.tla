------------------------------ MODULE TvmDrpai ------------------------------
(***************************************************************************)
(* TVM_DRPAI and PreRuntime: a model whose input is prepared on the DRP-AI *)
(* by PreRuntime and whose inference runs in the MERA run time, a library. *)
(* The state of PreRuntime is the record of PreParams.tla; mem is what its *)
(* parameters and coefficients are in the memory of the device.            *)
(*                                                                         *)
(* PreRuntime keeps the result of ioctl and write in a uint8_t and         *)
(* compares it with -1, so that these errors of the driver are never seen: *)
(* lost says that one happened.  Load returns its other errors, which      *)
(* open_resource answers with a throw that has nothing to rethrow, and     *)
(* that ends the program whatever stop_error says.                         *)
(*                                                                         *)
(* TVM_DRPAI asks Pre for nothing but the input address.  The requests     *)
(* here are those of any user of PreRuntime's public interface.            *)
(***************************************************************************)
EXTENDS BaseDrpai, PreParams

CONSTANTS
  Models,      \* preprocessing models, each a sequence of operators
  Requests,    \* what a caller may ask Pre for
  InputTypes,  \* data types of the input of inference models
  OutputLists  \* the outputs of inference models, by their data types

ASSUME ModelsAssumption == \A m \in Models : Translated(m)
ASSUME NoRequestAssumption == NoRequest \in Requests

Floats == {"FLOAT32", "FLOAT16"}
DataTypes == Floats \union {"INT64", "OTHER"}

ASSUME TypesAssumption ==
  InputTypes \subseteq DataTypes /\ OutputLists \subseteq Seq(DataTypes) \ {<<>>}

VARIABLES
  model,       \* what drp_param.bin and drp_param_info.txt say
  input_type,  \* input_data_type, read from the inference model
  outputs,     \* its outputs, of one element each; none before it is loaded
  step,        \* files that Load has come past
  pre_fds,     \* descriptors of /dev/drpai0 that PreRuntime holds
  lost,        \* an error of the driver has not been seen
  pre,         \* operators and current parameters, as PreRuntime has them
  mem,         \* operators and coefficients in the memory of the device
  unwritten,   \* a refused request has changed the operators of PreRuntime,
               \* and none that was accepted has written them since
  pre_out,     \* internal_buffer, the result of Pre
  model_in     \* the input of the inference model

tvm_model == <<model, input_type, outputs>>
loading == <<step, pre_fds, lost>>
params == <<pre, mem, unwritten>>
tvm_vars == <<tvm_model, loading, params, pre_out, model_in>>
vars == <<base_vars, tvm_vars>>

\* INDEX_D to INDEX_W.
PreFiles == <<"drp_desc", "drpcfg", "drp_param", "aimac_desc", "weight">>

\* The files whose contents PreRuntime also keeps.
HeldFiles == {"drp_param", "weight"}

TypeOK ==
  /\ tvm \in BOOLEAN /\ stop_error \in BOOLEAN
  /\ pc \in {"closed", "addrmap", "data_in", "files", "param", "pre_open",
             "pre_addrmap", "pre_parse", "pre_files", "pre_info", "model",
             "idle", "pre", "start", "wait", "result", "mera",
             "copy", "done", "released", "ended"}
  /\ drpai_fd \in {"unset", "bad", "open", "closed"}
  /\ open_fds \in 0 .. opens
  /\ opens \in 0 .. MaxOpens
  /\ loaded \subseteq Files
  /\ sized \in BOOLEAN /\ in_addr \in BOOLEAN
  /\ hw \in {"idle", "running", "done"}
  /\ hw_in \in Frames /\ hw_err \in BOOLEAN /\ out_mem \in Frames
  /\ image \in 0 .. MaxRuns
  /\ buf \in Seq(Frames)
  /\ model \in Models
  /\ input_type \in DataTypes
  /\ outputs \in OutputLists \union {<<>>}
  /\ step \in 0 .. Len(PreFiles)
  /\ pre_fds \in 0 .. opens
  /\ lost \in BOOLEAN /\ unwritten \in BOOLEAN
  /\ pre_out \in Frames /\ model_in \in Frames

Init ==
  /\ BaseInit
  /\ model \in Models
  /\ ~tvm => model = CHOOSE m \in Models : TRUE   \* a model of its own kind
  /\ input_type = "OTHER"
  /\ outputs = <<>>
  /\ step = 0
  /\ pre_fds = 0
  /\ lost = FALSE
  /\ pre = [ops |-> <<>>, copies |-> 0, cur |-> NoRequest, out_shape |-> 0]
  /\ mem = [ops |-> <<>>, cof |-> INVALID]
  /\ unwritten = FALSE
  /\ pre_out = 0
  /\ model_in = 0

-----------------------------------------------------------------------------
(* open_resource and PreRuntime::Load                                      *)

\* Load looks for the directory, opens the driver and asks where its memory
\* is; without an answer it goes on with the address that it has, which at
\* the first attempt means nothing.
PreOpen ==
  /\ pc = "pre_open"
  /\ step' = 0
  /\ \/ pc' = "pre_addrmap" /\ pre_fds' = pre_fds + 1 /\ lost' \in {lost, TRUE}
     \/ pc' = "ended" /\ UNCHANGED <<pre_fds, lost>>
  /\ UNCHANGED <<base_settings, opening, device, image, buf,
                 tvm_model, params, pre_out, model_in>>

\* The file is missing, or its addresses are not relative.
ReadAddrmapTxt ==
  /\ pc = "pre_addrmap"
  /\ pc' \in {"pre_parse", "ended"}
  /\ UNCHANGED <<base_settings, opening, device, image, buf, tvm_vars>>

\* The operators, which are also written to the driver.  It refuses an
\* address outside its memory, and these errors are seen.  The operators of
\* an earlier attempt stay in param_info.
ParseParamInfo ==
  /\ pc = "pre_parse"
  /\ \/ /\ lost => pre.copies > 0
        /\ pc' = "pre_files"
        /\ pre' = [pre EXCEPT !.ops = model, !.copies = @ + 1]
     \/ pc' = "ended" /\ UNCHANGED pre
  /\ UNCHANGED <<base_settings, opening, device, image, buf,
                 tvm_model, loading, mem, unwritten, pre_out, model_in>>

\* DRPAI_ASSIGN and write: the file gets to the device, or is lost unseen.
\* (bound: one such error)
LoadDataToMem(f) ==
  \/ loaded' = loaded \union {f} /\ UNCHANGED lost
  \/ ~lost /\ lost' = TRUE /\ UNCHANGED loaded

NextFile == PreFiles[step + 1]
AfterFile == IF step + 1 = Len(PreFiles) THEN "pre_info" ELSE "pre_files"

\* ReadFileData: the file is missing, or has another size than it should.
ReadFileDataFails == pc' = "ended" /\ UNCHANGED <<loaded, lost, mem>>

\* drp_param.bin and the weights are read into PreRuntime and written from
\* there.
LoadHeldFile ==
  /\ pc = "pre_files"
  /\ NextFile \in HeldFiles
  /\ step' = step + 1
  /\ \/ /\ pc' = AfterFile
        /\ LoadDataToMem(NextFile)
        /\ mem' = IF NextFile \notin loaded' THEN mem
                    ELSE IF NextFile = "drp_param" THEN [mem EXCEPT !.ops = pre.ops]
                    ELSE [mem EXCEPT !.cof = 0]
     \/ ReadFileDataFails
  /\ UNCHANGED <<base_settings, drpai_fd, open_fds, opens, sized, in_addr, device, image, buf,
                 tvm_model, pre_fds, pre, unwritten, pre_out, model_in>>

\* The other files; of their errors only a missing file is seen.
LoadFileToMemDynamic ==
  /\ pc = "pre_files"
  /\ NextFile \notin HeldFiles
  /\ step' = step + 1
  /\ \/ pc' = AfterFile /\ LoadDataToMem(NextFile)
     \/ pc' = "ended" /\ UNCHANGED <<loaded, lost>>
  /\ UNCHANGED <<base_settings, drpai_fd, open_fds, opens, sized, in_addr, device, image, buf,
                 tvm_model, pre_fds, params, pre_out, model_in>>

\* LoadParamInfo, after which open_resource knows the size of the input.
LoadInfo ==
  /\ pc = "pre_info"
  /\ \/ /\ pc' = "model"
        /\ pre' = LoadParamInfo(pre, 0)
        /\ sized' = TRUE
        /\ in_addr' = TRUE
     \/ pc' = "ended" /\ UNCHANGED <<pre, sized, in_addr>>
  /\ UNCHANGED <<base_settings, drpai_fd, open_fds, opens, loaded, device, image, buf,
                 tvm_model, loading, mem, unwritten, pre_out, model_in>>

\* How many of these outputs are of a type in types.
CountOf(list, types) == Cardinality({i \in DOMAIN list : list[i] \in types})

\* get_drpai_start_addr and LoadModel may throw, after which the state change
\* may be tried again with the same PreRuntime.  An output of a type that is
\* not supported gets a warning, and no room in drpai_output_buf.
LoadModel ==
  /\ pc = "model"
  /\ \/ /\ pc' = "idle"
        /\ input_type' \in InputTypes
        /\ outputs' \in OutputLists
        /\ buf' = [i \in 1 .. CountOf(outputs', Floats) |-> 0]
     \/ /\ pc' \in {AfterOpenError, "ended"}
        /\ UNCHANGED <<input_type, outputs, buf>>
  /\ UNCHANGED <<base_settings, opening, device, image,
                 model, loading, params, pre_out, model_in>>

-----------------------------------------------------------------------------
(* run_inference and PreRuntime::Pre                                       *)

\* What is written to the device gets there, or is lost unseen.
\* (bound: one such error)
Written(changed, new, old) ==
  IF ~changed THEN {old} ELSE IF lost THEN {new} ELSE {new, old}

\* Mutant of PreUpdate: drp_param.bin is written before it is changed.
PreWriteFirst ==
  /\ pc = "pre"
  /\ \E p \in Requests : \E u \in UpdateParamData(pre, p) :
       \E w \in {UpdateWeightData(u.pre, p)} :
          IF u.refused
            THEN /\ pc' = "idle"
                 /\ pre' = u.pre
                 /\ unwritten' = (unwritten \/ u.updated)
                 /\ UNCHANGED <<mem, lost>>
            ELSE /\ pc' = "start"
                 /\ pre' = w
                 /\ mem' = [ops |-> pre.ops, cof |-> w.cur.cof]
                 /\ unwritten' = (unwritten /\ ~u.updated)
                 /\ UNCHANGED lost
  /\ UNCHANGED <<base_settings, opening, device, image, buf,
                 tvm_model, step, pre_fds, pre_out, model_in>>

\* When a request changes a parameter all of them are written to the device,
\* and so are the coefficients.  A refused request leaves what it has changed
\* in PreRuntime, and the device as it was.
PreUpdate ==
  /\ pc = "pre"
  /\ \E p \in Requests : \E u \in UpdateParamData(pre, p) :
       \E w \in {UpdateWeightData(u.pre, p)} :
          IF u.refused
            THEN /\ pc' = "idle"
                 /\ pre' = u.pre
                 /\ unwritten' = (unwritten \/ u.updated)
                 /\ UNCHANGED <<mem, lost>>
            ELSE /\ pc' = "start"
                 /\ pre' = w
                 /\ \E ops \in Written(u.updated, w.ops, mem.ops),
                       cof \in Written(w.cur.cof # pre.cur.cof, w.cur.cof, mem.cof) :
                      /\ mem' = [ops |-> ops, cof |-> cof]
                      /\ lost' = \/ lost
                                 \/ u.updated /\ ops # w.ops
                                 \/ w.cur.cof # pre.cur.cof /\ cof # w.cur.cof
                 /\ unwritten' = (unwritten /\ ~u.updated)
  /\ UNCHANGED <<base_settings, opening, device, image, buf,
                 tvm_model, step, pre_fds, pre_out, model_in>>

PreStart ==
  /\ pc = "start"
  /\ tvm
  /\ \/ DriverStarts(IF in_addr THEN image ELSE Other) /\ pc' = "wait"
     \/ pc' = "idle" /\ UNCHANGED device
  /\ UNCHANGED <<base_settings, opening, image, buf, tvm_vars>>

\* pselect gives up after five seconds, or with an error.
PreTimeout ==
  /\ pc = "wait"
  /\ tvm
  /\ pc' = "idle"
  /\ UNCHANGED <<base_settings, opening, device, image, buf, tvm_vars>>

\* DRPAI_GET_STATUS; what it says of errors of the hardware is not read.
PreDone ==
  /\ pc = "wait"
  /\ tvm
  /\ hw = "done"
  /\ pc' \in {"result", "idle"}
  /\ UNCHANGED <<base_settings, opening, device, image, buf, tvm_vars>>

\* PreRuntime::GetResult replaces internal_buffer, and sees its errors.
PreResult ==
  /\ pc = "result"
  /\ tvm
  /\ \/ pre_out' = out_mem /\ pc' = "mera"
     \/ pc' = "idle" /\ UNCHANGED pre_out
  /\ UNCHANGED <<base_settings, opening, device, image, buf,
                 tvm_model, loading, params, model_in>>

\* SetInput, for a model whose input is of floats, and Run.  The library may
\* throw, and anything may happen when there is no model.
RunModel ==
  /\ pc = "mera"
  /\ model_in' = IF input_type \in Floats THEN pre_out ELSE model_in
  /\ \/ outputs # <<>> /\ pc' \in {"copy", "idle"}
     \/ outputs = <<>> /\ pc' \in {"idle", "ended"}
  /\ UNCHANGED <<base_settings, opening, device, image, buf,
                 tvm_model, loading, params, pre_out>>

\* All outputs but the unknown ones are copied one after the other; the first
\* element that finds no room in drpai_output_buf throws.
CopyOutputs ==
  /\ pc = "copy"
  /\ LET copied == CountOf(outputs, DataTypes \ {"OTHER"})
     IN /\ buf' = [i \in DOMAIN buf |-> IF i <= copied THEN model_in ELSE buf[i]]
        /\ pc' = IF copied <= Len(buf) THEN "done" ELSE "idle"
  /\ UNCHANGED <<base_settings, opening, device, image, tvm_vars>>

-----------------------------------------------------------------------------

PreLoadNext ==
  PreOpen \/ ReadAddrmapTxt \/ ParseParamInfo \/ LoadHeldFile \/ LoadFileToMemDynamic
    \/ LoadInfo \/ LoadModel

TvmRunNext ==
  PreUpdate \/ PreStart \/ PreTimeout \/ PreDone \/ PreResult \/ RunModel \/ CopyOutputs

Next == (BaseNext /\ UNCHANGED tvm_vars) \/ PreLoadNext \/ TvmRunNext

Spec == Init /\ [][Next]_vars

\* The inference thread keeps running, and select and pselect time out.  The
\* hardware need not ever end.
FairSpec == Spec /\ WF_vars((RunNext /\ UNCHANGED tvm_vars) \/ TvmRunNext)

-----------------------------------------------------------------------------
(* Properties                                                              *)

RunStates == {"pre", "start", "wait", "result", "mera", "copy", "done"}

\* The post-processor gets the result of the frame it is told about: never
\* that of a run that had timed out, and never one of which only a part was
\* copied.  A model whose opening failed, an input of a type that is not
\* supported, and an error of the hardware, which is not read, are what
\* run_inference does not notice.
OwnResult ==
  pc = "done" /\ in_addr /\ (tvm => input_type \in Floats) =>
    hw_err \/ \A i \in DOMAIN buf : buf[i] = image

\* The hardware never runs on part of a model: the element is not opened, or
\* an error of the driver was not seen, or the application asked to go on
\* after errors.
WholeModelRuns ==
  hw = "running" /\ ~lost /\ (stop_error \/ tvm) => loaded = Files

\* An element that was opened at the first attempt has closed the device
\* when it is released.  (A second attempt overwrites the descriptor of the
\* first, and PreRuntime is never destroyed.)
ClosedAfterRelease == pc = "released" /\ opens = 1 => open_fds = 0

\* While the hardware runs for Pre its memory holds the coefficients that
\* PreRuntime reports, and its parameters: those too that requests refused
\* half way have left behind, as soon as a later request changes anything.
\* Until then, and after an error of the driver that was not seen, the two
\* may differ.
ParamsReachDevice ==
  tvm /\ pc = "wait" /\ ~lost =>
    mem.cof = pre.cur.cof /\ (unwritten \/ mem.ops = pre.ops)

\* Whatever was asked for, and refused half way: each operator reads the
\* shape that the one before it writes.  Not so with a crop: a new shape of
\* the input becomes the shape of the output of the crop.  Nor with a resize
\* after a second attempt to open the element, which has the operators twice:
\* a new shape of the output also becomes that of the operators before the
\* resize, which come after it in their second copy.
ChainFits ==
  ~Has(pre.ops, "crop") /\ (pre.copies <= 1 \/ ~Has(pre.ops, "resize_hwc")) =>
    \A i \in DOMAIN pre.ops : i + 1 \in DOMAIN pre.ops => pre.ops[i].out = pre.ops[i + 1].in

\* The colours that PreRuntime reports are those that its operators produce,
\* and a conversion reads the format that is reported for the input.
\* Not so a model that converts from YUV and came with an imagescaler that
\* swaps: a change of the input format alone resets the swap.  Nor a model of
\* colours with neither a conversion nor an imagescaler: UpdateFormat finds no
\* operator that it could change, and the formats are reported as asked for.
FormatAsReported ==
  tvm /\ pc = "wait" /\ Convertible(model) =>
    /\ Produced(pre.ops, pre.cur.in_format) = pre.cur.out_format
    /\ pre.ops[1].lib \in Conversions => pre.ops[1].din = pre.cur.in_format

\* A frame that enters run_inference leaves it, whatever the hardware does:
\* the thread comes back to see that it is to close.
RunReturns == pc \in RunStates ~> pc \notin RunStates
=============================================================================
