------------------------------ MODULE BaseDrpai ------------------------------
(***************************************************************************)
(* BaseDRPAI and the device behind it: opening the driver, loading the     *)
(* object files of a model, running an inference, and releasing.  TVM_DRPAI*)
(* (TvmDrpai.tla) derives from it and opens the driver with open_files off.*)
(*                                                                         *)
(* Every call into the driver may fail.  An exception out of open_resource *)
(* ends in gst_drpai_change_state, one out of run_inference in             *)
(* thread_function_single, which tries again with the next frame.          *)
(*                                                                         *)
(* A frame and everything computed from it is its number.  0 is what was   *)
(* there before, Other a place that is not the udmabuf, and Torn a frame   *)
(* that was overwritten while the hardware still read it.                  *)
(***************************************************************************)
EXTENDS Integers, FiniteSets, Sequences

CONSTANTS
  MaxOpens,   \* bound: attempts to open the element
  MaxRuns     \* bound: frames that reach run_inference

ASSUME RunBounds == MaxOpens \in Nat /\ MaxRuns \in Nat

Torn == -1
Other == -2
Frames == (0 .. MaxRuns) \union {Torn, Other}

VARIABLES
  tvm,          \* the model is a TVM_DRPAI
  stop_error,   \* property of the element
  pc,           \* where the controller's calls are
  drpai_fd,     \* 0, -1, a descriptor, or the number of a closed one
  open_fds,     \* descriptors of /dev/drpai0 that drpai_fd has held and are open
  opens,        \* attempts so far
  loaded,       \* object files in the memory of the device
  sized,        \* IN_WIDTH and IN_HEIGHT are those of the model
  in_addr,      \* the input address is that of the udmabuf
  hw,           \* the hardware: idle, running or done
  hw_in,        \* the frame it reads
  hw_err,       \* err of drpai_status_t
  out_mem,      \* the frame the output area describes
  image,        \* the frame in the udmabuf
  buf           \* drpai_output_buf

base_settings == <<tvm, stop_error>>
opening == <<drpai_fd, open_fds, opens, loaded, sized, in_addr>>
device == <<hw, hw_in, hw_err, out_mem>>
base_vars == <<base_settings, pc, opening, device, image, buf>>

\* The object files that load_data_to_mem and PreRuntime::Load write.
Files == {"drp_desc", "drpcfg", "drp_param", "aimac_desc", "weight"}

BaseInit ==
  /\ tvm \in BOOLEAN
  /\ stop_error \in BOOLEAN
  /\ pc = "closed"
  /\ drpai_fd = "unset"
  /\ open_fds = 0
  /\ opens = 0
  /\ loaded = {}
  /\ sized = FALSE
  /\ in_addr = FALSE
  /\ hw = "idle"
  /\ hw_in = 0
  /\ hw_err = FALSE
  /\ out_mem = 0
  /\ image = 0
  /\ buf = <<>>

-----------------------------------------------------------------------------
(* open_resource                                                           *)

\* A std::runtime_error: the state change fails, or the element goes on
\* without the rest of the model.  A CAPS event then ends the program unless
\* the size is known.
AfterOpenError == IF stop_error THEN "closed" ELSE IF sized THEN "idle" ELSE "ended"

\* open("/dev/drpai0"), also when an earlier attempt has left one open.
OpenDriver ==
  /\ pc = "closed"
  /\ opens < MaxOpens
  /\ opens' = opens + 1
  /\ \/ /\ drpai_fd' = "open"
        /\ open_fds' = open_fds + 1
        /\ pc' = IF tvm THEN "pre_open" ELSE "addrmap"
     \/ /\ drpai_fd' = "bad"
        /\ UNCHANGED open_fds
        /\ pc' = AfterOpenError
  /\ loaded' = {}
  /\ UNCHANGED <<base_settings, sized, in_addr, device, image, buf>>

\* read_addrmap_txt: a missing file and the driver throw runtime_error; an
\* unknown element and a number that is none throw exceptions of other types,
\* which gst_drpai_change_state does not catch.
ReadAddrmap ==
  /\ pc = "addrmap"
  /\ \/ pc' = "data_in" /\ buf' = <<0>>
     \/ pc' \in {AfterOpenError, "ended"} /\ UNCHANGED buf
  /\ UNCHANGED <<base_settings, opening, device, image>>

\* read_data_in_list sets the size before it sees the format, whose name it
\* may refuse; std::stoi throws an exception of another type.
ReadDataIn ==
  /\ pc = "data_in"
  /\ \/ pc' = "files" /\ sized' = TRUE
     \/ /\ sized' \in {sized, TRUE}
        /\ pc' = IF stop_error THEN "closed" ELSE IF sized' THEN "idle" ELSE "ended"
     \/ pc' = "ended" /\ UNCHANGED sized
  /\ UNCHANGED <<base_settings, drpai_fd, open_fds, opens, loaded, in_addr, device, image, buf>>

\* Mutant of LoadFile: the last file of the loop is left out.
LoadFileButOne ==
  /\ pc = "files"
  /\ \/ \E f \in Files \ loaded :
          /\ loaded' = loaded \union {f}
          /\ pc' = IF Cardinality(Files \ loaded') = 1 THEN "param" ELSE "files"
          /\ in_addr' = (in_addr \/ Cardinality(Files \ loaded') = 1)
     \/ pc' = AfterOpenError /\ UNCHANGED <<loaded, in_addr>>
  /\ UNCHANGED <<base_settings, drpai_fd, open_fds, opens, sized, device, image, buf>>

\* load_data_to_mem, one file after the other in the order of the driver's
\* index; the last one is followed by the input address.
LoadFile ==
  /\ pc = "files"
  /\ \/ \E f \in Files \ loaded :
          /\ loaded' = loaded \union {f}
          /\ pc' = IF loaded' = Files THEN "param" ELSE "files"
          /\ in_addr' = (in_addr \/ loaded' = Files)
     \/ pc' = AfterOpenError /\ UNCHANGED <<loaded, in_addr>>
  /\ UNCHANGED <<base_settings, drpai_fd, open_fds, opens, sized, device, image, buf>>

\* load_drpai_param_file, which a missing file does not stop.
LoadParamFile ==
  /\ pc = "param"
  /\ pc' \in {"idle", AfterOpenError}
  /\ UNCHANGED <<base_settings, opening, device, image, buf>>

-----------------------------------------------------------------------------
(* The driver and the hardware                                             *)

\* DRPAI_START, which a running hardware refuses.
DriverStarts(input) ==
  /\ hw # "running"
  /\ hw' = "running"
  /\ hw_in' = input
  /\ hw_err' = FALSE
  /\ UNCHANGED out_mem

\* The hardware ends by itself, well or with an error status.
HardwareEnds ==
  /\ hw = "running"
  /\ hw' = "done"
  /\ \/ out_mem' = hw_in /\ UNCHANGED hw_err
     \/ hw_err' = TRUE /\ UNCHANGED out_mem
  /\ UNCHANGED <<base_settings, pc, opening, hw_in, image, buf>>

-----------------------------------------------------------------------------
(* run_inference                                                           *)

\* The next frame is copied into the udmabuf, whether or not the hardware has
\* finished with the one before.
NextFrame ==
  /\ pc = "idle"
  /\ image < MaxRuns
  /\ image' = image + 1
  /\ hw_in' = IF hw = "running" THEN Torn ELSE hw_in
  /\ pc' = IF tvm THEN "pre" ELSE "start"
  /\ UNCHANGED <<base_settings, opening, hw, hw_err, out_mem, buf>>

Start ==
  /\ pc = "start"
  /\ ~tvm
  /\ \/ /\ drpai_fd = "open"
        /\ DriverStarts(IF in_addr THEN image ELSE Other)
        /\ pc' = "wait"
     \/ pc' = "idle" /\ UNCHANGED device
  /\ UNCHANGED <<base_settings, opening, image, buf>>

\* Mutant of Timeout: select waits without a limit.
NoTimeout ==
  /\ FALSE
  /\ UNCHANGED base_vars

\* select gives up after five seconds, or with an error.
Timeout ==
  /\ pc = "wait"
  /\ ~tvm
  /\ pc' = "idle"
  /\ UNCHANGED <<base_settings, opening, device, image, buf>>

\* Mutant of WaitDone: a timeout is not an error.
WaitAnyhow ==
  /\ pc = "wait"
  /\ ~tvm
  /\ pc' = "result"
  /\ UNCHANGED <<base_settings, opening, device, image, buf>>

\* DRPAI_GET_STATUS; what it says of errors of the hardware is not read.
WaitDone ==
  /\ pc = "wait"
  /\ ~tvm
  /\ hw = "done"
  /\ pc' \in {"result", "idle"}
  /\ UNCHANGED <<base_settings, opening, device, image, buf>>

GetResult ==
  /\ pc = "result"
  /\ ~tvm
  /\ \/ buf' = <<out_mem>> /\ pc' = "done"
     \/ pc' = "idle" /\ UNCHANGED buf
  /\ UNCHANGED <<base_settings, opening, device, image>>

\* extract_detections has read drpai_output_buf.
Return ==
  /\ pc = "done"
  /\ pc' = "idle"
  /\ UNCHANGED <<base_settings, opening, device, image, buf>>

-----------------------------------------------------------------------------
(* release_resource                                                        *)

\* Mutant of Release: the descriptor is not closed.
ReleaseWithoutClose ==
  /\ pc = "idle"
  /\ pc' = "released"
  /\ drpai_fd' = IF drpai_fd = "open" THEN "closed" ELSE drpai_fd
  /\ UNCHANGED <<base_settings, open_fds, opens, loaded, sized, in_addr, device, image, buf>>

\* Mutant of Release: a second call, with the number that drpai_fd keeps.
ReleaseAgain ==
  /\ pc \in {"idle", "released"}
  /\ pc' = "released"
  /\ \/ drpai_fd \in {"open", "closed"} /\ drpai_fd' = "closed" /\ open_fds' = open_fds - 1
     \/ drpai_fd \in {"unset", "bad"} /\ UNCHANGED <<drpai_fd, open_fds>>
  /\ UNCHANGED <<base_settings, opens, loaded, sized, in_addr, device, image, buf>>

\* drpai_fd is closed, and keeps its number.
Release ==
  /\ pc = "idle"
  /\ pc' = "released"
  /\ \/ drpai_fd = "open" /\ drpai_fd' = "closed" /\ open_fds' = open_fds - 1
     \/ drpai_fd # "open" /\ UNCHANGED <<drpai_fd, open_fds>>
  /\ UNCHANGED <<base_settings, opens, loaded, sized, in_addr, device, image, buf>>

\* No further attempt to open, the program has ended, or the element is gone.
Stopped ==
  /\ \/ pc \in {"ended", "released"}
     \/ pc = "closed" /\ opens = MaxOpens
  /\ UNCHANGED base_vars

OpenNext == ReadAddrmap \/ ReadDataIn \/ LoadFile \/ LoadParamFile

RunNext == Start \/ Timeout \/ WaitDone \/ GetResult \/ Return

BaseNext ==
  \/ OpenDriver \/ OpenNext
  \/ HardwareEnds
  \/ NextFrame \/ RunNext
  \/ Release \/ Stopped
=============================================================================
