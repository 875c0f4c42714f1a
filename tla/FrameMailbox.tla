---------------------------- MODULE FrameMailbox ----------------------------
(***************************************************************************)
(* What the hand-over of frames between the GStreamer streaming thread and *)
(* the inference thread promises, with no thread, lock or condition        *)
(* variable in sight.                                                      *)
(*                                                                         *)
(* There is one slot, the udmabuf image, and one owner of it at a time.    *)
(* The pipeline fills the slot while it owns it and may only give away a   *)
(* completely written frame; inference turns the frame of the slot into    *)
(* the published detections while it owns it and then grants the slot      *)
(* back.  Whatever interleaving implements this, the detections describe   *)
(* one whole frame and never an older one than before.                     *)
(***************************************************************************)
EXTENDS Integers

CONSTANT Torn   \* the content of a slot that is only partly written: not a number of a frame

VARIABLES
  owner,    \* "pipeline" or "inference"
  slot,     \* the number of the frame in the slot, or Torn
  result    \* the number of the frame the published detections describe

vars == <<owner, slot, result>>

TypeOK ==
  /\ owner \in {"pipeline", "inference"}
  /\ slot \in Nat \union {Torn}
  /\ result \in Nat

Init == owner = "pipeline" /\ slot = 0 /\ result = 0

BeginWrite == owner = "pipeline" /\ slot' = Torn /\ UNCHANGED <<owner, result>>

EndWrite ==
  /\ owner = "pipeline"
  /\ slot = Torn
  /\ slot' \in Nat
  /\ slot' >= result
  /\ UNCHANGED <<owner, result>>

\* The slot goes to inference only when it holds a whole frame.
HandOver ==
  /\ owner = "pipeline"
  /\ slot # Torn
  /\ owner' = "inference"
  /\ UNCHANGED <<slot, result>>

Analyse == owner = "inference" /\ result' = slot /\ UNCHANGED <<owner, slot>>

Grant == owner = "inference" /\ owner' = "pipeline" /\ UNCHANGED <<slot, result>>

Next == BeginWrite \/ EndWrite \/ HandOver \/ Analyse \/ Grant

Spec == Init /\ [][Next]_vars
=============================================================================
