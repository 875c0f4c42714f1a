---------------------------- MODULE PostProcessor ----------------------------
(***************************************************************************)
(* YOLO_PostProcessor and its base: the options, open_resource at each     *)
(* CAPS event, extract_detections and get_json on the inference thread,    *)
(* and the rendering of the detections on the streaming thread.            *)
(*                                                                         *)
(* extract_detections holds the mutex, and so do the readers of last_det.  *)
(* The readers of the tracker's last_tracked_detection, the options and    *)
(* open_resource hold nothing.  A list of detections is the number of the  *)
(* run that wrote it.                                                      *)
(*                                                                         *)
(* The regions of DetectionFilter.tla and the tracker of Tracker.tla are   *)
(* what Filter and Track stand for here.                                   *)
(***************************************************************************)
EXTENDS Integers, Sequences, FiniteSets

CONSTANTS
  Networks,     \* the models: version, files, and size of the output
  Edges,        \* values of filter-left and filter-top
  Sizes,        \* values of filter-width and filter-height
  ImageSize,    \* width and height of the image
  MaxOptions,   \* bound: options set before the element is opened
  MaxCaps,      \* bound: CAPS events
  MaxRuns       \* bound: runs of the inference

ASSUME SizesAssumption ==
  Edges \subseteq Nat /\ Sizes \subseteq Nat \ {0} /\ ImageSize \in Nat \ {0}
ASSUME NetworksAssumption ==
  \A n \in Networks : n.labels \in Nat /\ n.anchors \in Nat /\ n.grids \in Seq(Nat) /\ n.out \in Nat
\* yolo_offset takes the number of a layer as a uint8_t: there are no more
\* layers than it counts, however often the files are read.
ASSUME LayersAssumption == \A n \in Networks : MaxCaps * Len(n.grids) <= 256
ASSUME PostBounds == MaxOptions \in Nat /\ MaxCaps \in Nat /\ MaxRuns \in Nat

SumGrids(grids) == LET sum[i \in 0 .. Len(grids)] ==
                         IF i = 0 THEN 0 ELSE sum[i - 1] + grids[i] * grids[i]
                   IN sum[Len(grids)]

\* The values of one box: its classes, its coordinates and, before version 8,
\* its objectness.
Values(version, classes) == classes + (IF version = "8" THEN 4 ELSE 5)

\* The files of a model describe its network: the output is a whole number of
\* boxes, with two anchors for each box of a cell of each layer.
Belong(n) ==
  LET item == Values(n.version, n.labels)
      cells == SumGrids(n.grids)
  IN IF n.version = "8"
       THEN \E boxes \in 0 .. n.out : n.out = boxes * item
       ELSE cells > 0 => \E boxes \in 0 .. n.out :
              n.out = boxes * (item * cells) /\ n.anchors >= 2 * boxes * Len(n.grids)
ASSUME FilesAssumption == \A n \in Networks : Belong(n)

None == -1

VARIABLES
  net,        \* the model
  tracking,   \* det_tracker.active
  asked,      \* the options of the region, as they were given last
  again,      \* the sizes given a second time, and their edges not since
  options,    \* options given so far
  region,     \* filter_region; x and y, its centre, are doubled
  caps,       \* CAPS events so far
  labels,     \* sizes of the lists that the files were read into
  anchors,
  num_grids,
  item_size,  \* a uint8_t
  sum_grids,
  num_bb,
  stream,     \* where the streaming thread is
  infer,      \* where the inference thread is
  mutex,      \* who holds it
  run,        \* runs so far
  failed,     \* the last run of extract_detections has thrown
  last_det, det_whole,          \* last_det, and whether it is complete
  last_tracked, tracked_whole,  \* last_tracked_detection, in the same way
  seen        \* the list that the streaming thread began to render

setting == <<net, tracking>>
filter == <<asked, again, options, region>>
layout == <<labels, anchors, num_grids, item_size, sum_grids, num_bb>>
lists == <<last_det, det_whole, last_tracked, tracked_whole>>
vars == <<setting, filter, caps, layout, stream, infer, mutex, run, failed, lists, seen>>

TypeOK ==
  /\ net \in Networks /\ tracking \in BOOLEAN /\ again \subseteq {"width", "height"}
  /\ options \in 0 .. MaxOptions /\ caps \in 0 .. MaxCaps /\ run \in 0 .. MaxRuns
  /\ labels \in Nat /\ anchors \in Nat
  /\ num_grids \in Seq(Nat)
  /\ item_size \in 0 .. 255
  /\ stream \in {"options", "labels", "grids", "region", "idle", "want", "render", "crashed"}
  /\ infer \in {"idle", "decode", "filter", "track", "tracking", "unlock", "json", "crashed"}
  /\ mutex \in {"free", "infer", "stream"}
  /\ failed \in BOOLEAN /\ det_whole \in BOOLEAN /\ tracked_whole \in BOOLEAN
  /\ last_det \in 0 .. run /\ last_tracked \in 0 .. run /\ seen \in 0 .. run

Init ==
  /\ net \in Networks
  /\ tracking \in BOOLEAN
  /\ asked = [left |-> None, top |-> None, width |-> None, height |-> None]
  /\ again = {}
  /\ options = 0
  /\ region = [x |-> 0, y |-> 0, w |-> 0, h |-> 0]
  /\ caps = 0
  /\ labels = 0 /\ anchors = 0 /\ num_grids = <<>>
  /\ item_size = 0 /\ sum_grids = 0 /\ num_bb = 0
  /\ stream = "options"
  /\ infer = "idle"
  /\ mutex = "free"
  /\ run = 0
  /\ failed = FALSE
  /\ last_det = 0 /\ det_whole = TRUE
  /\ last_tracked = 0 /\ tracked_whole = TRUE
  /\ seen = 0

-----------------------------------------------------------------------------
(* The options of the region                                               *)

SetLeft(r, f) == [r EXCEPT !.x = 2 * f + r.w]
SetTop(r, f) == [r EXCEPT !.y = 2 * f + r.h]

\* Mutant of SetWidth: the centre stays where it is.
SetWidthOnly(r, f) == [r EXCEPT !.w = f]

\* The centre so far becomes the left edge: setLeft(x).
SetWidth(r, f) == [r EXCEPT !.w = f, !.x = @ + f]
SetHeight(r, f) == [r EXCEPT !.h = f, !.y = @ + f]

\* Edges are doubled, like the centre.
GetLeft(r) == r.x - r.w
GetTop(r) == r.y - r.h

Active(r) == r.w * r.h > 0

\* set_property, for the keys filter-left to filter-height.
SetOption(key, f, r, twice) ==
  /\ stream = "options"
  /\ options < MaxOptions
  /\ options' = options + 1
  /\ asked' = [asked EXCEPT ![key] = f]
  /\ again' = twice
  /\ region' = r
  /\ UNCHANGED <<setting, caps, layout, stream, infer, mutex, run, failed, lists, seen>>

Given(key) == IF asked[key] = None THEN {} ELSE {key}

SetProperty ==
  \/ \E f \in Edges : SetOption("left", f, SetLeft(region, f), again \ {"width"})
  \/ \E f \in Edges : SetOption("top", f, SetTop(region, f), again \ {"height"})
  \/ \E f \in Sizes : SetOption("width", f, SetWidth(region, f), again \cup Given("width"))
  \/ \E f \in Sizes : SetOption("height", f, SetHeight(region, f), again \cup Given("height"))

-----------------------------------------------------------------------------
(* open_resource, which a CAPS event calls                                 *)

\* An exception goes through GStreamer and ends the program; so does a
\* division by zero.
Crash == stream' = "crashed" /\ infer' = "crashed"

BeginOpen ==
  /\ stream \in {"options", "idle"}
  /\ caps < MaxCaps
  /\ caps' = caps + 1
  /\ stream' = "labels"
  /\ UNCHANGED <<setting, filter, layout, infer, mutex, run, failed, lists, seen>>

ItemSize(n) == Values(net.version, n) % 256

\* load_label_file appends to what an earlier CAPS event has read.
LoadLabels ==
  /\ stream = "labels"
  /\ \/ /\ labels' = labels + net.labels
        /\ item_size' = ItemSize(labels')
        /\ IF net.version # "8"
             THEN stream' = "grids" /\ UNCHANGED <<infer, sum_grids, num_bb>>
             ELSE IF item_size' = 0
               THEN Crash /\ UNCHANGED <<sum_grids, num_bb>>
               ELSE /\ sum_grids' = net.out \div item_size'
                    /\ num_bb' = 1
                    /\ stream' = "region"
                    /\ UNCHANGED infer
     \/ Crash /\ UNCHANGED <<labels, item_size, sum_grids, num_bb>>
  /\ UNCHANGED <<setting, filter, caps, anchors, num_grids, mutex, run, failed, lists, seen>>

\* Mutant of NumBB: rounded up.
RoundedNumBB(out, item, grids) == out \div (item * grids) + 1

NumBB(out, item, grids) == out \div (item * grids)

\* load_anchors_file and load_num_grids append too.
LoadGrids ==
  /\ stream = "grids"
  /\ \/ /\ anchors' = anchors + net.anchors
        /\ num_grids' = num_grids \o net.grids
        /\ sum_grids' = SumGrids(num_grids')
        /\ IF item_size * sum_grids' = 0
             THEN Crash /\ UNCHANGED num_bb
             ELSE /\ num_bb' = NumBB(net.out, item_size, sum_grids')
                  /\ IF num_bb' = 0 THEN Crash ELSE stream' = "region" /\ UNCHANGED infer
     \/ Crash /\ UNCHANGED <<anchors, num_grids, sum_grids, num_bb>>
  /\ UNCHANGED <<setting, filter, caps, labels, item_size, mutex, run, failed, lists, seen>>

\* A region without an area becomes the image, unless iou_threshold of the
\* parameter file is no number.
EndOpen ==
  /\ stream = "region"
  /\ \/ /\ stream' = "idle" /\ UNCHANGED infer
        /\ region' = IF Active(region)
                       THEN region
                       ELSE SetHeight(SetWidth(region, ImageSize), ImageSize)
     \/ Crash /\ UNCHANGED region
  /\ UNCHANGED <<setting, asked, again, options, caps, layout, mutex, run, failed, lists, seen>>

-----------------------------------------------------------------------------
(* extract_detections                                                      *)

\* The cells in a row of a layer, which both loops and yolo_offset hold in a
\* uint8_t.
Grid(n) == num_grids[n] % 256

\* Mutant of Offset: the layers before this one are not skipped.
OffsetInLayer(n, b, y, x) == b * item_size * Grid(n) * Grid(n) + y * Grid(n) + x

\* yolo_offset, with layers numbered from 1.
Offset(n, b, y, x) ==
  LET before == num_bb * item_size * SumGrids(SubSeq(num_grids, 1, n - 1))
  IN before + b * item_size * Grid(n) * Grid(n) + y * Grid(n) + x

\* The values that are read: with the coordinates, all the classes and, before
\* version 8, the objectness.  yolo_index, or matrix_ref::get.
Channels == Values(net.version, labels)

Cells ==
  IF net.version = "8"
    THEN {<<i, 0, 0, 0>> : i \in 0 .. sum_grids - 1}
    ELSE UNION {{<<n, b, y, x>> : b \in 0 .. num_bb - 1,
                                  y \in 0 .. Grid(n) - 1, x \in 0 .. Grid(n) - 1} :
                n \in DOMAIN num_grids}

IndexOf(cell, channel) ==
  IF net.version = "8"
    THEN channel * sum_grids + cell[1]
    ELSE Offset(cell[1], cell[2], cell[3], cell[4])
           + channel * Grid(cell[1]) * Grid(cell[1])

Reads == {IndexOf(cell, c) : cell \in Cells, c \in 0 .. Channels - 1}

\* The last anchor of a layer; anchor_offset is a uint8_t.
LastAnchor(n) == ((2 * num_bb * (Len(num_grids) - n)) % 256) + 2 * (num_bb - 1) + 1

\* matrix_ref refuses another size, and vector::at an index: that of the last
\* channel of a cell is the largest.  The anchors are for a detection.
DecodeThrows ==
  IF net.version = "8"
    THEN net.out # sum_grids * item_size \/ Channels > item_size
    ELSE \E cell \in Cells : \/ IndexOf(cell, Channels - 1) >= net.out
                             \/ labels > 0 /\ LastAnchor(cell[1]) >= anchors

\* Mutant of BeginExtract: the mutex is not taken.
BeginExtractUnlocked ==
  /\ infer = "idle"
  /\ num_bb > 0 /\ stream \notin {"options", "crashed"}
  /\ run < MaxRuns
  /\ run' = run + 1
  /\ last_det' = run'
  /\ det_whole' = FALSE
  /\ failed' = FALSE
  /\ infer' = "decode"
  /\ UNCHANGED <<setting, filter, caps, layout, stream, mutex, last_tracked, tracked_whole, seen>>

\* The first frame comes after the first CAPS event: the mutex, and clear.
BeginExtract ==
  /\ infer = "idle"
  /\ run < MaxRuns
  /\ caps > 1 \/ stream \in {"idle", "want", "render"}
  /\ mutex = "free"
  /\ mutex' = "infer"
  /\ run' = run + 1
  /\ last_det' = run'
  /\ det_whole' = FALSE
  /\ failed' = FALSE
  /\ infer' = "decode"
  /\ UNCHANGED <<setting, filter, caps, layout, stream, last_tracked, tracked_whole, seen>>

\* Mutant of Decode: a run that throws is tried again under the mutex.
DecodeAgain ==
  /\ infer = "decode"
  /\ \/ DecodeThrows = TRUE /\ failed' = TRUE /\ UNCHANGED infer
     \/ /\ net.version = "8" => ~DecodeThrows
        /\ infer' = "filter"
        /\ UNCHANGED failed
  /\ UNCHANGED <<setting, filter, caps, layout, stream, mutex, run, lists, seen>>

\* The output is read with the layout of the moment.  An exception leaves
\* last_det as far as it was written; before version 8 it takes a detection
\* at the right place to get one.  Without labels the greatest class of a cell
\* is read from an empty vector.
Decode ==
  /\ infer = "decode"
  /\ \/ /\ DecodeThrows = TRUE
        /\ infer' = "idle" /\ mutex' = "free" /\ failed' = TRUE
        /\ UNCHANGED stream
     \/ /\ labels = 0 /\ Cells # {} /\ (net.version = "8" => ~DecodeThrows)
        /\ Crash
        /\ UNCHANGED <<mutex, failed>>
     \/ /\ net.version = "8" => ~DecodeThrows /\ (labels > 0 \/ Cells = {})
        /\ infer' = "filter"
        /\ UNCHANGED <<stream, mutex, failed>>
  /\ UNCHANGED <<setting, filter, caps, layout, run, lists, seen>>

\* filterer.apply erases from last_det.
Filter ==
  /\ infer = "filter"
  /\ det_whole' = TRUE
  /\ infer' = IF tracking THEN "track" ELSE "unlock"
  /\ UNCHANGED <<setting, filter, caps, layout, stream, mutex, run, failed, last_det,
                 last_tracked, tracked_whole, seen>>

\* det_tracker.track replaces last_tracked_detection ...
BeginTrack ==
  /\ infer = "track"
  /\ last_tracked' = run
  /\ tracked_whole' = FALSE
  /\ infer' = "tracking"
  /\ UNCHANGED <<setting, filter, caps, layout, stream, mutex, run, failed, last_det,
                 det_whole, seen>>

\* ... which is not done at once.
EndTrack ==
  /\ infer = "tracking"
  /\ tracked_whole' = TRUE
  /\ infer' = "unlock"
  /\ UNCHANGED <<setting, filter, caps, layout, stream, mutex, run, failed, last_det,
                 det_whole, last_tracked, seen>>

EndExtract ==
  /\ infer = "unlock"
  /\ mutex' = "free"
  /\ infer' = "json"
  /\ UNCHANGED <<setting, filter, caps, layout, stream, run, failed, lists, seen>>

\* get_json for the log server; without tracking get_detections_json takes
\* the mutex.
GetJson ==
  /\ infer = "json"
  /\ tracking \/ mutex = "free"
  /\ infer' = "idle"
  /\ UNCHANGED <<setting, filter, caps, layout, stream, mutex, run, failed, lists, seen>>

-----------------------------------------------------------------------------
(* The streaming thread                                                    *)

\* A frame; get_status counts the tracked items for the corner of the image.
Frame ==
  /\ stream = "idle"
  /\ stream' = "want"
  /\ UNCHANGED <<setting, filter, caps, layout, infer, mutex, run, failed, lists, seen>>

\* render_detections_on_image; with tracking it takes no mutex.
BeginRender ==
  /\ stream = "want"
  /\ \/ tracking /\ seen' = last_tracked /\ UNCHANGED mutex
     \/ ~tracking /\ mutex = "free" /\ mutex' = "stream" /\ seen' = last_det
  /\ stream' = "render"
  /\ UNCHANGED <<setting, filter, caps, layout, infer, run, failed, lists>>

EndRender ==
  /\ stream = "render"
  /\ mutex' = IF tracking THEN mutex ELSE "free"
  /\ stream' = "idle"
  /\ UNCHANGED <<setting, filter, caps, layout, infer, run, failed, lists, seen>>

\* The program has ended.
Stopped == stream = "crashed" /\ UNCHANGED vars

-----------------------------------------------------------------------------

OpenNext == BeginOpen \/ LoadLabels \/ LoadGrids \/ EndOpen

ExtractNext == Decode \/ Filter \/ BeginTrack \/ EndTrack \/ EndExtract

Next ==
  \/ SetProperty \/ OpenNext
  \/ BeginExtract \/ ExtractNext \/ GetJson
  \/ Frame \/ BeginRender \/ EndRender
  \/ Stopped

Spec == Init /\ [][Next]_vars

\* Both threads keep running, and the one that waits for the mutex gets it:
\* the inference thread lets go of it for the time of an inference.
FairSpec ==
  Spec /\ WF_vars(ExtractNext) /\ WF_vars(EndRender) /\ SF_vars(BeginRender) /\ SF_vars(GetJson)

-----------------------------------------------------------------------------
(* Properties                                                              *)

\* The values that extract_detections reads are those of the output, each one
\* as the value of one channel of one cell only: with the files of the model
\* read once, labels, an item whose size fits in item_size, and grids that fit
\* in a uint8_t.
EveryValueOnce ==
  infer = "decode" /\ caps = 1 /\ labels > 0 /\ Channels <= 255
    /\ (\A n \in DOMAIN num_grids : num_grids[n] <= 255) =>
      /\ Reads = 0 .. net.out - 1
      /\ Cardinality(Cells) * Channels = net.out

\* Decoding fails only after a second CAPS event, which appends the labels to
\* themselves, or with more classes than item_size counts.  (A grid that is
\* cut to a byte reads other values, but no value outside the output.)
DecodeFailsForCause == failed => caps > 1 \/ Channels > 255

\* Without tracking, the list that is being rendered is the one that was there
\* when rendering began, and extract_detections has finished it or given it up
\* by an exception of the last run.  In particular a list that a run has left
\* half done is rendered only until the next run.
RenderedWhole == stream = "render" /\ ~tracking => last_det = seen /\ (det_whole \/ failed)

\* The same for the list of the tracker.
TrackedRenderedWhole == stream = "render" /\ tracking => tracked_whole /\ last_tracked = seen

\* Whatever the order of the options, each axis of the region is as it was
\* asked for, with the image where nothing was.  (But a size without the other
\* one gives way to the image, which moves the edge, and so does a size given a
\* second time after its edge.)
RegionAsAsked ==
  LET Asked(key, default) == IF asked[key] = None THEN default ELSE asked[key]
      Kept(key, other) == asked[key] = None \/ asked[other] # None
  IN caps > 0 /\ stream \in {"idle", "want", "render"} =>
       /\ Kept("width", "height") =>
            /\ region.w = Asked("width", ImageSize)
            /\ "width" \notin again => GetLeft(region) = 2 * Asked("left", 0)
       /\ Kept("height", "width") =>
            /\ region.h = Asked("height", ImageSize)
            /\ "height" \notin again => GetTop(region) = 2 * Asked("top", 0)

\* A frame that waits to be rendered is, also after a run that has thrown.
FrameRendered == stream = "want" ~> stream \in {"idle", "crashed"}
=============================================================================
