------------------------- MODULE PostProcessorProofs -------------------------
(***************************************************************************)
(* Proofs about PostProcessor for any networks, options, CAPS events and   *)
(* runs: types, what the mutex protects, that the setters of the region    *)
(* commute, and that decoding reads every value of the output once.        *)
(***************************************************************************)
EXTENDS PostProcessor, NaturalLemmas, FiniteSetTheorems, FunctionTheorems

-----------------------------------------------------------------------------
(* Types, part by part                                                     *)

Flags ==
  /\ tracking \in BOOLEAN /\ again \subseteq {"width", "height"}
  /\ failed \in BOOLEAN /\ det_whole \in BOOLEAN /\ tracked_whole \in BOOLEAN

Counts ==
  /\ options \in 0 .. MaxOptions /\ caps \in 0 .. MaxCaps /\ run \in 0 .. MaxRuns
  /\ labels \in Nat /\ anchors \in Nat
  /\ item_size \in 0 .. 255
  /\ last_det \in 0 .. run /\ last_tracked \in 0 .. run /\ seen \in 0 .. run

Places ==
  /\ net \in Networks
  /\ num_grids \in Seq(Nat)
  /\ stream \in {"options", "labels", "grids", "region", "idle", "want", "render", "crashed"}
  /\ infer \in {"idle", "decode", "filter", "track", "tracking", "unlock", "json", "crashed"}
  /\ mutex \in {"free", "infer", "stream"}

LEMMA Parts == TypeOK <=> Flags /\ Counts /\ Places
BY DEF TypeOK, Flags, Counts, Places

LEMMA FlagsStep == Flags /\ [Next]_vars => Flags'
<1> SUFFICES ASSUME Flags, [Next]_vars PROVE Flags'
  OBVIOUS
<1> USE DEF Flags, setting, filter, layout, lists
<1>1. CASE SetProperty
  <2>1. ASSUME NEW key, NEW f, NEW r, NEW twice, SetOption(key, f, r, twice),
               twice \subseteq {"width", "height"}
        PROVE  Flags'
    BY <2>1, Zenon DEF SetOption
  <2>2. /\ again \ {"width"} \subseteq {"width", "height"}
        /\ again \ {"height"} \subseteq {"width", "height"}
        /\ again \cup Given("width") \subseteq {"width", "height"}
        /\ again \cup Given("height") \subseteq {"width", "height"}
    BY DEF Given
  <2> HIDE DEF Flags
  <2>. QED BY <1>1, <2>1, <2>2, Zenon DEF SetProperty
<1>2. CASE BeginOpen \/ LoadLabels  BY <1>2, Zenon DEF BeginOpen, LoadLabels
<1>3. CASE LoadGrids \/ EndOpen  BY <1>3, Zenon DEF LoadGrids, EndOpen
<1>4. CASE BeginExtract  BY <1>4, Zenon DEF BeginExtract
<1>5. CASE Decode  BY <1>5, Zenon DEF Decode
<1>6. CASE Filter \/ BeginTrack \/ EndTrack  BY <1>6, Zenon DEF Filter, BeginTrack, EndTrack
<1>7. CASE EndExtract \/ GetJson  BY <1>7, Zenon DEF EndExtract, GetJson
<1>8. CASE Frame \/ BeginRender \/ EndRender  BY <1>8, Zenon DEF Frame, BeginRender, EndRender
<1>9. CASE Stopped \/ UNCHANGED vars  BY <1>9, Zenon DEF Stopped, vars
<1>. QED BY <1>1, <1>2, <1>3, <1>4, <1>5, <1>6, <1>7, <1>8, <1>9
         DEF Next, OpenNext, ExtractNext

LEMMA ItemSizeType == ASSUME NEW n \in Nat PROVE ItemSize(n) \in 0 .. 255
BY DEF ItemSize, Values

LEMMA CountsStep == Counts /\ Places /\ [Next]_vars => Counts'
<1> SUFFICES ASSUME Counts, Places, [Next]_vars PROVE Counts'
  OBVIOUS
<1> USE PostBounds DEF Counts, setting, filter, layout, lists
<1>1. CASE SetProperty
  <2>1. ASSUME NEW key, NEW f, NEW r, NEW twice, SetOption(key, f, r, twice)  PROVE  Counts'
    BY <2>1 DEF SetOption
  <2>. QED BY <1>1, <2>1 DEF SetProperty
<1>2. CASE BeginOpen  BY <1>2 DEF BeginOpen
<1>3. CASE LoadLabels
  <2>1. CASE UNCHANGED <<labels, item_size>>  BY <1>3, <2>1 DEF LoadLabels
  <2>2. CASE labels' = labels + net.labels /\ item_size' = ItemSize(labels')
    <3>1. labels' \in Nat  BY <2>2, NetworksAssumption DEF Places
    <3>2. item_size' \in 0 .. 255  BY <2>2, <3>1, ItemSizeType
    <3>3. UNCHANGED <<options, caps, run, anchors, last_det, last_tracked, seen>>
      BY <1>3 DEF LoadLabels
    <3>. QED BY <3>1, <3>2, <3>3
  <2>. QED BY <1>3, <2>1, <2>2 DEF LoadLabels
<1>4. CASE LoadGrids
  <2>1. anchors' \in Nat  BY <1>4, NetworksAssumption DEF LoadGrids, Places
  <2>2. UNCHANGED <<options, caps, run, labels, item_size, last_det, last_tracked, seen>>
    BY <1>4 DEF LoadGrids
  <2>. QED BY <2>1, <2>2
<1>5. CASE EndOpen
  <2>1. UNCHANGED <<options, caps, run, labels, anchors, item_size, last_det, last_tracked, seen>>
    BY <1>5 DEF EndOpen
  <2>. QED BY <2>1
<1>6. CASE BeginExtract
  <2>1. run < MaxRuns /\ run' = run + 1 /\ last_det' = run'
    BY <1>6 DEF BeginExtract
  <2>2. UNCHANGED <<options, caps, labels, anchors, item_size, last_tracked, seen>>
    BY <1>6 DEF BeginExtract
  <2>. QED BY <2>1, <2>2
<1>7. CASE Decode  BY <1>7, Zenon DEF Decode
<1>8. CASE Filter \/ EndTrack  BY <1>8, Zenon DEF Filter, EndTrack
<1>9. CASE BeginTrack
  <2>1. /\ last_tracked' = run
        /\ UNCHANGED <<options, caps, run, labels, anchors, item_size, last_det, seen>>
    BY <1>9, Zenon DEF BeginTrack
  <2>. QED BY <2>1
<1>10. CASE EndExtract \/ GetJson  BY <1>10, Zenon DEF EndExtract, GetJson
<1>11. CASE Frame \/ EndRender  BY <1>11, Zenon DEF Frame, EndRender
<1>12. CASE BeginRender
  <2>1. seen' \in {last_tracked, last_det}  BY <1>12, Zenon DEF BeginRender
  <2>2. UNCHANGED <<options, caps, run, labels, anchors, item_size, last_det, last_tracked>>
    BY <1>12, Zenon DEF BeginRender
  <2>. QED BY <2>1, <2>2
<1>13. CASE Stopped \/ UNCHANGED vars  BY <1>13, Zenon DEF Stopped, vars
<1>. QED BY <1>1, <1>2, <1>3, <1>4, <1>5, <1>6, <1>7, <1>8, <1>9, <1>10, <1>11, <1>12, <1>13
         DEF Next, OpenNext, ExtractNext

LEMMA PlacesStep == Places /\ [Next]_vars => Places'
<1> SUFFICES ASSUME Places, [Next]_vars PROVE Places'
  OBVIOUS
<1> USE DEF Places, setting, filter, layout, lists
<1>1. CASE SetProperty
  <2>1. ASSUME NEW key, NEW f, NEW r, NEW twice, SetOption(key, f, r, twice)  PROVE  Places'
    BY <2>1, Zenon DEF SetOption
  <2>. QED BY <1>1, <2>1 DEF SetProperty
<1>2. CASE BeginOpen  BY <1>2 DEF BeginOpen
<1>3. CASE LoadLabels
  <2>1. stream' \in {"grids", "region", "crashed"} /\ infer' \in {infer, "crashed"}
    BY <1>3 DEF LoadLabels, Crash
  <2>2. UNCHANGED <<net, num_grids, mutex>>  BY <1>3 DEF LoadLabels
  <2>. QED BY <2>1, <2>2
<1>4. CASE LoadGrids
  <2>1. num_grids' \in Seq(Nat)
    <3>1. CASE UNCHANGED <<anchors, num_grids>>  BY <3>1
    <3>2. CASE num_grids' = num_grids \o net.grids  BY <3>2, NetworksAssumption
    <3>. QED BY <1>4, <3>1, <3>2 DEF LoadGrids
  <2>2. stream' \in {"region", "crashed"} /\ infer' \in {infer, "crashed"}
    BY <1>4 DEF LoadGrids, Crash
  <2>3. UNCHANGED <<net, mutex>>  BY <1>4 DEF LoadGrids
  <2>. QED BY <2>1, <2>2, <2>3
<1>5. CASE EndOpen
  <2>1. stream' \in {"idle", "crashed"} /\ infer' \in {infer, "crashed"}
    BY <1>5 DEF EndOpen, Crash
  <2>2. UNCHANGED <<net, num_grids, mutex>>  BY <1>5 DEF EndOpen
  <2>. QED BY <2>1, <2>2
<1>6. CASE BeginExtract  BY <1>6 DEF BeginExtract
<1>7. CASE Decode
  <2>1. /\ infer' \in {"idle", "filter", "crashed"} /\ mutex' \in {mutex, "free"}
        /\ stream' \in {stream, "crashed"}
    BY <1>7, Zenon DEF Decode, Crash
  <2>2. UNCHANGED <<net, num_grids>>  BY <1>7 DEF Decode
  <2>. QED BY <2>1, <2>2
<1>8. CASE Filter  BY <1>8 DEF Filter
<1>9. CASE BeginTrack
  <2>1. infer' = "tracking" /\ UNCHANGED <<net, num_grids, mutex, stream>>  BY <1>9 DEF BeginTrack
  <2>. QED BY <2>1
<1>10. CASE EndTrack
  <2>1. infer' = "unlock" /\ UNCHANGED <<net, num_grids, mutex, stream>>  BY <1>10 DEF EndTrack
  <2>. QED BY <2>1
<1>11. CASE EndExtract \/ GetJson
  <2>1. infer' \in {"json", "idle"} /\ mutex' \in {mutex, "free"}
    BY <1>11 DEF EndExtract, GetJson
  <2>2. UNCHANGED <<net, num_grids, stream>>  BY <1>11 DEF EndExtract, GetJson
  <2>. QED BY <2>1, <2>2
<1>12. CASE Frame \/ BeginRender \/ EndRender
  BY <1>12 DEF Frame, BeginRender, EndRender
<1>13. CASE Stopped \/ UNCHANGED vars  BY <1>13 DEF Stopped, vars
<1>. QED BY <1>1, <1>2, <1>3, <1>4, <1>5, <1>6, <1>7, <1>8, <1>9, <1>10, <1>11, <1>12, <1>13
         DEF Next, OpenNext, ExtractNext

\* Everything keeps its type; the size of an item stays in its byte, whatever
\* the number of labels (yolo_post_processor.cpp:284, 312).
THEOREM TypeCorrect == Spec => []TypeOK
<1>1. Init => Flags  BY Zenon DEF Init, Flags
<1>2. Init => Counts  BY PostBounds DEF Init, Counts
<1>3. Init => Places  BY DEF Init, Places
<1>. QED BY <1>1, <1>2, <1>3, FlagsStep, CountsStep, PlacesStep, Parts, PTL DEF Spec

-----------------------------------------------------------------------------
(* The mutex                                                               *)

Extracting == infer \in {"decode", "filter", "track", "tracking", "unlock"}

Crashed == stream = "crashed" /\ infer = "crashed"

LockInv ==
  /\ stream = "crashed" <=> infer = "crashed"
  /\ ~Crashed => (mutex = "infer" <=> Extracting)
  /\ mutex = "stream" <=> stream = "render" /\ ~tracking
  /\ ~det_whole /\ ~failed /\ ~Crashed => infer \in {"decode", "filter"}
  /\ stream = "render" /\ ~tracking => seen = last_det

LEMMA LockInit == Init => LockInv
BY Zenon DEF Init, LockInv, Extracting, Crashed

LEMMA LockStep == Places /\ LockInv /\ [Next]_vars => LockInv'
<1> SUFFICES ASSUME Places, LockInv, [Next]_vars PROVE LockInv'
  OBVIOUS
<1> USE DEF Places, LockInv, Extracting, Crashed, setting, filter, layout, lists
<1>1. CASE SetProperty
  <2>1. ASSUME NEW key, NEW f, NEW r, NEW twice, SetOption(key, f, r, twice)  PROVE  LockInv'
    BY <2>1, Zenon DEF SetOption
  <2>. QED BY <1>1, <2>1 DEF SetProperty
<1>2. CASE BeginOpen  BY <1>2 DEF BeginOpen
<1>3. CASE LoadLabels
  <2>1. UNCHANGED <<tracking, mutex, failed, last_det, det_whole, seen>>
    BY <1>3, Zenon DEF LoadLabels
  <2>2. (stream' \in {"grids", "region"} /\ infer' = infer) \/ Crash
    BY <1>3 DEF LoadLabels
  <2>3. stream = "labels"  BY <1>3 DEF LoadLabels
  <2>. QED BY <2>1, <2>2, <2>3 DEF Crash
<1>4. CASE LoadGrids
  <2>1. UNCHANGED <<tracking, mutex, failed, last_det, det_whole, seen>>
    BY <1>4, Zenon DEF LoadGrids
  <2>2. (stream' = "region" /\ infer' = infer) \/ Crash
    BY <1>4 DEF LoadGrids
  <2>3. stream = "grids"  BY <1>4 DEF LoadGrids
  <2>. QED BY <2>1, <2>2, <2>3 DEF Crash
<1>5. CASE EndOpen
  <2>1. UNCHANGED <<tracking, mutex, failed, last_det, det_whole, seen>>
    BY <1>5, Zenon DEF EndOpen
  <2>2. (stream' = "idle" /\ infer' = infer) \/ Crash
    BY <1>5 DEF EndOpen
  <2>3. stream = "region"  BY <1>5 DEF EndOpen
  <2>. QED BY <2>1, <2>2, <2>3 DEF Crash
<1>6. CASE BeginExtract  BY <1>6 DEF BeginExtract
<1>7. CASE Decode
  <2>1. UNCHANGED <<tracking, last_det, det_whole, seen>> /\ infer = "decode"
    BY <1>7, Zenon DEF Decode
  <2>2. \/ infer' = "idle" /\ mutex' = "free" /\ failed' = TRUE /\ stream' = stream
        \/ Crash /\ UNCHANGED <<mutex, failed>>
        \/ infer' = "filter" /\ UNCHANGED <<stream, mutex, failed>>
    BY <1>7, Zenon DEF Decode
  <2>. QED BY <2>1, <2>2 DEF Crash
<1>8. CASE Filter  BY <1>8 DEF Filter
<1>9. CASE BeginTrack \/ EndTrack
  <2>1. UNCHANGED <<tracking, stream, mutex, failed, last_det, det_whole, seen>>
    BY <1>9, Zenon DEF BeginTrack, EndTrack
  <2>2. infer \in {"track", "tracking"} /\ infer' \in {"tracking", "unlock"}
    BY <1>9 DEF BeginTrack, EndTrack
  <2>. QED BY <2>1, <2>2
<1>10. CASE EndExtract
  <2>1. UNCHANGED <<tracking, stream, failed, last_det, det_whole, seen>> /\ mutex' = "free"
    BY <1>10, Zenon DEF EndExtract
  <2>2. infer = "unlock" /\ infer' = "json"  BY <1>10 DEF EndExtract
  <2>. QED BY <2>1, <2>2
<1>11. CASE GetJson
  <2>1. UNCHANGED <<tracking, stream, mutex, failed, last_det, det_whole, seen>>
    BY <1>11, Zenon DEF GetJson
  <2>2. infer = "json" /\ infer' = "idle"  BY <1>11 DEF GetJson
  <2>. QED BY <2>1, <2>2
<1>12. CASE Frame  BY <1>12 DEF Frame
<1>13. CASE BeginRender  BY <1>13 DEF BeginRender
<1>14. CASE EndRender  BY <1>14 DEF EndRender
<1>15. CASE Stopped \/ UNCHANGED vars
  <2>1. UNCHANGED <<tracking, stream, infer, mutex, failed, last_det, det_whole, seen>>
    BY <1>15, Zenon DEF Stopped, vars
  <2>. QED BY <2>1
<1>. QED BY <1>1, <1>2, <1>3, <1>4, <1>5, <1>6, <1>7, <1>8, <1>9, <1>10, <1>11, <1>12, <1>13, <1>14,
         <1>15
         DEF Next, OpenNext, ExtractNext

\* The renderer that takes the mutex keeps the list it began with until it is
\* done, and the list is finished unless the last run threw an exception, for
\* any number of runs and frames (yolo_post_processor.cpp:97, 423).
THEOREM RenderingSeesWhole == Spec => []RenderedWhole
<1>1. Init => Places  BY DEF Init, Places
<1>2. LockInv => RenderedWhole  BY DEF LockInv, Extracting, Crashed, RenderedWhole
<1>. QED BY <1>1, <1>2, LockInit, LockStep, PlacesStep, PTL DEF Spec

-----------------------------------------------------------------------------
(* The options of the region                                               *)

Or(o, default) == IF o = None THEN default ELSE o

\* An element that has got through one CAPS event.
Opened == caps > 1 \/ stream \in {"idle", "want", "render"}

Regions == [x : Nat, y : Nat, w : Nat, h : Nat]

RegionTypes ==
  /\ asked \in [left : Edges \cup {None}, top : Edges \cup {None},
                width : Sizes \cup {None}, height : Sizes \cup {None}]
  /\ region \in Regions
  /\ caps \in Nat

\* One axis of the region, with a default for its size.
Across(width) ==
  /\ region.w = Or(asked.width, width)
  /\ "width" \notin again => region.x = 2 * Or(asked.left, 0) + region.w

Down(height) ==
  /\ region.h = Or(asked.height, height)
  /\ "height" \notin again => region.y = 2 * Or(asked.top, 0) + region.h

\* Before the region is completed it holds what was asked for and nothing for
\* the rest; that is what makes the setters commute.
Bare == Across(0) /\ Down(0)

Full ==
  /\ region.w # 0 /\ region.h # 0
  /\ asked.width = None \/ asked.height # None => Across(ImageSize)
  /\ asked.height = None \/ asked.width # None => Down(ImageSize)

RegionInv ==
  /\ stream = "options" <=> caps = 0
  /\ stream = "options" => infer = "idle"
  /\ stream # "crashed" /\ ~Opened => Bare
  /\ stream # "crashed" /\ Opened => Full

LEMMA Area == ASSUME NEW a \in Nat, NEW b \in Nat PROVE a * b > 0 <=> a # 0 /\ b # 0
<1>1. CASE a = 0 \/ b = 0  BY <1>1
<1>2. CASE a # 0 /\ b # 0
  <2>1. a >= 1 /\ b >= 1  BY <1>2
  <2>2. PICK c \in Nat : a = c + 1  BY <2>1 
  <2>3. a * b = c * b + b  BY <2>2
  <2>4. c * b >= 0  BY <2>2
  <2>. QED BY <1>2, <2>1, <2>3, <2>4
<1>. QED BY <1>1, <1>2

\* What the actions other than the setters and open_resource do to the region.
LEMMA Others ==
  ASSUME [Next]_vars
  PROVE  \/ SetProperty \/ BeginOpen \/ EndOpen \/ BeginExtract
         \/ /\ UNCHANGED <<asked, again, region, caps>>
            /\ \/ stream' = stream /\ (infer' = infer \/ infer # "idle")
               \/ stream' = "crashed" /\ (stream # "options" \/ infer # "idle")
               \/ stream \in {"labels", "grids"} /\ stream' \in {"grids", "region"}
               \/ {stream, stream'} \subseteq {"idle", "want", "render"}
<1> USE DEF filter
<1>1. CASE LoadLabels \/ LoadGrids
  <2>1. UNCHANGED <<asked, again, region, caps>>  BY <1>1, Zenon DEF LoadLabels, LoadGrids
  <2>2. stream \in {"labels", "grids"} /\ stream' \in {"grids", "region", "crashed"}
    BY <1>1 DEF LoadLabels, LoadGrids, Crash
  <2>. QED BY <2>1, <2>2
<1>2. CASE ExtractNext \/ GetJson
  <2>1. UNCHANGED <<asked, again, region, caps>>
    BY <1>2, Zenon DEF ExtractNext, Decode, Filter, BeginTrack, EndTrack, EndExtract, GetJson
  <2>2. infer # "idle"
    BY <1>2 DEF ExtractNext, Decode, Filter, BeginTrack, EndTrack, EndExtract, GetJson
  <2>3. stream' = stream \/ stream' = "crashed"
    BY <1>2, Zenon DEF ExtractNext, Decode, Filter, BeginTrack, EndTrack, EndExtract, GetJson, Crash
  <2>. QED BY <2>1, <2>2, <2>3
<1>3. CASE Frame \/ BeginRender \/ EndRender
  <2>1. UNCHANGED <<asked, again, region, caps>>
    BY <1>3, Zenon DEF Frame, BeginRender, EndRender
  <2>2. {stream, stream'} \subseteq {"idle", "want", "render"}
    BY <1>3 DEF Frame, BeginRender, EndRender
  <2>. QED BY <2>1, <2>2
<1>4. CASE Stopped \/ UNCHANGED vars
  <2>1. UNCHANGED <<asked, again, region, caps, stream, infer>>
    BY <1>4, Zenon DEF Stopped, vars
  <2>. QED BY <2>1
<1>. QED BY <1>1, <1>2, <1>3, <1>4 DEF Next, OpenNext

LEMMA Setters ==
  ASSUME NEW r \in Regions, NEW f \in Nat
  PROVE  /\ SetLeft(r, f) = [x |-> 2 * f + r.w, y |-> r.y, w |-> r.w, h |-> r.h]
         /\ SetTop(r, f) = [x |-> r.x, y |-> 2 * f + r.h, w |-> r.w, h |-> r.h]
         /\ SetWidth(r, f) = [x |-> r.x + f, y |-> r.y, w |-> f, h |-> r.h]
         /\ SetHeight(r, f) = [x |-> r.x, y |-> r.y + f, w |-> r.w, h |-> f]
         /\ {SetLeft(r, f), SetTop(r, f), SetWidth(r, f), SetHeight(r, f)} \subseteq Regions
<1> USE DEF Regions
<1>1. SetLeft(r, f) = [x |-> 2 * f + r.w, y |-> r.y, w |-> r.w, h |-> r.h]
  BY DEF SetLeft
<1>2. SetTop(r, f) = [x |-> r.x, y |-> 2 * f + r.h, w |-> r.w, h |-> r.h]
  BY DEF SetTop
<1>3. SetWidth(r, f) = [x |-> r.x + f, y |-> r.y, w |-> f, h |-> r.h]
  <2>1. [r EXCEPT !.w = f] = [x |-> r.x, y |-> r.y, w |-> f, h |-> r.h]
    OBVIOUS
  <2>2. SetWidth(r, f) = [[r EXCEPT !.w = f] EXCEPT !.x = r.x + f]  BY <2>1 DEF SetWidth
  <2>. QED BY <2>1, <2>2
<1>4. SetHeight(r, f) = [x |-> r.x, y |-> r.y + f, w |-> r.w, h |-> f]
  <2>1. [r EXCEPT !.h = f] = [x |-> r.x, y |-> r.y, w |-> r.w, h |-> f]
    OBVIOUS
  <2>2. SetHeight(r, f) = [[r EXCEPT !.h = f] EXCEPT !.y = r.y + f]  BY <2>1 DEF SetHeight
  <2>. QED BY <2>1, <2>2
<1>5. 2 * f + r.w \in Nat /\ 2 * f + r.h \in Nat /\ r.x + f \in Nat /\ r.y + f \in Nat
  OBVIOUS
<1>. QED BY <1>1, <1>2, <1>3, <1>4, <1>5

LEMMA RegionInit == Init => RegionTypes /\ RegionInv
<1> SUFFICES ASSUME Init PROVE RegionTypes /\ RegionInv
  OBVIOUS
<1>1. RegionTypes  BY DEF Init, RegionTypes, Regions
<1>2. RegionInv  BY DEF Init, RegionInv, Opened, Bare, Across, Down, Or, None
<1>. QED BY <1>1, <1>2

LEMMA RegionTypesStep == RegionTypes /\ [Next]_vars => RegionTypes'
<1> SUFFICES ASSUME RegionTypes, [Next]_vars PROVE RegionTypes'
  OBVIOUS
<1> USE SizesAssumption DEF RegionTypes, setting, filter, layout, lists
<1>1. CASE SetProperty
  <2>1. caps' = caps  BY <1>1 DEF SetProperty, SetOption
  <2>2. ASSUME NEW f \in Edges, NEW twice, SetOption("left", f, SetLeft(region, f), twice)
        PROVE  RegionTypes'
    BY <2>1, <2>2, Setters DEF SetOption
  <2>3. ASSUME NEW f \in Edges, NEW twice, SetOption("top", f, SetTop(region, f), twice)
        PROVE  RegionTypes'
    BY <2>1, <2>3, Setters DEF SetOption
  <2>4. ASSUME NEW f \in Sizes, NEW twice, SetOption("width", f, SetWidth(region, f), twice)
        PROVE  RegionTypes'
    BY <2>1, <2>4, Setters DEF SetOption
  <2>5. ASSUME NEW f \in Sizes, NEW twice, SetOption("height", f, SetHeight(region, f), twice)
        PROVE  RegionTypes'
    BY <2>1, <2>5, Setters DEF SetOption
  <2>. QED BY <1>1, <2>2, <2>3, <2>4, <2>5 DEF SetProperty
<1>2. CASE BeginOpen  BY <1>2 DEF BeginOpen
<1>3. CASE EndOpen
  <2>1. asked' = asked /\ caps' = caps  BY <1>3 DEF EndOpen
  <2>2. SetHeight(SetWidth(region, ImageSize), ImageSize) \in Regions  BY Setters
  <2>3. region' \in Regions  BY <1>3, <2>2 DEF EndOpen
  <2>. QED BY <2>1, <2>3
<1>4. CASE UNCHANGED <<asked, region, caps>>  BY <1>4
<1>5. CASE BeginExtract  BY <1>5 DEF BeginExtract
<1>. QED BY <1>1, <1>2, <1>3, <1>4, <1>5, Others

\* A setter leaves the region as it was asked for so far.
LEMMA SetterStep ==
  RegionTypes /\ RegionInv /\ SetProperty => Bare' /\ UNCHANGED <<stream, infer, caps>>
                                               /\ stream = "options" /\ caps = 0
<1> SUFFICES ASSUME RegionTypes, RegionInv, SetProperty
             PROVE  Bare' /\ UNCHANGED <<stream, infer, caps>> /\ stream = "options" /\ caps = 0
  OBVIOUS
<1>1. UNCHANGED <<stream, infer, caps>> /\ stream = "options" /\ caps = 0
  BY DEF SetProperty, SetOption, RegionInv
<1>2. Bare  BY <1>1 DEF RegionInv, Opened
<1> USE SizesAssumption DEF RegionTypes, Regions, Bare, Across, Down, Or, None
<1>3. ASSUME NEW f \in Edges, SetOption("left", f, SetLeft(region, f), again \ {"width"})
      PROVE  Bare'
  <2>1. region' = [x |-> 2 * f + region.w, y |-> region.y, w |-> region.w, h |-> region.h]
    BY <1>3, Setters DEF SetOption
  <2>2. UNCHANGED <<asked.top, asked.width, asked.height>> /\ asked'.left = f
        /\ ("height" \in again' <=> "height" \in again)
    BY <1>3 DEF SetOption
  <2>. QED BY <1>2, <2>1, <2>2
<1>4. ASSUME NEW f \in Edges, SetOption("top", f, SetTop(region, f), again \ {"height"})
      PROVE  Bare'
  <2>1. region' = [x |-> region.x, y |-> 2 * f + region.h, w |-> region.w, h |-> region.h]
    BY <1>4, Setters DEF SetOption
  <2>2. UNCHANGED <<asked.left, asked.width, asked.height>> /\ asked'.top = f
        /\ ("width" \in again' <=> "width" \in again)
    BY <1>4 DEF SetOption
  <2>. QED BY <1>2, <2>1, <2>2
<1>5. ASSUME NEW f \in Sizes,
             SetOption("width", f, SetWidth(region, f), again \cup Given("width"))
      PROVE  Bare'
  <2>1. region' = [x |-> region.x + f, y |-> region.y, w |-> f, h |-> region.h]
    BY <1>5, Setters DEF SetOption
  <2>2. UNCHANGED <<asked.left, asked.top, asked.height>> /\ asked'.width = f
    BY <1>5 DEF SetOption
  <2>3. /\ "height" \in again' <=> "height" \in again
        /\ "width" \notin again' => "width" \notin again /\ asked.width = None
    BY <1>5 DEF SetOption, Given
  <2>4. Across(0)'
    <3>1. region'.w = Or(asked'.width, 0)  BY <2>1, <2>2
    <3>2. ASSUME "width" \notin again' PROVE region'.x = 2 * Or(asked'.left, 0) + region'.w
      <4>1. region.w = 0 /\ region.x = 2 * Or(asked.left, 0) + region.w  BY <1>2, <2>3, <3>2
      <4>2. Or(asked'.left, 0) = Or(asked.left, 0) /\ Or(asked.left, 0) \in Nat  BY <2>2
      <4>. HIDE DEF Or
      <4>. QED BY <2>1, <4>1, <4>2
    <3>. QED BY <3>1, <3>2
  <2>5. Down(0)'  BY <1>2, <2>1, <2>2, <2>3
  <2>. QED BY <2>4, <2>5
<1>6. ASSUME NEW f \in Sizes,
             SetOption("height", f, SetHeight(region, f), again \cup Given("height"))
      PROVE  Bare'
  <2>1. region' = [x |-> region.x, y |-> region.y + f, w |-> region.w, h |-> f]
    BY <1>6, Setters DEF SetOption
  <2>2. UNCHANGED <<asked.left, asked.top, asked.width>> /\ asked'.height = f
    BY <1>6 DEF SetOption
  <2>3. /\ "width" \in again' <=> "width" \in again
        /\ "height" \notin again' => "height" \notin again /\ asked.height = None
    BY <1>6 DEF SetOption, Given
  <2>4. Down(0)'
    <3>1. region'.h = Or(asked'.height, 0)  BY <2>1, <2>2
    <3>2. ASSUME "height" \notin again' PROVE region'.y = 2 * Or(asked'.top, 0) + region'.h
      <4>1. region.h = 0 /\ region.y = 2 * Or(asked.top, 0) + region.h  BY <1>2, <2>3, <3>2
      <4>2. Or(asked'.top, 0) = Or(asked.top, 0) /\ Or(asked.top, 0) \in Nat  BY <2>2
      <4>. HIDE DEF Or
      <4>. QED BY <2>1, <4>1, <4>2
    <3>. QED BY <3>1, <3>2
  <2>5. Across(0)'  BY <1>2, <2>1, <2>2, <2>3
  <2>. QED BY <2>4, <2>5
<1>. QED BY <1>1, <1>3, <1>4, <1>5, <1>6 DEF SetProperty

\* Completing a region that is not active puts the image for its sizes.
LEMMA CompleteStep ==
  ASSUME RegionTypes, Bare, UNCHANGED <<asked, again>>,
         region' = IF Active(region) THEN region
                   ELSE SetHeight(SetWidth(region, ImageSize), ImageSize)
  PROVE  Full'
<1> USE SizesAssumption DEF RegionTypes, Regions, Bare, Across, Down, Full, Or, None
<1>1. Active(region) <=> region.w # 0 /\ region.h # 0  BY Area DEF Active
<1>2. CASE Active(region)
  <2>1. region' = region /\ region.w # 0 /\ region.h # 0  BY <1>1, <1>2
  <2>2. asked.width # None /\ asked.height # None  BY <2>1
  <2>. QED BY <2>1, <2>2
<1>3. CASE ~Active(region)
  <2> DEFINE wide == SetWidth(region, ImageSize)
  <2>1. region' = SetHeight(wide, ImageSize)  BY <1>3
  <2>2. /\ wide = [x |-> region.x + ImageSize, y |-> region.y, w |-> ImageSize, h |-> region.h]
        /\ wide \in Regions
    BY Setters
  <2> HIDE DEF wide
  <2>3. region' = [x |-> wide.x, y |-> wide.y + ImageSize, w |-> wide.w, h |-> ImageSize]
    BY <2>1, <2>2, Setters
  <2>4. /\ region'.w = ImageSize /\ region'.x = region.x + ImageSize
        /\ region'.h = ImageSize /\ region'.y = region.y + ImageSize
    BY <2>2, <2>3
  <2>5. asked.width = None \/ asked.height # None => asked.width = None /\ region.w = 0
    BY <1>1, <1>3
  <2>6. asked.height = None \/ asked.width # None => asked.height = None /\ region.h = 0
    BY <1>1, <1>3
  <2>7. Or(asked.left, 0) \in Nat /\ Or(asked.top, 0) \in Nat  OBVIOUS
  <2>8. ASSUME asked.width = None \/ asked.height # None PROVE Across(ImageSize)'
    <3>1. asked.width = None /\ region.w = 0  BY <2>5, <2>8
    <3>2. "width" \notin again => region.x = 2 * Or(asked.left, 0) + 0  BY <3>1
    <3>. QED BY <2>4, <2>7, <3>1, <3>2
  <2>9. ASSUME asked.height = None \/ asked.width # None PROVE Down(ImageSize)'
    <3>1. asked.height = None /\ region.h = 0  BY <2>6, <2>9
    <3>2. "height" \notin again => region.y = 2 * Or(asked.top, 0) + 0  BY <3>1
    <3>. QED BY <2>4, <2>7, <3>1, <3>2
  <2>10. region'.w # 0 /\ region'.h # 0  BY <2>4
  <2> HIDE DEF Across, Down
  <2>. QED BY <2>8, <2>9, <2>10
<1>. QED BY <1>2, <1>3

LEMMA RegionStep == RegionTypes /\ RegionInv /\ [Next]_vars => RegionInv'
<1> SUFFICES ASSUME RegionTypes, RegionInv, [Next]_vars PROVE RegionInv'
  OBVIOUS
<1> USE DEF RegionInv, Opened
<1>0. ASSUME UNCHANGED <<asked, again, region>> PROVE (Bare => Bare') /\ (Full => Full')
  BY <1>0 DEF Bare, Full, Across, Down
<1>1. CASE SetProperty
  BY <1>1, SetterStep
<1>2. CASE BeginOpen
  <2>1. stream' = "labels" /\ stream \in {"options", "idle"} /\ caps' = caps + 1
    BY <1>2 DEF BeginOpen
  <2>2. UNCHANGED <<asked, again, region>>  BY <1>2 DEF BeginOpen, filter
  <2>3. Opened' <=> Opened
    BY <2>1 DEF RegionTypes
  <2>. QED BY <1>0, <2>1, <2>2, <2>3 DEF RegionTypes
<1>3. CASE EndOpen
  <2>1. UNCHANGED <<asked, again, caps>> /\ stream = "region"  BY <1>3 DEF EndOpen
  <2>2. CASE stream' = "crashed"  BY <2>1, <2>2
  <2>3. CASE stream' # "crashed"
    <3>1. /\ stream' = "idle"
          /\ region' = IF Active(region) THEN region
                       ELSE SetHeight(SetWidth(region, ImageSize), ImageSize)
      BY <1>3, <2>3 DEF EndOpen, Crash
    <3>2. CASE ~Opened
      <4>1. Full'  BY <2>1, <3>1, <3>2, CompleteStep
      <4>. QED BY <2>1, <3>1, <4>1
    <3>3. CASE Opened
      <4>1. Full  BY <2>1, <3>3
      <4>2. Active(region)  BY <4>1, Area DEF Active, Full, RegionTypes, Regions
      <4>. QED BY <1>0, <2>1, <3>1, <4>1, <4>2
    <3>. QED BY <3>2, <3>3
  <2>. QED BY <2>2, <2>3
<1>4. CASE BeginExtract
  <2>1. UNCHANGED <<asked, again, region, caps, stream>>
        /\ (caps > 1 \/ stream \in {"idle", "want", "render"})
    BY <1>4, Zenon DEF BeginExtract, filter
  <2>. QED BY <1>0, <2>1 DEF RegionTypes
<1>5. CASE UNCHANGED <<asked, again, region, caps, stream>> /\ (infer' = infer \/ infer # "idle")
  BY <1>0, <1>5
<1>6. CASE UNCHANGED <<asked, again, region, caps>> /\ stream' = "crashed"
           /\ (stream # "options" \/ infer # "idle")
  BY <1>6
<1>7. CASE UNCHANGED <<asked, again, region, caps>> /\ stream \in {"labels", "grids"}
           /\ stream' \in {"grids", "region"}
  BY <1>0, <1>7
<1>8. CASE UNCHANGED <<asked, again, region, caps>>
           /\ {stream, stream'} \subseteq {"idle", "want", "render"}
  BY <1>0, <1>8
<1>. QED BY <1>1, <1>2, <1>3, <1>4, <1>5, <1>6, <1>7, <1>8, Others

\* In whatever order, with whatever values and however often the four options
\* are given, each axis of the region is as asked for, and a later CAPS event
\* leaves it so; reserved are a size without the other one, and the edge of a
\* size given a second time after it (detection_filterer.h:29-32,
\* yolo_post_processor.cpp:330-335).
THEOREM SettersCommute == Spec => []RegionAsAsked
<1>1. RegionTypes /\ RegionInv => RegionAsAsked
  <2> SUFFICES ASSUME RegionTypes, RegionInv, caps > 0, stream \in {"idle", "want", "render"}
               PROVE  /\ asked.width = None \/ asked.height # None =>
                           /\ region.w = Or(asked.width, ImageSize)
                           /\ "width" \notin again => GetLeft(region) = 2 * Or(asked.left, 0)
                      /\ asked.height = None \/ asked.width # None =>
                           /\ region.h = Or(asked.height, ImageSize)
                           /\ "height" \notin again => GetTop(region) = 2 * Or(asked.top, 0)
    BY Zenon DEF RegionAsAsked, Or
  <2>1. Full  BY DEF RegionInv, Opened
  <2>2. Or(asked.left, 0) \in Nat /\ Or(asked.top, 0) \in Nat
    BY SizesAssumption DEF RegionTypes, Or
  <2>3. region.w \in Nat /\ region.h \in Nat  BY DEF RegionTypes, Regions
  <2>. QED BY <2>1, <2>2, <2>3 DEF Full, Across, Down, GetLeft, GetTop
<1>. QED BY <1>1, RegionInit, RegionTypesStep, RegionStep, PTL DEF Spec

-----------------------------------------------------------------------------
(* The sums of the cells of the layers                                     *)

\* f holds the numbers of the cells of the first layers.
Sums(f, grids) ==
  /\ f \in [0 .. Len(grids) -> Nat]
  /\ f[0] = 0
  /\ \A i \in 1 .. Len(grids) : f[i] = f[i - 1] + grids[i] * grids[i]

LEMMA SumsExist == ASSUME NEW grids \in Seq(Nat) PROVE \E f : Sums(f, grids)
<1> DEFINE Upto(n, f) == /\ f \in [0 .. n -> Nat] /\ f[0] = 0
                         /\ \A i \in 1 .. n : f[i] = f[i - 1] + grids[i] * grids[i]
           T == {n \in Nat : n <= Len(grids) => \E f : Upto(n, f)}
<1>1. 0 \in T
  <2>1. Upto(0, [i \in 0 .. 0 |-> 0])  OBVIOUS
  <2>. QED BY <2>1
<1>2. ASSUME NEW n \in Nat, n \in T PROVE n + 1 \in T
  <2>1. SUFFICES ASSUME n + 1 <= Len(grids) PROVE \E f : Upto(n + 1, f)
    <3> HIDE DEF Upto
    <3>. QED OBVIOUS
  <2>2. PICK f : Upto(n, f)
    <3>1. n <= Len(grids) => \E f : Upto(n, f)
      <4> HIDE DEF Upto
      <4>. QED BY <1>2
    <3> HIDE DEF Upto
    <3>. QED BY <2>1, <3>1
  <2>3. n + 1 \in 1 .. Len(grids) /\ grids[n + 1] \in Nat  BY <2>1
  <2>4. grids[n + 1] * grids[n + 1] \in Nat  BY <2>3
  <2> DEFINE g == [i \in 0 .. n + 1 |->
                     IF i = n + 1 THEN f[n] + grids[n + 1] * grids[n + 1] ELSE f[i]]
  <2>5. \A i \in 0 .. n : g[i] = f[i]  OBVIOUS
  <2>6. g[n + 1] = f[n] + grids[n + 1] * grids[n + 1]  OBVIOUS
  <2>7. f[n] \in Nat  BY <2>2
  <2>8. g \in [0 .. n + 1 -> Nat]  BY <2>2, <2>4, <2>7
  <2> HIDE DEF g
  <2>9. g[0] = 0  BY <2>2, <2>5
  <2>10. ASSUME NEW i \in 1 .. n + 1 PROVE g[i] = g[i - 1] + grids[i] * grids[i]
    <3>1. CASE i = n + 1
      <4>1. g[i - 1] = f[n]  BY <2>5, <3>1
      <4>. QED BY <2>6, <3>1, <4>1
    <3>2. CASE i # n + 1
      <4>1. i \in 1 .. n /\ i \in 0 .. n /\ i - 1 \in 0 .. n  BY <3>2
      <4>. QED BY <2>2, <2>5, <4>1
    <3>. QED BY <3>1, <3>2
  <2>. QED BY <2>8, <2>9, <2>10
<1> HIDE DEF T
<1>3. Len(grids) \in T  BY <1>1, <1>2, SetInduction
<1>. QED BY <1>3 DEF T, Sums

LEMMA SumsSame ==
  ASSUME NEW grids \in Seq(Nat), NEW f, Sums(f, grids),
         NEW other \in Seq(Nat), NEW g, Sums(g, other),
         NEW n \in Nat, n <= Len(grids), n <= Len(other), \A i \in 1 .. n : grids[i] = other[i]
  PROVE  f[n] = g[n]
<1> DEFINE T == {m \in Nat : m <= n => f[m] = g[m]}
<1>1. 0 \in T  BY DEF Sums
<1>2. ASSUME NEW m \in Nat, m \in T PROVE m + 1 \in T
  <2>1. SUFFICES ASSUME m + 1 <= n PROVE f[m + 1] = g[m + 1]
    OBVIOUS
  <2>2. m + 1 \in 1 .. Len(grids) /\ m + 1 \in 1 .. Len(other) /\ grids[m + 1] = other[m + 1]
    BY <2>1
  <2>3. f[m + 1] = f[m] + grids[m + 1] * grids[m + 1]  BY <2>2 DEF Sums
  <2>4. g[m + 1] = g[m] + other[m + 1] * other[m + 1]  BY <2>2 DEF Sums
  <2>5. f[m] = g[m]  BY <1>2, <2>1
  <2>. QED BY <2>2, <2>3, <2>4, <2>5
<1> HIDE DEF T
<1>3. n \in T  BY <1>1, <1>2, SetInduction
<1>. QED BY <1>3 DEF T

\* What SumGrids returns.
LEMMA SumGridsIs ==
  ASSUME NEW grids \in Seq(Nat), NEW f, Sums(f, grids)
  PROVE  SumGrids(grids) = f[Len(grids)]
<1> DEFINE Rec(h) == h = [i \in 0 .. Len(grids) |->
                            IF i = 0 THEN 0 ELSE h[i - 1] + grids[i] * grids[i]]
           sum == CHOOSE h : Rec(h)
           Same == {i \in Nat : i <= Len(grids) => sum[i] = f[i]}
<1>1. Rec(f)
  <2>1. f = [i \in 0 .. Len(grids) |-> f[i]]  BY DEF Sums
  <2>2. ASSUME NEW i \in 0 .. Len(grids)
        PROVE  f[i] = IF i = 0 THEN 0 ELSE f[i - 1] + grids[i] * grids[i]
    BY DEF Sums
  <2>. QED BY <2>1, <2>2
<1>2. Rec(sum)
  <2> HIDE DEF Rec
  <2>. QED BY <1>1
<1>3. \A i \in 0 .. Len(grids) : sum[i] = IF i = 0 THEN 0 ELSE sum[i - 1] + grids[i] * grids[i]
  <2> HIDE DEF sum
  <2>. QED BY <1>2
<1>4. SumGrids(grids) = sum[Len(grids)]  BY DEF SumGrids
<1> HIDE DEF sum
<1>5. 0 \in Same  BY <1>3 DEF Sums
<1>6. ASSUME NEW i \in Nat, i \in Same PROVE i + 1 \in Same
  <2>1. SUFFICES ASSUME i + 1 <= Len(grids) PROVE sum[i + 1] = f[i + 1]
    OBVIOUS
  <2>2. i + 1 \in 1 .. Len(grids)  BY <2>1
  <2>3. f[i + 1] = f[i] + grids[i + 1] * grids[i + 1]  BY <2>2 DEF Sums
  <2>4. sum[i + 1] = sum[i] + grids[i + 1] * grids[i + 1]  BY <1>3, <2>2
  <2>. QED BY <1>6, <2>1, <2>3, <2>4
<1> HIDE DEF Same
<1>7. Len(grids) \in Same  BY <1>5, <1>6, SetInduction
<1>. QED BY <1>4, <1>7 DEF Same

LEMMA SumOfLayersBefore ==
  ASSUME NEW grids \in Seq(Nat), NEW f, Sums(f, grids), NEW n \in 1 .. Len(grids)
  PROVE  SumGrids(SubSeq(grids, 1, n - 1)) = f[n - 1]
<1> DEFINE before == SubSeq(grids, 1, n - 1)
<1>1. before \in Seq(Nat) /\ Len(before) = n - 1 /\ \A i \in 1 .. n - 1 : before[i] = grids[i]
  OBVIOUS
<1> HIDE DEF before
<1>2. PICK h : Sums(h, before)  BY <1>1, SumsExist
<1>3. SumGrids(before) = h[n - 1]  BY <1>1, <1>2, SumGridsIs
<1>4. h[n - 1] = f[n - 1]
  <2>1. n - 1 \in Nat /\ n - 1 <= Len(before) /\ n - 1 <= Len(grids)  BY <1>1
  <2> DEFINE m == n - 1
  <2>2. m \in Nat /\ m <= Len(before) /\ m <= Len(grids) /\ \A i \in 1 .. m : before[i] = grids[i]
    BY <1>1, <2>1
  <2> HIDE DEF m
  <2>3. h[m] = f[m]  BY <1>1, <1>2, <2>2, SumsSame
  <2>. QED BY <2>3 DEF m
<1>. QED BY <1>3, <1>4 DEF before

LEMMA SumsMonotone ==
  ASSUME NEW grids \in Seq(Nat), NEW f, Sums(f, grids),
         NEW m \in 0 .. Len(grids), NEW n \in 0 .. Len(grids), m <= n
  PROVE  f[m] <= f[n]
<1> DEFINE T == {d \in Nat : m + d <= Len(grids) => f[m] <= f[m + d]}
<1>1. 0 \in T
  <2>1. f[m] \in Nat  BY DEF Sums
  <2>. QED BY <2>1
<1>2. ASSUME NEW d \in Nat, d \in T PROVE d + 1 \in T
  <2>1. SUFFICES ASSUME m + (d + 1) <= Len(grids) PROVE f[m] <= f[m + (d + 1)]
    OBVIOUS
  <2>2. (m + d) + 1 \in 1 .. Len(grids) /\ m + d \in 0 .. Len(grids)  BY <2>1
  <2>3. f[(m + d) + 1] = f[m + d] + grids[(m + d) + 1] * grids[(m + d) + 1]
    BY <2>2 DEF Sums
  <2>4. f[m + d] \in Nat /\ f[m] \in Nat  BY <2>2 DEF Sums
  <2>5. grids[(m + d) + 1] \in Nat  BY <2>2
  <2>6. grids[(m + d) + 1] * grids[(m + d) + 1] \in Nat  BY <2>5
  <2>7. f[m] <= f[m + d]  BY <1>2, <2>2
  <2>8. f[m] <= f[(m + d) + 1]  BY <2>3, <2>4, <2>6, <2>7
  <2>. QED BY <2>8
<1> HIDE DEF T
<1>3. n - m \in T
  <2>1. Nat \subseteq T  BY <1>1, <1>2, SetInduction
  <2>. QED BY <2>1
<1>. QED BY <1>3 DEF T

LEMMA SumGridsType == ASSUME NEW grids \in Seq(Nat) PROVE SumGrids(grids) \in Nat
<1>1. PICK f : Sums(f, grids)  BY SumsExist
<1>2. SumGrids(grids) = f[Len(grids)]  BY <1>1, SumGridsIs
<1>. QED BY <1>1, <1>2 DEF Sums

-----------------------------------------------------------------------------
(* The places of the values of an output in layers, of B boxes of K values *)

Place(B, K, f, g, n, b, c, y, x) ==
  (B * K) * f[n - 1] + Two(Two(b, K, c), g * g, Two(y, g, x))

LEMMA LayerFacts ==
  ASSUME NEW grids \in Seq(Nat), NEW f, Sums(f, grids), NEW n \in 1 .. Len(grids)
  PROVE  /\ grids[n] \in Nat /\ grids[n] * grids[n] \in Nat
         /\ f[n - 1] \in Nat /\ f[n] \in Nat
         /\ f[n] = f[n - 1] + grids[n] * grids[n]
<1>1. n - 1 \in 0 .. Len(grids) /\ n \in 0 .. Len(grids) /\ grids[n] \in Nat  OBVIOUS
<1>2. f[n - 1] \in Nat /\ f[n] \in Nat  BY <1>1 DEF Sums
<1>3. f[n] = f[n - 1] + grids[n] * grids[n]  BY DEF Sums
<1>4. grids[n] * grids[n] \in Nat  BY <1>1
<1>. QED BY <1>1, <1>2, <1>3, <1>4

\* Value c of box b of the cell y, x of a layer with g cells in a row.
Within(B, K, g, b, c, y, x) ==
  b \in 0 .. B - 1 /\ c \in 0 .. K - 1 /\ y \in 0 .. g - 1 /\ x \in 0 .. g - 1

\* Also when the layer is read as a smaller one.
LEMMA PlaceInLayer ==
  ASSUME NEW grids \in Seq(Nat), NEW f, Sums(f, grids), NEW B \in Nat, NEW K \in Nat,
         NEW n \in 1 .. Len(grids), NEW g \in Nat, g <= grids[n],
         NEW b, NEW c, NEW y, NEW x, Within(B, K, g, b, c, y, x)
  PROVE  Place(B, K, f, g, n, b, c, y, x) \in (B * K) * f[n - 1] .. (B * K) * f[n] - 1
<1> DEFINE box == Two(b, K, c)
           cell == Two(y, g, x)
           all == grids[n] * grids[n]
<1>1. f[n - 1] \in Nat /\ all \in Nat /\ f[n] = f[n - 1] + all  BY LayerFacts, Zenon
<1>2. cell \in 0 .. g * g - 1  BY TwoPlacesBound DEF Within
<1>3. box \in 0 .. B * K - 1  BY TwoPlacesBound DEF Within
<1> DEFINE q == g * g
           p == B * K
           a == f[n - 1]
<1>4. q \in Nat /\ p \in Nat /\ q <= all  BY grids[n] \in Nat, SquareMonotone
<1>5. Place(B, K, f, g, n, b, c, y, x) = p * a + Two(box, q, cell)  BY DEF Place
<1>6. a \in Nat /\ f[n] = a + all  BY <1>1
<1> HIDE DEF box, cell, all, q, p, a
<1>7. Two(box, q, cell) \in 0 .. p * q - 1  BY <1>2, <1>3, <1>4, TwoPlacesBound DEF p, q
<1>8. q * p <= all * p  BY <1>1, <1>4, ProductMonotone
<1>9. /\ p * (a + all) = p * a + p * all /\ p * a \in Nat /\ p * all \in Nat
      /\ p * q = q * p /\ p * all = all * p /\ p * q \in Nat
  BY <1>1, <1>4, <1>6
<1>10. p * a + Two(box, q, cell) \in p * a .. p * (a + all) - 1  BY <1>7, <1>8, <1>9
<1>. QED BY <1>5, <1>6, <1>10 DEF p, a

IsPlace(v, B, K, f, grids) ==
  \E n \in 1 .. Len(grids), b \in 0 .. B - 1, c \in 0 .. K - 1 :
    \E y \in 0 .. grids[n] - 1, x \in 0 .. grids[n] - 1 :
      v = Place(B, K, f, grids[n], n, b, c, y, x)

LEMMA PlaceExists ==
  ASSUME NEW grids \in Seq(Nat), NEW f, Sums(f, grids), NEW B \in Nat, NEW K \in Nat,
         NEW v \in 0 .. (B * K) * f[Len(grids)] - 1
  PROVE  IsPlace(v, B, K, f, grids)
<1> DEFINE p == B * K
           Above == {n \in 0 .. Len(grids) : v < p * f[n]}
<1>1. p \in Nat /\ f \in [0 .. Len(grids) -> Nat] /\ f[0] = 0  BY DEF Sums
<1>2. \A n \in 0 .. Len(grids) : p * f[n] \in Nat
  <2> HIDE DEF p
  <2>. QED BY <1>1
<1>3. Len(grids) \in Above /\ Above \subseteq Nat  BY <1>2
<1>4. PICK n \in Above : \A m \in Above : n <= m
  <2> HIDE DEF Above
  <2>. QED BY <1>3, LeastNatural
<1>5. n # 0
  <2>1. p * f[0] = 0  BY <1>1
  <2>. QED BY <1>4, <2>1
<1>6. n \in 1 .. Len(grids) /\ n - 1 \in 0 .. Len(grids)  BY <1>4, <1>5
<1>7. ~ (v < p * f[n - 1])  BY <1>4, <1>6
<1>8. v < p * f[n]  BY <1>4
<1> DEFINE g == grids[n]
           q == g * g
           a == f[n - 1]
<1>9. g \in Nat /\ q \in Nat /\ a \in Nat /\ f[n] = a + q  BY <1>6, LayerFacts, Zenon
<1>10. v - p * a \in 0 .. p * q - 1
  <2> HIDE DEF p, q, a, g, Above
  <2>1. p * (a + q) = p * a + p * q /\ p * a \in Nat /\ p * q \in Nat  BY <1>1, <1>9
  <2>2. p * a <= v  BY <1>7, <2>1 DEF a
  <2>3. v < p * a + p * q  BY <1>8, <1>9, <2>1
  <2>. QED BY <2>1, <2>2, <2>3
<1>11. PICK box \in 0 .. p - 1, cell \in 0 .. q - 1 : v - p * a = Two(box, q, cell)
  <2> HIDE DEF p, q, a, g, Above
  <2>. QED BY <1>1, <1>9, <1>10, TwoPlacesExist
<1>12. PICK b \in 0 .. B - 1, c \in 0 .. K - 1 : box = Two(b, K, c)  BY TwoPlacesExist DEF p
<1>13. PICK y \in 0 .. g - 1, x \in 0 .. g - 1 : cell = Two(y, g, x)
  <2> HIDE DEF g
  <2>. QED BY <1>9, TwoPlacesExist DEF q
<1>14. v = p * a + Two(box, q, cell)
  <2> HIDE DEF p, q, a, g, Above
  <2>1. p * a \in Nat  BY <1>1, <1>9
  <2>2. box \in Nat /\ Two(box, q, cell) \in Nat  BY <1>1, <1>9, TwoPlacesType
  <2>. QED BY <1>11, <2>1, <2>2
<1>15. v = Place(B, K, f, grids[n], n, b, c, y, x)
  BY <1>12, <1>13, <1>14, Zenon DEF Place, p, q, a, g
<1>. QED BY <1>6, <1>13, <1>15, Zenon DEF IsPlace, g

\* The same in layer n.
Slot(B, K, grids, n, b, c, y, x) == n \in 1 .. Len(grids) /\ Within(B, K, grids[n], b, c, y, x)

LEMMA PlaceUnique ==
  ASSUME NEW grids \in Seq(Nat), NEW f, Sums(f, grids), NEW B \in Nat, NEW K \in Nat,
         NEW n, NEW b, NEW c, NEW y, NEW x, Slot(B, K, grids, n, b, c, y, x),
         NEW m, NEW d, NEW e, NEW w, NEW u, Slot(B, K, grids, m, d, e, w, u),
         Place(B, K, f, grids[n], n, b, c, y, x) = Place(B, K, f, grids[m], m, d, e, w, u)
  PROVE  n = m /\ b = d /\ c = e /\ y = w /\ x = u
<1> USE DEF Slot, Within
<1> DEFINE p == B * K
           at == Place(B, K, f, grids[n], n, b, c, y, x)
<1>1. p \in Nat /\ f \in [0 .. Len(grids) -> Nat]  BY DEF Sums
<1>2. ASSUME NEW i \in 0 .. Len(grids) PROVE p * f[i] \in Nat
  <2> HIDE DEF p
  <2>1. f[i] \in Nat  BY <1>1
  <2>. QED BY <1>1, <2>1, ProductNat, Zenon
<1>3. ASSUME NEW i \in 1 .. Len(grids), NEW j \in 1 .. Len(grids), i < j
      PROVE  p * f[i] <= p * f[j - 1]
  <2>1. f[i] <= f[j - 1] /\ f[i] \in Nat /\ f[j - 1] \in Nat
    BY <1>1, <1>3, i <= j - 1, i \in 0 .. Len(grids), j - 1 \in 0 .. Len(grids), SumsMonotone
  <2> HIDE DEF p
  <2>2. f[i] * p <= f[j - 1] * p  BY <1>1, <2>1, ProductMonotone
  <2>. QED BY <1>1, <2>1, <2>2
<1>4. at \in p * f[n - 1] .. p * f[n] - 1
  <2>1. grids[n] \in Nat /\ grids[n] <= grids[n]  OBVIOUS
  <2>. QED BY <2>1, PlaceInLayer
<1>5. at \in p * f[m - 1] .. p * f[m] - 1
  <2>1. grids[m] \in Nat /\ grids[m] <= grids[m]  OBVIOUS
  <2>. QED BY <2>1, PlaceInLayer
<1>6. n = m
  <2> HIDE DEF p, at
  <2>1. n - 1 \in 0 .. Len(grids) /\ m - 1 \in 0 .. Len(grids) /\ n \in 0 .. Len(grids)
        /\ m \in 0 .. Len(grids)
    OBVIOUS
  <2>2. {p * f[n - 1], p * f[n], p * f[m - 1], p * f[m]} \subseteq Nat  BY <1>2, <2>1
  <2>3. n < m => p * f[n] <= p * f[m - 1]  BY <1>3
  <2>4. m < n => p * f[m] <= p * f[n - 1]  BY <1>3
  <2>5. ~ (p * f[n] <= p * f[m - 1]) /\ ~ (p * f[m] <= p * f[n - 1])
    BY <1>4, <1>5, <2>2, Apart, Zenon
  <2>. QED BY <2>3, <2>4, <2>5
<1> DEFINE g == grids[n]
           q == g * g
           a == p * f[n - 1]
           box == Two(b, K, c)
           cell == Two(y, g, x)
           box2 == Two(d, K, e)
           cell2 == Two(w, g, u)
<1>7. g \in Nat /\ q \in Nat /\ a \in Nat
  <2>1. n - 1 \in 0 .. Len(grids)  OBVIOUS
  <2>2. g \in Nat /\ q \in Nat  BY LayerFacts, Zenon
  <2>. QED BY <1>2, <2>1, <2>2
<1>8. cell \in 0 .. q - 1 /\ cell2 \in 0 .. q - 1  BY <1>6, <1>7, TwoPlacesBound
<1>9. box \in 0 .. p - 1 /\ box2 \in 0 .. p - 1  BY TwoPlacesBound
<1>10. a + Two(box, q, cell) = a + Two(box2, q, cell2)  BY <1>6, Zenon DEF Place
<1>11. box = box2 /\ cell = cell2
  <2> HIDE DEF p, g, q, a, box, cell, box2, cell2
  <2>1. box \in Nat /\ box2 \in Nat  BY <1>9
  <2>2. Two(box, q, cell) \in Nat /\ Two(box2, q, cell2) \in Nat
    BY <1>7, <1>8, <2>1, TwoPlacesType
  <2>3. Two(box, q, cell) = Two(box2, q, cell2)  BY <1>7, <1>10, <2>2
  <2>4. q \in Nat /\ cell \in 0 .. q - 1 /\ cell2 \in 0 .. q - 1  BY <1>7, <1>8
  <2>. QED BY <2>1, <2>3, <2>4, TwoPlacesUnique, SMTT(60)
<1>12. b = d /\ c = e
  <2>1. b \in Nat /\ d \in Nat  OBVIOUS
  <2>. QED BY <1>11, <2>1, TwoPlacesUnique
<1>13. y = w /\ x = u
  <2>1. y \in Nat /\ w \in Nat  OBVIOUS
  <2>2. w \in 0 .. g - 1 /\ u \in 0 .. g - 1 /\ Two(y, g, x) = Two(w, g, u)  BY <1>6, <1>11
  <2>3. y \in 0 .. g - 1 /\ x \in 0 .. g - 1  OBVIOUS
  <2> HIDE DEF g
  <2>4. Two(y, g, x) = Two(w, g, u) /\ g \in Nat  BY <1>7, <2>2
  <2>. QED BY <2>1, <2>2, <2>3, <2>4, TwoPlacesUnique
<1>. QED BY <1>6, <1>12, <1>13

-----------------------------------------------------------------------------
(* The values that are read                                                *)

\* The place of a value, as Offset and IndexOf add it up.
Laid(p, b, K, c, g, y, x) == p + b * K * g * g + y * g + x + c * g * g

LEMMA OffsetsAdd ==
  ASSUME NEW p, NEW b, NEW K, NEW c, NEW g, NEW y, NEW x, {p, b, K, c, g, y, x} \subseteq Nat
  PROVE  Laid(p, b, K, c, g, y, x) = p + Two(Two(b, K, c), g * g, Two(y, g, x))
<1> DEFINE q == g * g
           i == b * K
<1>1. b * K * g * g = i * q /\ c * g * g = c * q  OBVIOUS
<1>2. q \in Nat /\ i \in Nat  OBVIOUS
<1>3. Two(Two(b, K, c), q, Two(y, g, x)) = (i + c) * q + (y * g + x)  BY DEF Two
<1> HIDE DEF q, i
<1>4. (i + c) * q = i * q + c * q /\ i * q \in Nat /\ c * q \in Nat /\ y * g \in Nat  BY <1>2
<1> HIDE DEF q, i
<1>5. p + i * q + y * g + x + c * q = p + Two(Two(b, K, c), q, Two(y, g, x))  BY <1>3, <1>4
<1>. QED BY <1>1, <1>5 DEF q, Laid

\* The layout of a network before version 8, with the files read once.
Layers ==
  /\ net.version # "8"
  /\ num_grids \in Seq(Nat) /\ labels \in Nat /\ num_bb \in Nat
  /\ item_size = Channels
  /\ net.out = num_bb * (item_size * SumGrids(num_grids))

LEMMA GridType ==
  ASSUME num_grids \in Seq(Nat), NEW n \in DOMAIN num_grids
  PROVE  /\ Grid(n) \in Nat /\ Grid(n) <= num_grids[n]
         /\ num_grids[n] <= 255 => Grid(n) = num_grids[n]
<1>1. PICK g \in Nat : g = num_grids[n]  OBVIOUS
<1>2. g % 256 \in Nat /\ g % 256 <= g /\ (g <= 255 => g % 256 = g)  OBVIOUS
<1>. QED BY <1>1, <1>2 DEF Grid

LEMMA LayerCells ==
  ASSUME net.version # "8"
  PROVE  /\ \A n \in DOMAIN num_grids, b \in 0 .. num_bb - 1 :
              \A y, x \in 0 .. Grid(n) - 1 : <<n, b, y, x>> \in Cells
         /\ \A cell \in Cells : \E n \in DOMAIN num_grids, b \in 0 .. num_bb - 1 :
              \E y, x \in 0 .. Grid(n) - 1 : cell = <<n, b, y, x>>
<1> DEFINE In(n) == {<<n, b, y, x>> : b \in 0 .. num_bb - 1,
                                      y \in 0 .. Grid(n) - 1, x \in 0 .. Grid(n) - 1}
<1>1. Cells = UNION {In(n) : n \in DOMAIN num_grids}  BY DEF Cells
<1>2. ASSUME NEW n \in DOMAIN num_grids, NEW b \in 0 .. num_bb - 1,
             NEW y \in 0 .. Grid(n) - 1, NEW x \in 0 .. Grid(n) - 1
      PROVE  <<n, b, y, x>> \in Cells
  <2>1. <<n, b, y, x>> \in In(n)  OBVIOUS
  <2> HIDE DEF In
  <2>. QED BY <1>1, <2>1
<1>3. ASSUME NEW cell \in Cells
      PROVE  \E n \in DOMAIN num_grids, b \in 0 .. num_bb - 1 :
               \E y, x \in 0 .. Grid(n) - 1 : cell = <<n, b, y, x>>
  <2>1. PICK n \in DOMAIN num_grids : cell \in In(n)
    <3> HIDE DEF In
    <3>. QED BY <1>1
  <2>2. PICK b \in 0 .. num_bb - 1, y \in 0 .. Grid(n) - 1, x \in 0 .. Grid(n) - 1 :
          cell = <<n, b, y, x>>
    BY <2>1
  <2>. QED BY <2>2
<1>. QED BY <1>2, <1>3

LEMMA ChannelsType == labels \in Nat => Channels \in Nat \ {0}
BY DEF Channels, Values

LEMMA IndexIsPlace ==
  ASSUME Layers, NEW f, Sums(f, num_grids), NEW n \in DOMAIN num_grids, NEW b \in 0 .. num_bb - 1,
         NEW y \in 0 .. Grid(n) - 1, NEW x \in 0 .. Grid(n) - 1, NEW c \in 0 .. Channels - 1
  PROVE  IndexOf(<<n, b, y, x>>, c) = Place(num_bb, Channels, f, Grid(n), n, b, c, y, x)
<1> DEFINE g == Grid(n)
           p == num_bb * Channels * f[n - 1]
<1>1. n \in 1 .. Len(num_grids)  BY DEF Layers
<1>2. SumGrids(SubSeq(num_grids, 1, n - 1)) = f[n - 1]  BY <1>1, SumOfLayersBefore DEF Layers
<1>3. IndexOf(<<n, b, y, x>>, c) = Laid(p, b, Channels, c, g, y, x)
  BY <1>2 DEF Laid, IndexOf, Offset, Layers
<1>4. g \in Nat /\ f[n - 1] \in Nat  BY <1>1, LayerFacts, GridType DEF Layers
<1>5. Channels \in Nat /\ num_bb \in Nat  BY ChannelsType DEF Layers
<1>6. p \in Nat  BY <1>4, <1>5
<1>7. b \in Nat /\ c \in Nat /\ y \in Nat /\ x \in Nat  OBVIOUS
<1> HIDE DEF g, p
<1>8. Laid(p, b, Channels, c, g, y, x)
        = p + Two(Two(b, Channels, c), g * g, Two(y, g, x))
  <2>1. {p, b, Channels, c, g, y, x} \subseteq Nat  BY <1>4, <1>5, <1>6, <1>7
  <2>. QED BY <2>1, OffsetsAdd
<1>9. Place(num_bb, Channels, f, Grid(n), n, b, c, y, x)
        = p + Two(Two(b, Channels, c), g * g, Two(y, g, x))
  BY DEF Place, p, g
<1>. QED BY <1>3, <1>8, <1>9

LEMMA OutIsSum ==
  ASSUME Layers, NEW f, Sums(f, num_grids)
  PROVE  /\ net.out = (num_bb * Channels) * f[Len(num_grids)]
         /\ net.out = (num_bb * f[Len(num_grids)]) * Channels
         /\ f[Len(num_grids)] \in Nat
<1>1. SumGrids(num_grids) = f[Len(num_grids)]  BY SumGridsIs DEF Layers
<1>2. f[Len(num_grids)] \in Nat  BY DEF Sums, Layers
<1>3. Channels \in Nat /\ num_bb \in Nat  BY ChannelsType DEF Layers
<1>4. net.out = num_bb * (Channels * f[Len(num_grids)])  BY <1>1 DEF Layers
<1> DEFINE s == f[Len(num_grids)]
<1> HIDE DEF s
<1>5. num_bb * (Channels * s) = (num_bb * Channels) * s
      /\ num_bb * (Channels * s) = (num_bb * s) * Channels
  BY <1>2, <1>3 DEF s
<1>. QED BY <1>2, <1>4, <1>5 DEF s

\* The grids fit in a uint8_t.
Narrow == \A n \in DOMAIN num_grids : num_grids[n] <= 255

\* Every read is of the output; when the grids fit, every value of the output
\* is read.
LEMMA LayersRead ==
  ASSUME Layers
  PROVE  /\ Reads \subseteq 0 .. net.out - 1
         /\ Narrow => Reads = 0 .. net.out - 1
         /\ \A cell \in Cells : IndexOf(cell, Channels - 1) < net.out
<1>1. PICK f : Sums(f, num_grids)  BY SumsExist DEF Layers
<1>2. DOMAIN num_grids = 1 .. Len(num_grids) /\ num_grids \in Seq(Nat) /\ net.version # "8"
  BY DEF Layers
<1>3. Channels \in Nat /\ Channels # 0 /\ num_bb \in Nat  BY ChannelsType DEF Layers
<1>4. ASSUME NEW cell \in Cells, NEW c \in 0 .. Channels - 1
      PROVE  IndexOf(cell, c) \in 0 .. net.out - 1
  <2>1. PICK n \in DOMAIN num_grids, b \in 0 .. num_bb - 1 :
          \E y, x \in 0 .. Grid(n) - 1 : cell = <<n, b, y, x>>
    BY <1>2, LayerCells
  <2>2. PICK y \in 0 .. Grid(n) - 1, x \in 0 .. Grid(n) - 1 : cell = <<n, b, y, x>>
    BY <2>1
  <2> DEFINE at == IndexOf(cell, c)
             p == num_bb * Channels
             L == Len(num_grids)
  <2>3. at = Place(num_bb, Channels, f, Grid(n), n, b, c, y, x)  BY <1>1, <2>2, IndexIsPlace
  <2>4. at \in p * f[n - 1] .. p * f[n] - 1
    <3>0. /\ Grid(n) \in Nat /\ Grid(n) <= num_grids[n]
          /\ Within(num_bb, Channels, Grid(n), b, c, y, x)
      BY <1>2, GridType DEF Within
    <3>1. Place(num_bb, Channels, f, Grid(n), n, b, c, y, x)
            \in (num_bb * Channels) * f[n - 1] .. (num_bb * Channels) * f[n] - 1
      BY <1>1, <1>2, <1>3, <3>0, PlaceInLayer, Zenon
    <3>. QED BY <2>3, <3>1
  <2>5. n \in 1 .. L /\ L \in 0 .. L /\ n \in 0 .. L /\ n <= L  BY <1>2
  <2>6. f[n] <= f[L]  BY <1>1, <1>2, <2>5, SumsMonotone
  <2>7. f[n - 1] \in Nat /\ f[n] \in Nat /\ f[L] \in Nat  BY <1>1, <1>2, <2>5, LayerFacts, OutIsSum
  <2>8. net.out = p * f[L]  BY <1>1, OutIsSum
  <2>9. p \in Nat  BY <1>3, ProductNat
  <2> HIDE DEF at, p, L
  <2>10. f[n] * p <= f[L] * p  BY <2>6, <2>7, <2>9, ProductMonotone
  <2>11. p * f[n - 1] \in Nat /\ p * f[n] = f[n] * p /\ p * f[L] = f[L] * p
         /\ p * f[n] \in Nat /\ p * f[L] \in Nat
    BY <2>7, <2>9
  <2>12. at \in 0 .. net.out - 1  BY <2>4, <2>8, <2>10, <2>11
  <2>. QED BY <2>12 DEF at
<1>5. ASSUME Narrow, NEW v \in 0 .. net.out - 1 PROVE v \in Reads
  <2>1. net.out = (num_bb * Channels) * f[Len(num_grids)]  BY <1>1, OutIsSum
  <2>2. PICK n \in 1 .. Len(num_grids), b \in 0 .. num_bb - 1, c \in 0 .. Channels - 1 :
          \E y \in 0 .. num_grids[n] - 1, x \in 0 .. num_grids[n] - 1 :
            v = Place(num_bb, Channels, f, num_grids[n], n, b, c, y, x)
    <3>1. v \in 0 .. (num_bb * Channels) * f[Len(num_grids)] - 1  BY <2>1
    <3>2. IsPlace(v, num_bb, Channels, f, num_grids)  BY <1>1, <1>2, <1>3, <3>1, PlaceExists
    <3>. QED BY <3>2, Zenon DEF IsPlace
  <2>3. PICK y \in 0 .. num_grids[n] - 1, x \in 0 .. num_grids[n] - 1 :
          v = Place(num_bb, Channels, f, num_grids[n], n, b, c, y, x)
    BY <2>2
  <2>4. n \in DOMAIN num_grids /\ Grid(n) = num_grids[n]  BY <1>2, <1>5, GridType DEF Narrow
  <2>5. y \in 0 .. Grid(n) - 1 /\ x \in 0 .. Grid(n) - 1  BY <2>3, <2>4
  <2>6. v = IndexOf(<<n, b, y, x>>, c)  BY <1>1, <2>3, <2>4, <2>5, IndexIsPlace
  <2>7. <<n, b, y, x>> \in Cells  BY <1>2, <2>4, <2>5, LayerCells
  <2>. QED BY <2>6, <2>7 DEF Reads
<1>6. Reads \subseteq 0 .. net.out - 1  BY <1>4 DEF Reads
<1>7. Channels - 1 \in 0 .. Channels - 1  BY <1>3
<1>8. ASSUME NEW cell \in Cells PROVE IndexOf(cell, Channels - 1) < net.out
  <2>1. IndexOf(cell, Channels - 1) \in 0 .. net.out - 1  BY <1>4, <1>7
  <2> DEFINE at == IndexOf(cell, Channels - 1)
  <2> HIDE DEF at
  <2>2. at \in 0 .. net.out - 1  BY <2>1 DEF at
  <2>3. net.out \in Int
    <3>1. f[Len(num_grids)] \in Nat  BY <1>1, OutIsSum
    <3>2. num_bb * f[Len(num_grids)] \in Nat  BY <1>3, <3>1, ProductNat
    <3>3. (num_bb * f[Len(num_grids)]) * Channels \in Nat  BY <1>3, <3>2, ProductNat
    <3>. QED BY <1>1, <3>3, OutIsSum
  <2>4. at < net.out  BY <2>2, <2>3
  <2>. QED BY <2>4 DEF at
<1>. QED BY <1>5, <1>6, <1>8

LEMMA CountedBy ==
  ASSUME NEW S, NEW size \in Nat, NEW h \in [S -> 0 .. size - 1],
         \A a, b \in S : h[a] = h[b] => a = b,
         \A v \in 0 .. size - 1 : \E a \in S : h[a] = v
  PROVE  Cardinality(S) = size
<1> DEFINE T == 0 .. size - 1
<1>1. h \in Bijection(S, T)  BY Fun_IsBij
<1>2. ExistsBijection(T, S)  BY <1>1, Fun_ExistsBijSymmetric DEF ExistsBijection
<1>3. IsFiniteSet(T) /\ Cardinality(T) = size  BY FS_Interval
<1> HIDE DEF T
<1>. QED BY <1>2, <1>3, FS_Bijection

\* One read of each cell for each channel is as many as there are values.
LEMMA LayersCounted == ASSUME Layers, Narrow PROVE Cardinality(Cells) * Channels = net.out
<1>1. PICK f : Sums(f, num_grids)  BY SumsExist DEF Layers
<1>2. DOMAIN num_grids = 1 .. Len(num_grids) /\ num_grids \in Seq(Nat) /\ net.version # "8"
      /\ num_bb \in Nat
  BY DEF Layers
<1> DEFINE size == num_bb * f[Len(num_grids)]
           At(n, b, y, x) == Place(num_bb, 1, f, num_grids[n], n, b, 0, y, x)
           In(n, b, y, x) == Slot(num_bb, 1, num_grids, n, b, 0, y, x)
           h == [cell \in Cells |-> At(cell[1], cell[2], cell[3], cell[4])]
<1>3. f[Len(num_grids)] \in Nat /\ net.out = size * Channels  BY <1>1, OutIsSum
<1>4. size \in Nat  BY <1>2, <1>3, ProductNat
<1>5. size = (num_bb * 1) * f[Len(num_grids)]  BY <1>2
<1>6. ASSUME NEW cell \in Cells
      PROVE  \E n, b, y, x : In(n, b, y, x) /\ cell = <<n, b, y, x>>
  <2>1. PICK n \in DOMAIN num_grids, b \in 0 .. num_bb - 1 :
          \E y, x \in 0 .. Grid(n) - 1 : cell = <<n, b, y, x>>
    BY <1>2, LayerCells
  <2>2. PICK y \in 0 .. Grid(n) - 1, x \in 0 .. Grid(n) - 1 : cell = <<n, b, y, x>>
    BY <2>1
  <2>3. Grid(n) = num_grids[n]  BY <1>2, GridType DEF Narrow
  <2>4. In(n, b, y, x)  BY <1>2, <2>3 DEF Slot, Within
  <2>. QED BY <2>2, <2>4
<1>7. ASSUME NEW n, NEW b, NEW y, NEW x, In(n, b, y, x)
      PROVE  <<n, b, y, x>> \in Cells /\ At(n, b, y, x) \in 0 .. size - 1
  <2>1. n \in 1 .. Len(num_grids) /\ b \in 0 .. num_bb - 1 /\ 0 \in 0 .. 1 - 1
        /\ y \in 0 .. num_grids[n] - 1 /\ x \in 0 .. num_grids[n] - 1
    BY <1>7 DEF Slot, Within
  <2>2. <<n, b, y, x>> \in Cells
    <3>1. n \in DOMAIN num_grids /\ Grid(n) = num_grids[n]  BY <1>2, <2>1, GridType DEF Narrow
    <3>2. y \in 0 .. Grid(n) - 1 /\ x \in 0 .. Grid(n) - 1  BY <2>1, <3>1
    <3>. QED BY <1>2, <2>1, <3>1, <3>2, LayerCells
  <2>3. At(n, b, y, x) \in (num_bb * 1) * f[n - 1] .. (num_bb * 1) * f[n] - 1
    <3>1. num_grids[n] \in Nat /\ num_grids[n] <= num_grids[n] /\ 1 \in Nat  BY <1>2, <2>1
    <3>2. Within(num_bb, 1, num_grids[n], b, 0, y, x)  BY <1>7 DEF Slot
    <3>. QED BY <1>1, <1>2, <2>1, <3>1, <3>2, PlaceInLayer, Zenon
  <2>4. num_bb * 1 = num_bb  BY <1>2
  <2>5. f[n] <= f[Len(num_grids)]  BY <1>1, <1>2, <2>1, SumsMonotone
  <2>6. f[n - 1] \in Nat /\ f[n] \in Nat  BY <1>1, <1>2, <2>1, LayerFacts
  <2> DEFINE at == At(n, b, y, x)
  <2> HIDE DEF at
  <2>7. at \in num_bb * f[n - 1] .. num_bb * f[n] - 1  BY <2>3, <2>4 DEF at
  <2>8. f[n] * num_bb <= f[Len(num_grids)] * num_bb  BY <1>2, <1>3, <2>5, <2>6, ProductMonotone
  <2>9. /\ num_bb * f[n - 1] \in Nat /\ num_bb * f[n] = f[n] * num_bb
        /\ size = f[Len(num_grids)] * num_bb /\ num_bb * f[n] \in Nat
    BY <1>2, <1>3, <2>6
  <2>10. at \in 0 .. size - 1
    <3> HIDE DEF size
    <3>. QED BY <1>4, <2>7, <2>8, <2>9
  <2>. QED BY <2>2, <2>10 DEF at
<1>8. \A n, b, y, x : <<n, b, y, x>> \in Cells => h[<<n, b, y, x>>] = At(n, b, y, x)
  <2> HIDE DEF At
  <2>. QED OBVIOUS
<1>9. h \in [Cells -> 0 .. size - 1]
  <2>1. ASSUME NEW cell \in Cells PROVE At(cell[1], cell[2], cell[3], cell[4]) \in 0 .. size - 1
    <3>1. PICK n, b, y, x : In(n, b, y, x) /\ cell = <<n, b, y, x>>  BY <1>6
    <3> HIDE DEF At, In, size
    <3>. QED BY <1>7, <3>1
  <2> HIDE DEF At, size
  <2>. QED BY <2>1
<1>10. ASSUME NEW one \in Cells, NEW two \in Cells, h[one] = h[two] PROVE one = two
  <2>1. PICK n, b, y, x : In(n, b, y, x) /\ one = <<n, b, y, x>>  BY <1>6
  <2>2. PICK m, d, w, u : In(m, d, w, u) /\ two = <<m, d, w, u>>  BY <1>6
  <2>3. At(n, b, y, x) = At(m, d, w, u)
    <3> HIDE DEF At, h
    <3>. QED BY <1>8, <1>10, <2>1, <2>2
  <2>4. n = m /\ b = d /\ y = w /\ x = u  BY <1>1, <1>2, <2>1, <2>2, <2>3, PlaceUnique, SMTT(60)
  <2>. QED BY <2>1, <2>2, <2>4
<1>11. ASSUME NEW v \in 0 .. size - 1 PROVE \E cell \in Cells : h[cell] = v
  <2>1. IsPlace(v, num_bb, 1, f, num_grids)  BY <1>1, <1>2, <1>5, PlaceExists
  <2>2. PICK n \in 1 .. Len(num_grids), b \in 0 .. num_bb - 1, c \in 0 .. 1 - 1 :
          \E y \in 0 .. num_grids[n] - 1, x \in 0 .. num_grids[n] - 1 :
            v = Place(num_bb, 1, f, num_grids[n], n, b, c, y, x)
    BY <2>1, Zenon DEF IsPlace
  <2>3. PICK y \in 0 .. num_grids[n] - 1, x \in 0 .. num_grids[n] - 1 :
          v = Place(num_bb, 1, f, num_grids[n], n, b, c, y, x)
    BY <2>2
  <2>4. c = 0  OBVIOUS
  <2>5. In(n, b, y, x)  BY <2>4 DEF Slot, Within
  <2>6. v = At(n, b, y, x)  BY <2>3, <2>4
  <2> HIDE DEF At, In, h
  <2>. QED BY <1>7, <1>8, <2>5, <2>6
<1> HIDE DEF size, h
<1>12. Cardinality(Cells) = size  BY <1>4, <1>9, <1>10, <1>11, CountedBy
<1>. QED BY <1>3, <1>12

-----------------------------------------------------------------------------

\* The layout of a version 8 network: all the values of a channel, one
\* after the other.
Columns ==
  /\ net.version = "8"
  /\ labels \in Nat /\ sum_grids \in Nat
  /\ item_size = Channels
  /\ net.out = sum_grids * item_size

LEMMA ColumnsRead ==
  ASSUME Columns
  PROVE  Reads = 0 .. net.out - 1 /\ Cardinality(Cells) * Channels = net.out
<1>1. Channels \in Nat /\ sum_grids \in Nat  BY ChannelsType DEF Columns
<1>2. net.out = Channels * sum_grids  BY <1>1 DEF Columns
<1>3. Cells = {<<i, 0, 0, 0>> : i \in 0 .. sum_grids - 1}  BY DEF Cells, Columns
<1>4. ASSUME NEW i, NEW c PROVE IndexOf(<<i, 0, 0, 0>>, c) = Two(c, sum_grids, i)
  BY DEF IndexOf, Columns, Two
<1>5. ASSUME NEW cell \in Cells, NEW c \in 0 .. Channels - 1
      PROVE  IndexOf(cell, c) \in 0 .. net.out - 1
  <2>1. PICK i \in 0 .. sum_grids - 1 : cell = <<i, 0, 0, 0>>  BY <1>3
  <2>2. Two(c, sum_grids, i) \in 0 .. Channels * sum_grids - 1  BY <1>1, TwoPlacesBound
  <2>. QED BY <1>2, <1>4, <2>1, <2>2
<1>6. ASSUME NEW v \in 0 .. net.out - 1 PROVE v \in Reads
  <2>1. v \in 0 .. Channels * sum_grids - 1  BY <1>2
  <2>2. PICK c \in 0 .. Channels - 1, i \in 0 .. sum_grids - 1 : v = Two(c, sum_grids, i)
    BY <1>1, <2>1, TwoPlacesExist
  <2>3. <<i, 0, 0, 0>> \in Cells  BY <1>3
  <2>4. v = IndexOf(<<i, 0, 0, 0>>, c)  BY <1>4, <2>2
  <2>. QED BY <2>3, <2>4 DEF Reads
<1>7. Reads = 0 .. net.out - 1
  <2>1. Reads \subseteq 0 .. net.out - 1  BY <1>5 DEF Reads
  <2>. QED BY <1>6, <2>1
<1> DEFINE h == [cell \in Cells |-> cell[1]]
<1>8. Cardinality(Cells) = sum_grids
  <2>1. h \in [Cells -> 0 .. sum_grids - 1]  BY <1>3
  <2>2. \A one, two \in Cells : h[one] = h[two] => one = two  BY <1>3
  <2>3. ASSUME NEW v \in 0 .. sum_grids - 1 PROVE \E cell \in Cells : h[cell] = v
    <3>1. <<v, 0, 0, 0>> \in Cells /\ h[<<v, 0, 0, 0>>] = v  BY <1>3
    <3>. QED BY <3>1
  <2> HIDE DEF h
  <2>. QED BY <1>1, <2>1, <2>2, <2>3, CountedBy
<1>. QED BY <1>1, <1>2, <1>7, <1>8

-----------------------------------------------------------------------------
(* The layout that open_resource works out                                 *)

Empty == labels = 0 /\ anchors = 0 /\ num_grids = <<>>

\* The files have been read once.
Complete ==
  /\ labels = net.labels
  /\ item_size = ItemSize(labels)
  /\ net.version = "8" => item_size # 0 /\ sum_grids = net.out \div item_size
  /\ net.version # "8" =>
       /\ anchors = net.anchors /\ num_grids = net.grids
       /\ item_size * SumGrids(num_grids) # 0
       /\ num_bb = NumBB(net.out, item_size, SumGrids(num_grids))

\* Up to the second CAPS event nothing is decoded before the files are read.
Opening ==
  /\ stream = "labels" => Empty
  /\ stream = "grids" =>
       /\ net.version # "8"
       /\ labels = net.labels /\ item_size = ItemSize(labels)
       /\ anchors = 0 /\ num_grids = <<>>
  /\ stream \in {"labels", "grids", "region"} => infer = "idle"
  /\ stream \in {"region", "idle", "want", "render"} => Complete

LayoutInv ==
  /\ stream = "options" <=> caps = 0
  /\ stream = "crashed" => infer = "crashed"
  /\ caps = 0 => Empty /\ infer = "idle"
  /\ caps = 1 => Opening

LEMMA LayoutInit == Init => LayoutInv
BY DEF Init, LayoutInv, Empty

LEMMA LayoutStep == Counts /\ Places /\ LayoutInv /\ [Next]_vars => LayoutInv'
<1> SUFFICES ASSUME Counts, Places, LayoutInv, [Next]_vars PROVE LayoutInv'
  OBVIOUS
<1> USE DEF setting, layout
<1>0. caps \in Nat /\ net \in Networks  BY PostBounds DEF Counts, Places
<1>1. CASE SetProperty
  <2>1. ASSUME NEW key, NEW f, NEW r, NEW twice, SetOption(key, f, r, twice)
        PROVE  /\ UNCHANGED <<net, caps, labels, anchors, num_grids, stream, infer>>
               /\ stream = "options"
    BY <2>1, Zenon DEF SetOption
  <2>2. UNCHANGED <<net, caps, labels, anchors, num_grids, stream, infer>> /\ stream = "options"
    BY <1>1, <2>1 DEF SetProperty
  <2>. QED BY <2>2 DEF LayoutInv, Empty
<1>2. CASE BeginOpen
  <2>1. /\ UNCHANGED <<net, labels, anchors, num_grids, infer>> /\ caps' = caps + 1
        /\ stream \in {"options", "idle"} /\ stream' = "labels"
    BY <1>2, Zenon DEF BeginOpen
  <2>2. caps' = 1 => caps = 0  BY <1>0, <2>1
  <2>3. caps' # 0  BY <1>0, <2>1
  <2>. QED BY <2>1, <2>2, <2>3 DEF LayoutInv, Opening, Empty
<1>3. CASE LoadLabels
  <2>1. stream = "labels" /\ UNCHANGED <<net, caps, anchors, num_grids>>
    BY <1>3, Zenon DEF LoadLabels
  <2>2. CASE Crash
    <3>. QED BY <2>1, <2>2 DEF LayoutInv, Opening, Crash
  <2>3. CASE ~Crash
    <3>1. labels' = labels + net.labels /\ item_size' = ItemSize(labels')
      BY <1>3, <2>3 DEF LoadLabels
    <3>2. net.version # "8" => stream' = "grids" /\ infer' = infer
      BY <1>3, <2>3 DEF LoadLabels
    <3>3. net.version = "8" => /\ item_size' # 0 /\ sum_grids' = net.out \div item_size'
                               /\ stream' = "region" /\ infer' = infer
      BY <1>3, <2>3 DEF LoadLabels
    <3>4. stream' \in {"grids", "region"} /\ infer' = infer  BY <3>2, <3>3
    <3>5. ItemSize(labels)' = ItemSize(labels')  BY <2>1 DEF ItemSize, Values
    <3>6. CASE caps = 1
      <4>1. Empty /\ infer = "idle"  BY <2>1, <3>6 DEF LayoutInv, Opening
      <4>2. labels' = net.labels  BY <1>0, <3>1, <4>1, NetworksAssumption DEF Empty
      <4>3. Opening'
        BY <2>1, <3>1, <3>2, <3>3, <3>4, <3>5, <4>1, <4>2 DEF Opening, Complete, Empty
      <4>. QED BY <2>1, <3>4, <3>6, <4>3 DEF LayoutInv
    <3>7. CASE caps # 1
      <4>1. caps # 0  BY <2>1 DEF LayoutInv
      <4>. QED BY <2>1, <3>4, <3>7, <4>1 DEF LayoutInv
    <3>. QED BY <3>6, <3>7
  <2>. QED BY <2>2, <2>3
<1>4. CASE LoadGrids
  <2>1. stream = "grids" /\ UNCHANGED <<net, caps, labels, item_size>>
    BY <1>4, Zenon DEF LoadGrids
  <2>2. CASE Crash
    <3>. QED BY <2>1, <2>2 DEF LayoutInv, Opening, Crash
  <2>3. CASE ~Crash
    <3>1. /\ anchors' = anchors + net.anchors /\ num_grids' = num_grids \o net.grids
          /\ sum_grids' = SumGrids(num_grids') /\ item_size * sum_grids' # 0
          /\ num_bb' = NumBB(net.out, item_size, sum_grids')
          /\ stream' = "region" /\ infer' = infer
      BY <1>4, <2>3, Zenon DEF LoadGrids
    <3>2. ItemSize(labels)' = ItemSize(labels)  BY <2>1 DEF ItemSize, Values
    <3>3. CASE caps = 1
      <4>1. /\ net.version # "8" /\ labels = net.labels /\ item_size = ItemSize(labels)
            /\ anchors = 0 /\ num_grids = <<>> /\ infer = "idle"
        BY <2>1, <3>3 DEF LayoutInv, Opening
      <4>2. net.anchors \in Nat /\ net.grids \in Seq(Nat)  BY <1>0, NetworksAssumption
      <4>3. anchors' = net.anchors /\ num_grids' = net.grids  BY <3>1, <4>1, <4>2
      <4>4. Complete'
        <5>1. /\ item_size' * SumGrids(num_grids') # 0
              /\ num_bb' = NumBB(net.out, item_size', SumGrids(num_grids'))
          BY <2>1, <3>1
        <5>. QED BY <2>1, <3>2, <4>1, <4>3, <5>1, Zenon DEF Complete, NumBB
      <4>5. Opening'  BY <3>1, <4>1, <4>4 DEF Opening
      <4>. QED BY <2>1, <3>1, <3>3, <4>5 DEF LayoutInv
    <3>4. CASE caps # 1
      <4>1. caps # 0  BY <2>1 DEF LayoutInv
      <4>. QED BY <2>1, <3>1, <3>4, <4>1 DEF LayoutInv
    <3>. QED BY <3>3, <3>4
  <2>. QED BY <2>2, <2>3
<1>5. CASE UNCHANGED <<net, caps, layout>> /\ infer' = infer
           /\ (stream' = stream \/ (stream = "region" /\ stream' = "idle")
               \/ {stream, stream'} \subseteq {"idle", "want", "render"})
  <2>1. Complete' = Complete /\ Empty' = Empty /\ ItemSize(labels)' = ItemSize(labels)
    BY <1>5 DEF Complete, Empty, ItemSize, Values, NumBB
  <2>. QED BY <1>5, <2>1 DEF LayoutInv, Opening
<1>6. CASE UNCHANGED <<net, caps, layout, stream>> /\ caps > 0 /\ stream # "crashed"
           /\ (caps = 1 => stream \in {"idle", "want", "render"})
  <2>1. Complete' = Complete  BY <1>6 DEF Complete, ItemSize, Values, NumBB
  <2>. QED BY <1>6, <2>1 DEF LayoutInv, Opening
<1>12. CASE UNCHANGED <<net, caps, layout>> /\ Crash /\ caps # 0
  BY <1>12 DEF LayoutInv, Opening, Crash
<1>7. CASE EndOpen
  <2>1. UNCHANGED <<net, caps, layout>> /\ stream = "region"  BY <1>7, Zenon DEF EndOpen
  <2>2. (stream' = "idle" /\ infer' = infer) \/ Crash  BY <1>7, Zenon DEF EndOpen
  <2>. QED BY <1>5, <1>12, <2>1, <2>2 DEF LayoutInv
<1>8. CASE BeginExtract
  <2>1. UNCHANGED <<net, caps, layout, stream>> /\ infer = "idle"
        /\ (caps > 1 \/ stream \in {"idle", "want", "render"})
    BY <1>8, Zenon DEF BeginExtract
  <2>. QED BY <1>0, <1>6, <2>1 DEF LayoutInv
<1>9. CASE ExtractNext \/ GetJson
  <2>1. UNCHANGED <<net, caps, layout>> /\ (stream' = stream \/ Crash)
    BY <1>9, Zenon DEF ExtractNext, Decode, Filter, BeginTrack, EndTrack, EndExtract, GetJson
  <2>2. infer # "idle" /\ infer # "crashed"
    BY <1>9 DEF ExtractNext, Decode, Filter, BeginTrack, EndTrack, EndExtract, GetJson
  <2>3. caps = 1 => stream \in {"idle", "want", "render"}
    BY <2>2 DEF LayoutInv, Opening, Places
  <2>4. caps # 0 /\ stream # "crashed"  BY <2>2 DEF LayoutInv
  <2>. QED BY <1>0, <1>6, <1>12, <2>1, <2>3, <2>4
<1>10. CASE Frame \/ BeginRender \/ EndRender
  <2>1. UNCHANGED <<net, caps, layout, infer>>
    BY <1>10, Zenon DEF Frame, BeginRender, EndRender
  <2>2. {stream, stream'} \subseteq {"idle", "want", "render"}
    BY <1>10 DEF Frame, BeginRender, EndRender
  <2>. QED BY <1>5, <2>1, <2>2
<1>11. CASE Stopped \/ UNCHANGED vars
  <2>1. UNCHANGED <<net, caps, layout, stream, infer>>
    BY <1>11, Zenon DEF Stopped, vars
  <2>. QED BY <1>5, <2>1
<1>. QED BY <1>1, <1>2, <1>3, <1>4, <1>7, <1>8, <1>9, <1>10, <1>11 DEF Next, OpenNext

\* While the first layout is in use it is one of the two.
Decoding == infer = "decode" /\ caps = 1

LEMMA DecodingComplete == Places /\ LayoutInv /\ Decoding => Complete
BY DEF Decoding, Places, LayoutInv, Opening

LEMMA WholeBoxes ==
  ASSUME NEW boxes \in Nat, NEW size \in Nat \ {0}
  PROVE  (boxes * size) \div size = boxes
<1> DEFINE out == boxes * size
           q == out \div size
           r == out % size
<1>1. out \in Nat  OBVIOUS
<1> HIDE DEF out
<1>2. q \in Nat /\ r \in 0 .. size - 1 /\ out = size * q + r  BY <1>1
<1> HIDE DEF q, r
<1>3. Two(boxes, size, 0) = Two(q, size, r)  BY <1>2 DEF Two, out
<1>4. boxes = q  BY <1>2, <1>3, TwoPlacesUnique
<1>. QED BY <1>4 DEF q, out

LEMMA ItemFits ==
  ASSUME labels \in Nat, item_size = ItemSize(labels), Channels <= 255
  PROVE  item_size = Channels
<1>1. Channels \in Nat  BY ChannelsType
<1>2. item_size = Channels % 256  BY DEF ItemSize, Channels
<1>. QED BY <1>1, <1>2

LEMMA NetworkFacts ==
  ASSUME net \in Networks
  PROVE  /\ net.labels \in Nat /\ net.anchors \in Nat /\ net.grids \in Seq(Nat) /\ net.out \in Nat
         /\ Belong(net)
BY NetworksAssumption, FilesAssumption

LEMMA CompleteColumns ==
  ASSUME Counts, Places, Complete, Channels <= 255, net.version = "8"
  PROVE  Columns
<1>1. net \in Networks /\ labels \in Nat /\ labels = net.labels  BY DEF Counts, Places, Complete
<1>2. item_size = Channels  BY <1>1, ItemFits DEF Complete
<1>3. Channels \in Nat \ {0}  BY <1>1, ChannelsType
<1>4. PICK boxes \in Nat : net.out = boxes * Channels
  <2>1. \E boxes \in 0 .. net.out : net.out = boxes * Values(net.version, net.labels)
    BY <1>1, NetworkFacts DEF Belong
  <2>. QED BY <1>1, <2>1 DEF Channels
<1>5. sum_grids = boxes
  <2>1. sum_grids = (boxes * Channels) \div Channels  BY <1>2, <1>4 DEF Complete
  <2>. QED BY <1>3, <2>1, WholeBoxes
<1>. QED BY <1>1, <1>2, <1>4, <1>5 DEF Columns

LEMMA CompleteLayers ==
  ASSUME Counts, Places, Complete, Channels <= 255, net.version # "8"
  PROVE  Layers /\ anchors >= 2 * num_bb * Len(num_grids)
<1>1. net \in Networks /\ labels \in Nat /\ labels = net.labels /\ num_grids = net.grids
      /\ anchors = net.anchors
  BY DEF Counts, Places, Complete
<1>2. item_size = Channels  BY <1>1, ItemFits DEF Complete
<1>3. Channels \in Nat \ {0}  BY <1>1, ChannelsType
<1> DEFINE cells == SumGrids(num_grids)
           size == Channels * cells
<1>4. num_grids \in Seq(Nat)  BY <1>1, NetworkFacts
<1>5. cells \in Nat  BY <1>4, SumGridsType
<1>6. cells # 0 /\ size # 0 /\ num_bb = net.out \div size
  <2>1. item_size * cells # 0 /\ num_bb = net.out \div (item_size * cells)  BY DEF Complete, NumBB
  <2> HIDE DEF cells
  <2>. QED BY <1>2, <1>3, <1>5, <2>1
<1>7. PICK boxes \in Nat : net.out = boxes * size /\ net.anchors >= 2 * boxes * Len(num_grids)
  <2>1. cells > 0  BY <1>5, <1>6
  <2>2. \E boxes \in 0 .. net.out :
          net.out = boxes * (Values(net.version, net.labels) * SumGrids(net.grids))
          /\ net.anchors >= 2 * boxes * Len(net.grids)
    BY <1>1, <2>1, NetworkFacts DEF Belong
  <2>3. Values(net.version, net.labels) = Channels /\ SumGrids(net.grids) = cells
    BY <1>1 DEF Channels
  <2>4. PICK boxes \in 0 .. net.out :
          net.out = boxes * (Values(net.version, net.labels) * SumGrids(net.grids))
          /\ net.anchors >= 2 * boxes * Len(net.grids)
    BY <2>2
  <2>5. net.out = boxes * size  BY <2>3, <2>4
  <2>6. net.anchors >= 2 * boxes * Len(num_grids)  BY <1>1, <2>4
  <2>7. boxes \in Nat  OBVIOUS
  <2> HIDE DEF size
  <2>. QED BY <2>5, <2>6, <2>7
<1>8. size \in Nat \ {0}
  <2> HIDE DEF cells
  <2>. QED BY <1>3, <1>5, <1>6
<1>9. num_bb = boxes
  <2>1. num_bb = (boxes * size) \div size  BY <1>6, <1>7
  <2> HIDE DEF size
  <2>. QED BY <1>8, <2>1, WholeBoxes
<1>10. Layers
  <2>1. net.out = num_bb * (item_size * SumGrids(num_grids))  BY <1>2, <1>7, <1>9, Zenon
  <2>2. num_bb \in Nat  BY <1>9
  <2>. QED BY <1>1, <1>2, <1>4, <2>1, <2>2 DEF Layers
<1>. QED BY <1>1, <1>7, <1>9, <1>10

\* The offsets of the layers stay within the anchors.
LEMMA AnchorsSuffice ==
  ASSUME NEW bb \in Nat, NEW layers \in Nat, NEW n \in 1 .. layers
  PROVE  ((2 * bb * (layers - n)) % 256) + 2 * (bb - 1) + 1 < 2 * bb * layers \/ bb = 0
<1> DEFINE left == 2 * bb * (layers - n)
<1>1. PICK k \in Nat : n = k + 1  BY n - 1 \in Nat
<1>2. 2 * bb * layers = left + 2 * bb * k + 2 * bb /\ left \in Nat /\ bb * k \in Nat
  <2>1. layers - n \in Nat  OBVIOUS
  <2>2. PICK m \in Nat : m = layers - n  BY <2>1
  <2>3. layers = m + (k + 1)  BY <1>1, <2>2
  <2>4. bb * m \in Nat /\ bb * k \in Nat /\ left = 2 * (bb * m)  BY <2>2
  <2>5. 2 * bb * layers = 2 * (bb * m) + 2 * (bb * k) + 2 * bb  BY <2>3
  <2>. QED BY <2>4, <2>5
<1> HIDE DEF left
<1>3. left % 256 <= left /\ left % 256 \in Nat  BY <1>2
<1>. QED BY <1>2, <1>3 DEF left

LEMMA CompleteDecodes ==
  ASSUME Counts, Places, Complete, Channels <= 255
  PROVE  ~DecodeThrows
<1>1. CASE net.version = "8"
  <2>1. Columns  BY <1>1, CompleteColumns
  <2>2. Channels \in Nat  BY ChannelsType DEF Counts
  <2>. QED BY <1>1, <2>1, <2>2 DEF DecodeThrows, Columns
<1>2. CASE net.version # "8"
  <2>1. Layers /\ anchors >= 2 * num_bb * Len(num_grids)  BY <1>2, CompleteLayers
  <2>2. ~ (\E cell \in Cells : IndexOf(cell, Channels - 1) >= net.out)
    <3>1. net.out \in Nat  BY NetworkFacts DEF Places
    <3>2. ASSUME NEW cell \in Cells PROVE ~ (IndexOf(cell, Channels - 1) >= net.out)
      <4> DEFINE at == IndexOf(cell, Channels - 1)
      <4>1. at < net.out /\ at \in Reads
        <5>1. Channels - 1 \in 0 .. Channels - 1  BY ChannelsType DEF Counts
        <5>. QED BY <2>1, <5>1, LayersRead DEF Reads
      <4>2. at \in 0 .. net.out - 1  BY <2>1, <4>1, LayersRead
      <4> HIDE DEF at
      <4>3. ~ (at >= net.out)  BY <3>1, <4>2
      <4>. QED BY <4>3 DEF at
    <3>. QED BY <3>2
  <2>3. ASSUME NEW cell \in Cells PROVE ~ (LastAnchor(cell[1]) >= anchors)
    <3>0. PICK n \in DOMAIN num_grids : n = cell[1]  BY <1>2, LayerCells
    <3>1. num_bb \in Nat /\ Len(num_grids) \in Nat /\ n \in 1 .. Len(num_grids)  BY <2>1 DEF Layers
    <3>2. anchors \in Nat  BY DEF Counts
    <3>3. LastAnchor(n) = ((2 * num_bb * (Len(num_grids) - n)) % 256) + 2 * (num_bb - 1) + 1
      BY DEF LastAnchor
    <3>4. CASE num_bb = 0
      <4>1. LastAnchor(n) = -1  BY <3>1, <3>3, <3>4
      <4>. QED BY <3>0, <3>2, <4>1
    <3>5. CASE num_bb # 0
      <4>1. LastAnchor(n) < 2 * num_bb * Len(num_grids)  BY <3>1, <3>3, <3>5, AnchorsSuffice
      <4>2. PICK left \in Int : left = LastAnchor(n)
        BY <3>1, <3>3
      <4>3. 2 * num_bb * Len(num_grids) \in Nat  BY <3>1
      <4>. QED BY <2>1, <3>0, <3>2, <4>1, <4>2, <4>3
    <3>. QED BY <3>4, <3>5
  <2>. QED BY <1>2, <2>2, <2>3 DEF DecodeThrows
<1>. QED BY <1>1, <1>2

LEMMA LabelsGrow == Counts /\ Places /\ [Next]_vars => labels' >= labels /\ net' = net
<1> SUFFICES ASSUME Counts, Places, [Next]_vars PROVE labels' >= labels /\ net' = net
  OBVIOUS
<1> USE DEF setting, layout
<1>1. labels \in Nat  BY DEF Counts
<1>2. CASE LoadLabels
  <2>1. net' = net /\ (labels' = labels + net.labels \/ labels' = labels)
    BY <1>2, Zenon DEF LoadLabels
  <2>2. net.labels \in Nat  BY NetworkFacts DEF Places
  <2>. QED BY <1>1, <2>1, <2>2
<1>3. CASE SetProperty
  <2>1. ASSUME NEW key, NEW f, NEW r, NEW twice, SetOption(key, f, r, twice)
        PROVE  UNCHANGED <<net, labels>>
    BY <2>1, Zenon DEF SetOption
  <2>. QED BY <1>1, <1>3, <2>1 DEF SetProperty
<1>4. CASE BeginOpen \/ LoadGrids \/ EndOpen
  <2>1. UNCHANGED <<net, labels>>  BY <1>4, Zenon DEF BeginOpen, LoadGrids, EndOpen
  <2>. QED BY <1>1, <2>1
<1>5. CASE BeginExtract \/ ExtractNext \/ GetJson
  <2>1. UNCHANGED <<net, labels>>
    BY <1>5, Zenon DEF BeginExtract, ExtractNext, Decode, Filter, BeginTrack, EndTrack, EndExtract,
       GetJson
  <2>. QED BY <1>1, <2>1
<1>6. CASE Frame \/ BeginRender \/ EndRender \/ Stopped \/ UNCHANGED vars
  <2>1. UNCHANGED <<net, labels>>
    BY <1>6, Zenon DEF Frame, BeginRender, EndRender, Stopped, vars
  <2>. QED BY <1>1, <2>1
<1>. QED BY <1>2, <1>3, <1>4, <1>5, <1>6 DEF Next, OpenNext

LEMMA ChannelsGrow ==
  ASSUME labels \in Nat, labels' \in Nat, labels' >= labels, net' = net
  PROVE  Channels' >= Channels /\ Channels \in Nat /\ Channels' \in Nat
<1> DEFINE more == IF net.version = "8" THEN 4 ELSE 5
<1>1. Channels = labels + more /\ Channels' = labels' + more  BY DEF Channels, Values
<1>2. more \in Nat  OBVIOUS
<1> HIDE DEF more
<1>3. /\ labels + more \in Nat /\ labels' + more \in Nat
      /\ labels' + more >= labels + more
  BY <1>2, SumOrder, Zenon
<1>4. Channels \in Nat /\ Channels' \in Nat  BY <1>1, <1>3, Zenon
<1>5. Channels' >= Channels  BY <1>1, <1>3, Zenon
<1>. QED BY <1>4, <1>5

\* What sets failed.
LEMMA FailedSteps ==
  caps \in Nat /\ [Next]_vars => caps' >= caps /\ (failed' => failed \/ (Decode /\ DecodeThrows))
<1> SUFFICES ASSUME caps \in Nat, [Next]_vars
             PROVE  caps' >= caps /\ (failed' => failed \/ (Decode /\ DecodeThrows))
  OBVIOUS
<1> USE DEF setting, filter, lists
<1>1. CASE SetProperty
  <2>1. ASSUME NEW key, NEW f, NEW r, NEW twice, SetOption(key, f, r, twice)
        PROVE  caps' = caps /\ (failed' => failed)
    BY <2>1, Zenon DEF SetOption
  <2>. QED BY <1>1, <2>1 DEF SetProperty
<1>2. CASE BeginOpen
  <2>1. caps' = caps + 1 /\ (failed' => failed)  BY <1>2, Zenon DEF BeginOpen
  <2>. QED BY <2>1
<1>3. CASE LoadLabels \/ LoadGrids \/ EndOpen
  <2>1. UNCHANGED <<caps, failed>>  BY <1>3, Zenon DEF LoadLabels, LoadGrids, EndOpen
  <2>2. caps' = caps /\ (failed' => failed)  BY <2>1, Zenon
  <2>. QED BY <2>2
<1>7. CASE BeginExtract
  <2>1. caps' = caps /\ ~failed'  BY <1>7, Zenon DEF BeginExtract
  <2>. QED BY <2>1
<1>4. CASE Filter \/ BeginTrack \/ EndTrack \/ EndExtract \/ GetJson
  <2>1. UNCHANGED <<caps, failed>>
    BY <1>4, Zenon DEF Filter, BeginTrack, EndTrack, EndExtract, GetJson
  <2>2. caps' = caps /\ (failed' => failed)  BY <2>1, Zenon
  <2>. QED BY <2>2
<1>5. CASE Decode
  <2>1. caps' = caps /\ (DecodeThrows \/ failed' = failed)
    BY <1>5, Zenon DEF Decode
  <2>2. failed' => failed \/ DecodeThrows
    <3>1. CASE DecodeThrows  BY <3>1, Zenon
    <3>2. CASE failed' = failed  BY <3>2, Zenon
    <3>. QED BY <2>1, <3>1, <3>2
  <2>. QED BY <1>5, <2>1, <2>2
<1>6. CASE Frame \/ BeginRender \/ EndRender \/ Stopped \/ UNCHANGED vars
  <2>1. UNCHANGED <<caps, failed>>
    BY <1>6, Zenon DEF Frame, BeginRender, EndRender, Stopped, vars
  <2>2. caps' = caps /\ (failed' => failed)  BY <2>1, Zenon
  <2>. QED BY <2>2
<1>. QED BY <1>1, <1>2, <1>3, <1>4, <1>5, <1>6, <1>7 DEF Next, OpenNext, ExtractNext

\* With the files of the network read once, at least one label, an item that a
\* byte counts and grids of at most 255, the values extract_detections reads
\* are those of the output, each of them once (yolo_post_processor.cpp:39-47,
\* 103-160).
THEOREM ReadsEveryValueOnce == Spec => []EveryValueOnce
<1>1. Counts /\ Places /\ LayoutInv => EveryValueOnce
  <2> SUFFICES ASSUME Counts, Places, LayoutInv, infer = "decode", caps = 1, Channels <= 255, Narrow
               PROVE  Reads = 0 .. net.out - 1 /\ Cardinality(Cells) * Channels = net.out
    BY DEF EveryValueOnce, Narrow
  <2>1. Complete  BY DecodingComplete DEF Decoding
  <2>. QED BY <2>1, CompleteColumns, CompleteLayers, ColumnsRead, LayersRead, LayersCounted
<1>2. Init => Counts /\ Places  BY PostBounds DEF Init, Counts, Places
<1>. QED BY <1>1, <1>2, LayoutInit, LayoutStep, CountsStep, PlacesStep, PTL DEF Spec

\* For any networks, also those whose grids are cut to a byte: a run throws only
\* after a second CAPS event, or with more classes than item_size counts
\* (yolo_post_processor.cpp:71, 129-160).
THEOREM DecodingFailsForCause == Spec => []DecodeFailsForCause
<1>1. Init => DecodeFailsForCause  BY DEF Init, DecodeFailsForCause
<1>2. Counts /\ Places /\ LayoutInv /\ DecodeFailsForCause /\ [Next]_vars => DecodeFailsForCause'
  <2> SUFFICES ASSUME Counts, Places, LayoutInv, DecodeFailsForCause, [Next]_vars, failed'
               PROVE  caps' > 1 \/ Channels' > 255
    BY DEF DecodeFailsForCause
  <2>1. labels \in Nat /\ labels' >= labels /\ net' = net  BY LabelsGrow DEF Counts
  <2>2. labels' \in Nat /\ caps \in Nat /\ caps' \in Nat
    BY CountsStep, PostBounds DEF Counts
  <2>4. Channels' >= Channels /\ Channels \in Nat /\ Channels' \in Nat
    BY <2>1, <2>2, ChannelsGrow
  <2>5. caps' >= caps /\ (failed' => failed \/ (Decode /\ DecodeThrows))
    BY <2>2, FailedSteps
  <2>6. CASE failed
    <3>1. failed  BY <2>6
    <3>2. caps > 1 \/ Channels > 255  BY <3>1 DEF DecodeFailsForCause
    <3>. QED BY <2>2, <2>4, <2>5, <3>2
  <2>7. CASE Decode /\ DecodeThrows
    <3>1. infer = "decode"  BY <2>7 DEF Decode
    <3>2. CASE caps = 1
      <4>1. Complete  BY <3>1, <3>2, DecodingComplete DEF Decoding
      <4>2. ~ (Channels <= 255)  BY <2>7, <4>1, CompleteDecodes
      <4>. QED BY <2>4, <4>2
    <3>3. CASE caps # 1
      <4>1. caps # 0  BY <3>1 DEF LayoutInv
      <4>. QED BY <2>2, <2>5, <3>3, <4>1
    <3>. QED BY <3>2, <3>3
  <2>. QED BY <2>5, <2>6, <2>7
<1>3. Init => Counts /\ Places  BY PostBounds DEF Init, Counts, Places
<1>. QED BY <1>1, <1>2, <1>3, LayoutInit, LayoutStep, CountsStep, PlacesStep, PTL DEF Spec
=============================================================================
