-------------------------- MODULE DetectionFilter --------------------------
(***************************************************************************)
(* detection_filterer::apply: non-maximum suppression, then the class and  *)
(* region filter, both on one std::list of detections that they erase from *)
(* while they iterate.                                                     *)
(*                                                                         *)
(* A node of the list is the number the detection had in the input.  An    *)
(* iterator is a position in the list, and 0 is end(): libstdc++ keeps the *)
(* list circular around a sentinel, so that ++end() is begin() and         *)
(* --begin() is end(), which the loops rely on.                            *)
(*                                                                         *)
(* Boxes are intervals of pixels on one line, one pixel high: areas are    *)
(* lengths.  filter_region is never empty here, because                    *)
(* YOLO_PostProcessor::open_resource makes it the whole image.             *)
(***************************************************************************)
EXTENDS Integers, Sequences

CONSTANTS
  Detections,      \* the detections that may occur: records of c, prob, left, right
  MaxDetections,   \* bound: detections in a frame
  ThNms,           \* TH_NMS in percent
  FilterClasses,   \* classes to keep; none means all
  Region           \* the region of interest, a record of left and right

ASSUME DetectionsAssumption ==
  \A d \in Detections : d.left \in Int /\ d.right \in Int /\ d.left <= d.right /\ d.prob \in Int
ASSUME MaxDetectionsAssumption == MaxDetections \in Nat
ASSUME ThNmsAssumption == ThNms \in Nat

VARIABLES
  input,       \* the detections of the frame
  list,        \* the nodes that are left
  pc,
  i, j,        \* the iterators of filter_boxes_nms; the second loop uses i
  survivors    \* what suppression left for the second loop

vars == <<input, list, pc, i, j, survivors>>

-----------------------------------------------------------------------------
(* Boxes                                                                   *)

Least(a, b) == IF a < b THEN a ELSE b
Greatest(a, b) == IF a > b THEN a ELSE b

Area(a) == a.right - a.left

\* Box::operator&
Intersection(a, b) ==
  LET w == Least(a.right, b.right) - Greatest(a.left, b.left)
  IN  IF w < 0 THEN 0 ELSE w

\* Box::iou_with above the threshold.  Two empty boxes have the ratio 0/0,
\* which compares false.
IouExceeds(a, b) ==
  100 * Intersection(a, b) > ThNms * (Area(a) + Area(b) - Intersection(a, b))

\* Two boxes stand for one object: also when one lies in the other, up to a
\* pixel.
Overlap(a, b) ==
  \/ IouExceeds(a, b)
  \/ Intersection(a, b) >= Area(a) - 1
  \/ Intersection(a, b) >= Area(b) - 1

\* Mutant of Rivals: detections of different classes are rivals.
RivalsOfAnyClass(a, b) == Overlap(a, b)

Rivals(a, b) == a.c = b.c /\ Overlap(a, b)

-----------------------------------------------------------------------------
(* Iterators                                                               *)

At(s, p) == input[s[p]]

\* The list without the node at position p.
Erase(s, p) == [n \in 1 .. Len(s) - 1 |-> IF n < p THEN s[n] ELSE s[n + 1]]

\* ++p in a list s
Succ(s, p) == IF p = Len(s) THEN 0 ELSE p + 1

Nodes(s) == {s[n] : n \in 1 .. Len(s)}

Init ==
  /\ input \in UNION {[1 .. n -> Detections] : n \in 0 .. MaxDetections}
  /\ list = [n \in 1 .. Len(input) |-> n]
  /\ pc = IF input = <<>> THEN "done" ELSE "nms"
  /\ i = 1
  /\ j = 1
  /\ survivors = {}

-----------------------------------------------------------------------------
(* filter_boxes_nms                                                        *)

\* The inner loop passes over a node: itself, or no rival.
Pass ==
  /\ pc = "nms" /\ i # 0 /\ j # 0
  /\ i = j \/ ~Rivals(At(list, i), At(list, j))
  /\ j' = Succ(list, j)
  /\ UNCHANGED <<input, list, pc, i, survivors>>

\* Mutant of SuppressOther: the iterator is set back but nothing is erased.
SuppressNobody ==
  /\ pc = "nms" /\ i # 0 /\ j # 0 /\ i # j
  /\ Rivals(At(list, i), At(list, j))
  /\ At(list, i).prob > At(list, j).prob
  /\ UNCHANGED vars

\* j = --det.erase(j), and ++j
SuppressOther ==
  /\ pc = "nms" /\ i # 0 /\ j # 0 /\ i # j
  /\ Rivals(At(list, i), At(list, j))
  /\ At(list, i).prob > At(list, j).prob
  /\ list' = Erase(list, j)
  /\ j' = Succ(list', j - 1)
  /\ i' = IF j < i THEN i - 1 ELSE i
  /\ UNCHANGED <<input, pc, survivors>>

\* Mutant of SuppressItself: of two of the same probability neither is kept.
SuppressBoth ==
  /\ pc = "nms" /\ i # 0 /\ j # 0 /\ i # j
  /\ Rivals(At(list, i), At(list, j))
  /\ At(list, i).prob <= At(list, j).prob
  /\ list' = IF At(list, i).prob = At(list, j).prob
               THEN Erase(Erase(list, Greatest(i, j)), Least(i, j))
               ELSE Erase(list, i)
  /\ i' = IF Len(list') >= i THEN i ELSE 0
  /\ j' = 1
  /\ UNCHANGED <<input, pc, survivors>>

\* Mutant of SuppressItself: the node after the erased one is skipped.
SuppressAndSkip ==
  /\ pc = "nms" /\ i # 0 /\ j # 0 /\ i # j
  /\ Rivals(At(list, i), At(list, j))
  /\ At(list, i).prob <= At(list, j).prob
  /\ list' = Erase(list, i)
  /\ i' = Succ(list', Succ(list', i - 1))
  /\ j' = 1
  /\ UNCHANGED <<input, pc, survivors>>

\* i = --det.erase(i), break, and ++i
SuppressItself ==
  /\ pc = "nms" /\ i # 0 /\ j # 0 /\ i # j
  /\ Rivals(At(list, i), At(list, j))
  /\ At(list, i).prob <= At(list, j).prob
  /\ list' = Erase(list, i)
  /\ i' = Succ(list', i - 1)
  /\ j' = 1
  /\ UNCHANGED <<input, pc, survivors>>

NextRow ==
  /\ pc = "nms" /\ i # 0 /\ j = 0
  /\ i' = Succ(list, i)
  /\ j' = 1
  /\ UNCHANGED <<input, list, pc, survivors>>

EndNms ==
  /\ pc = "nms" /\ i = 0
  /\ pc' = "filter"
  /\ i' = 1
  /\ survivors' = Nodes(list)
  /\ UNCHANGED <<input, list, j>>

-----------------------------------------------------------------------------
(* The second loop of apply                                                *)

OutOfClass(d) == FilterClasses # {} /\ d.c \notin FilterClasses

OutOfRegion(d) == Intersection(Region, d) = 0

\* Mutant of FilterClass: the iterator stays on the erased node.
FilterClassInPlace ==
  /\ pc = "filter" /\ i # 0
  /\ OutOfClass(At(list, i))
  /\ list' = Erase(list, i)
  /\ pc' = "region"
  /\ UNCHANGED <<input, i, j, survivors>>

\* A node that is out of class is erased, and the rest of the loop body goes
\* on with the node after it.  When there is none it reads the sentinel's
\* memory as a box, erases the sentinel and frees what was never allocated.
FilterClass ==
  /\ pc = "filter" /\ i # 0
  /\ OutOfClass(At(list, i))
  /\ list' = Erase(list, i)
  /\ i' = Succ(list', i - 1)
  /\ pc' = IF i' = 0 THEN "undefined" ELSE "region"
  /\ UNCHANGED <<input, j, survivors>>

KeepClass ==
  /\ pc = "filter" /\ i # 0
  /\ ~OutOfClass(At(list, i))
  /\ pc' = "region"
  /\ UNCHANGED <<input, list, i, j, survivors>>

\* Mutant of FilterRegion: the iterator moves on before the erasure.
FilterRegionOfNext ==
  /\ pc = "region"
  /\ list' = IF OutOfRegion(At(list, i))
               THEN IF i < Len(list) THEN Erase(list, i + 1) ELSE list
               ELSE list
  /\ i' = Succ(list', i)
  /\ pc' = "filter"
  /\ UNCHANGED <<input, j, survivors>>

\* det = d.erase(det) already is the next node, and ++det goes past it.
\* Past the end ++det is begin() again.
FilterRegion ==
  /\ pc = "region"
  /\ list' = IF OutOfRegion(At(list, i)) THEN Erase(list, i) ELSE list
  /\ i' = Succ(list', IF OutOfRegion(At(list, i)) THEN Succ(list', i - 1) ELSE i)
  /\ pc' = "filter"
  /\ UNCHANGED <<input, j, survivors>>

EndFilter ==
  /\ pc = "filter" /\ i = 0
  /\ pc' = "done"
  /\ UNCHANGED <<input, list, i, j, survivors>>

Returned == pc \in {"done", "undefined"} /\ UNCHANGED vars

Next ==
  \/ Pass \/ SuppressOther \/ SuppressItself \/ NextRow \/ EndNms
  \/ FilterClass \/ KeepClass \/ FilterRegion \/ EndFilter
  \/ Returned

Spec == Init /\ [][Next]_vars

\* apply is called by one thread and does not wait for anything.
FairSpec == Spec /\ WF_vars(Next)

-----------------------------------------------------------------------------
(* Properties                                                              *)

TypeOK ==
  /\ Len(list) <= Len(input)
  /\ Nodes(list) \subseteq 1 .. Len(input)
  /\ pc \in {"nms", "filter", "region", "done", "undefined"}
  /\ i \in 0 .. Greatest(1, Len(list))
  /\ j \in 0 .. Greatest(1, Len(list))
  /\ pc = "region" => i \in 1 .. Len(list)
  /\ survivors \subseteq 1 .. Len(input)

\* However the two iterators are set back when nodes are erased under them,
\* no two detections that suppression leaves are rivals.
NoRivalsLeft ==
  pc # "nms" => \A m, n \in survivors : m # n => ~Rivals(input[m], input[n])

\* A detection that is more probable than each of its rivals is never
\* suppressed.
UnbeatenSurvives ==
  pc # "nms" =>
    \A n \in DOMAIN input :
      (\A m \in DOMAIN input :
         m # n /\ Rivals(input[n], input[m]) => input[n].prob > input[m].prob)
        => n \in survivors

\* The best probability of every class survives, also when rivals tie and
\* each could suppress the other.
BestOfClassSurvives ==
  pc # "nms" =>
    \A n \in DOMAIN input :
      \E m \in survivors : input[m].c = input[n].c /\ input[m].prob >= input[n].prob

\* A detection is only lost to another of its class that is at least as
\* probable, and that it overlaps - unless one of the two is at most one
\* pixel, since every intersection is at least the area of that minus one.
SuppressedHasReason ==
  pc # "nms" =>
    \A n \in DOMAIN input \ survivors :
      \E m \in DOMAIN input \ {n} :
        /\ input[m].c = input[n].c
        /\ input[m].prob >= input[n].prob
        /\ \/ Intersection(input[n], input[m]) > 0
           \/ Area(input[n]) <= 1
           \/ Area(input[m]) <= 1

\* Among what suppression left, the second loop drops nothing that is in a
\* wanted class and in the region, however its iterator jumps.
AllowedStays ==
  pc = "done" =>
    \A n \in survivors : ~OutOfClass(input[n]) /\ ~OutOfRegion(input[n]) => n \in Nodes(list)

\* apply returns: neither setting iterators back nor running past end()
\* makes it go round for ever.
Terminates == <>(pc \in {"done", "undefined"})

\* README.md:74,75-78: detections are filtered to a list of classes, and to a
\* region of interest.
OnlyAllowedStays ==
  pc = "done" => \A n \in Nodes(list) : ~OutOfClass(input[n]) /\ ~OutOfRegion(input[n])
=============================================================================
