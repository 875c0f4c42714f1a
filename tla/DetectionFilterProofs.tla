----------------------- MODULE DetectionFilterProofs -----------------------
(***************************************************************************)
(* Proofs about DetectionFilter for every list of detections, of any       *)
(* length, every threshold, filter and region.                             *)
(*                                                                         *)
(* The invariant of the suppression loops: the rows before the outer       *)
(* iterator are free of rivals, and so is the outer iterator's row up to   *)
(* the inner one.  Erasing shifts positions, so both are about positions   *)
(* of the list as it is; they survive because erasing keeps the order of   *)
(* the other nodes and sets the iterators back to where they continue.     *)
(***************************************************************************)
EXTENDS DetectionFilter, SequenceTheorems, TLAPS

N == Len(input)

\* What both iterators may be in each loop.
IteratorsOK ==
  /\ pc = "nms" => Len(list) >= 1 /\ i \in 0 .. Len(list) /\ j \in 0 .. Len(list)
  /\ pc = "nms" /\ i = 0 => j = 1
  /\ pc # "nms" => j = 1
  /\ pc = "filter" => i \in 0 .. Len(list)
  /\ pc = "region" => i \in 1 .. Len(list)
  /\ pc \in {"done", "undefined"} => i \in {0, 1}

Typed ==
  /\ input \in Seq(Detections)
  /\ list \in Seq(1 .. N)
  /\ Len(list) <= N
  /\ pc \in {"nms", "filter", "region", "done", "undefined"}
  /\ survivors \subseteq 1 .. N
  /\ IteratorsOK

\* No node is in the list twice.
Increasing == \A m, n \in 1 .. Len(list) : m < n => list[m] < list[n]

Free(p, q) == p # q => ~Rivals(At(list, p), At(list, q))

Rows == pc = "nms" => \A p, q \in 1 .. Len(list) : (i = 0 \/ p < i) => Free(p, q)

Row == pc = "nms" /\ i # 0 => \A q \in 1 .. Len(list) : (j = 0 \/ q < j) => Free(i, q)

LoopInv == Typed /\ Increasing /\ Rows /\ Row

Unbeaten(n) ==
  \A m \in DOMAIN input :
    m # n /\ Rivals(input[n], input[m]) => input[n].prob > input[m].prob

\* What is left of the input: the list while it is suppressed, then the
\* survivors.
Left == IF pc = "nms" THEN Nodes(list) ELSE survivors

UnbeatenLeft == \A n \in DOMAIN input : Unbeaten(n) => n \in Left

BestLeft ==
  \A n \in DOMAIN input :
    \E m \in Left : input[m].c = input[n].c /\ input[m].prob >= input[n].prob

Allowed(n) == ~OutOfClass(input[n]) /\ ~OutOfRegion(input[n])

\* What filter_boxes_nms may lose n to.
Reason(n, m) ==
  /\ input[m].c = input[n].c
  /\ input[m].prob >= input[n].prob
  /\ \/ Intersection(input[n], input[m]) > 0
     \/ Area(input[n]) <= 1
     \/ Area(input[m]) <= 1

ReasonLeft == \A n \in DOMAIN input \ Left : \E m \in DOMAIN input \ {n} : Reason(n, m)

AllowedLeft ==
  pc \in {"filter", "region", "done", "undefined"} =>
    \A n \in survivors : Allowed(n) => n \in Nodes(list)

Inv == LoopInv /\ NoRivalsLeft /\ UnbeatenLeft /\ BestLeft /\ ReasonLeft /\ AllowedLeft

-----------------------------------------------------------------------------
(* Lists                                                                   *)

\* A function on 1 .. n is a sequence of the length n.
LEMMA FunctionIsSequence ==
  ASSUME NEW S, NEW n \in Nat, NEW f \in [1 .. n -> S]
  PROVE  f \in Seq(S) /\ Len(f) = n
<1>1. f \in Seq(S)  BY SeqDef
<1>2. Len(f) \in Nat /\ DOMAIN f = 1 .. Len(f)  BY <1>1, LenProperties
<1>3. 1 .. Len(f) = 1 .. n  BY <1>2
<1>4. Len(f) = n
  <2>1. CASE n = 0
    <3>1. 1 \notin 1 .. Len(f)  BY <1>3, <2>1
    <3>. QED BY <3>1, <1>2, <2>1
  <2>2. CASE n > 0
    <3>1. n \in 1 .. Len(f)  BY <1>3, <2>2
    <3>2. Len(f) \in 1 .. n  BY <1>2, <1>3, <3>1
    <3>. QED BY <3>1, <3>2
  <2>. QED BY <2>1, <2>2
<1>. QED BY <1>1, <1>4

\* Erasing a position shortens the list by one, keeps the nodes before it in
\* place and moves those behind it up.
LEMMA EraseProperties ==
  ASSUME NEW S, NEW s \in Seq(S), NEW p \in 1 .. Len(s)
  PROVE  /\ Erase(s, p) \in Seq(S)
         /\ Len(Erase(s, p)) = Len(s) - 1
         /\ \A n \in 1 .. Len(s) - 1 : Erase(s, p)[n] = IF n < p THEN s[n] ELSE s[n + 1]
<1>1. Len(s) \in Nat /\ s \in [1 .. Len(s) -> S]  BY LenProperties
<1>2. Len(s) - 1 \in Nat  BY <1>1
<1>3. Erase(s, p) \in [1 .. Len(s) - 1 -> S]  BY <1>1 DEF Erase
<1>4. \A n \in 1 .. Len(s) - 1 : Erase(s, p)[n] = IF n < p THEN s[n] ELSE s[n + 1]
  BY DEF Erase
<1>. QED BY <1>2, <1>3, <1>4, FunctionIsSequence

\* What is left after an erasure is the rest of the nodes.
LEMMA EraseNodes ==
  ASSUME NEW S, NEW s \in Seq(S), NEW p \in 1 .. Len(s)
  PROVE  /\ Nodes(Erase(s, p)) \subseteq Nodes(s)
         /\ Nodes(s) \subseteq Nodes(Erase(s, p)) \union {s[p]}
<1>1. Len(s) \in Nat  BY LenProperties
<1>2. Nodes(Erase(s, p)) \subseteq Nodes(s)
  <2> SUFFICES ASSUME NEW n \in 1 .. Len(s) - 1
               PROVE  Erase(s, p)[n] \in Nodes(s)
    BY EraseProperties DEF Nodes
  <2>1. Erase(s, p)[n] = IF n < p THEN s[n] ELSE s[n + 1]  BY EraseProperties
  <2>2. n \in 1 .. Len(s) /\ n + 1 \in 1 .. Len(s)  BY <1>1
  <2>. QED BY <2>1, <2>2 DEF Nodes
<1>3. Nodes(s) \subseteq Nodes(Erase(s, p)) \union {s[p]}
  <2> SUFFICES ASSUME NEW n \in 1 .. Len(s), n # p
               PROVE  s[n] \in Nodes(Erase(s, p))
    BY DEF Nodes
  <2>1. CASE n < p
    <3>1. n \in 1 .. Len(s) - 1 /\ Erase(s, p)[n] = s[n]  BY <1>1, <2>1, EraseProperties
    <3>. QED BY <3>1, EraseProperties DEF Nodes
  <2>2. CASE n > p
    <3>1. /\ n - 1 \in 1 .. Len(s) - 1
          /\ Erase(s, p)[n - 1] = s[n]
      BY <1>1, <2>2, EraseProperties
    <3>. QED BY <3>1, EraseProperties DEF Nodes
  <2>. QED BY <1>1, <2>1, <2>2
<1>. QED BY <1>2, <1>3

-----------------------------------------------------------------------------
(* Boxes                                                                   *)

LEMMA RivalsSymmetric ==
  ASSUME NEW a \in Detections, NEW b \in Detections
  PROVE  Rivals(a, b) <=> Rivals(b, a)
<1>1. Intersection(a, b) = Intersection(b, a) /\ Intersection(a, b) \in Int
  BY DetectionsAssumption DEF Intersection, Least, Greatest
<1>2. Area(a) \in Int /\ Area(b) \in Int
  BY DetectionsAssumption DEF Area
<1>3. Area(a) + Area(b) - Intersection(a, b) = Area(b) + Area(a) - Intersection(b, a)
  BY <1>1, <1>2
<1>4. IouExceeds(a, b) <=> IouExceeds(b, a)
  BY <1>1, <1>3 DEF IouExceeds
<1>. QED BY <1>1, <1>4 DEF Rivals, Overlap

-----------------------------------------------------------------------------
(* LoopInv is inductive.                                                   *)

LEMMA InputTyped ==
  ASSUME Typed
  PROVE  /\ N \in Nat /\ DOMAIN input = 1 .. N
         /\ \A n \in 1 .. N : input[n] \in Detections
         /\ Len(list) \in Nat
         /\ \A n \in 1 .. Len(list) : list[n] \in 1 .. N /\ At(list, n) \in Detections
         /\ Nodes(list) \subseteq 1 .. N
<1>1. N \in Nat /\ DOMAIN input = 1 .. N /\ Len(list) \in Nat
  BY LenProperties DEF Typed, N
<1>2. \A n \in 1 .. N : input[n] \in Detections  BY ElementOfSeq DEF Typed, N
<1>3. \A n \in 1 .. Len(list) : list[n] \in 1 .. N  BY ElementOfSeq DEF Typed
<1>. QED BY <1>1, <1>2, <1>3 DEF At, Nodes

LEMMA LoopInit == Init => LoopInv
<1> SUFFICES ASSUME Init PROVE LoopInv
  OBVIOUS
<1>1. PICK k \in 0 .. MaxDetections : input \in [1 .. k -> Detections]
  BY MaxDetectionsAssumption DEF Init
<1>2. input \in Seq(Detections) /\ N = k /\ N \in Nat
  BY <1>1, FunctionIsSequence, MaxDetectionsAssumption DEF N
<1>3. list \in [1 .. N -> 1 .. N] /\ \A n \in 1 .. N : list[n] = n
  BY <1>2 DEF Init, N
<1>4. list \in Seq(1 .. N) /\ Len(list) = N
  BY <1>2, <1>3, FunctionIsSequence
<1>5. input # <<>> => Len(list) >= 1
  BY <1>2, <1>4, EmptySeq DEF N
<1>6. Typed  BY <1>2, <1>4, <1>5 DEF Init, Typed, IteratorsOK
<1>7. Increasing  BY <1>2, <1>3, <1>4 DEF Increasing
<1>8. Rows /\ Row  BY <1>2, <1>4 DEF Init, Rows, Row
<1>. QED BY <1>6, <1>7, <1>8 DEF LoopInv

LEMMA ErasePreserves ==
  ASSUME LoopInv, NEW p \in 1 .. Len(list), list' = Erase(list, p), input' = input
  PROVE  /\ list' \in Seq(1 .. N)
         /\ Len(list') = Len(list) - 1
         /\ Increasing'
         /\ \A n \in 1 .. Len(list') : list'[n] = IF n < p THEN list[n] ELSE list[n + 1]
<1>1. Typed /\ Increasing /\ list \in Seq(1 .. N)  BY DEF LoopInv, Typed
<1>2. Len(list) \in Nat /\ \A n \in 1 .. Len(list) : list[n] \in 1 .. N  BY <1>1, InputTyped
<1>3. /\ list' \in Seq(1 .. N)
      /\ Len(list') = Len(list) - 1
      /\ \A n \in 1 .. Len(list') : list'[n] = IF n < p THEN list[n] ELSE list[n + 1]
  BY <1>1, EraseProperties
<1>4. ASSUME NEW m \in 1 .. Len(list'), NEW n \in 1 .. Len(list'), m < n
      PROVE  list'[m] < list'[n]
  <2> DEFINE old(q) == IF q < p THEN q ELSE q + 1
  <2>1. old(m) \in 1 .. Len(list) /\ old(n) \in 1 .. Len(list) /\ old(m) < old(n)
    BY <1>2, <1>3, <1>4
  <2>2. list'[m] = list[old(m)] /\ list'[n] = list[old(n)]  BY <1>3
  <2>3. list[old(m)] < list[old(n)]  BY <1>1, <2>1 DEF Increasing
  <2>. QED BY <2>2, <2>3
<1>. QED BY <1>3, <1>4 DEF Increasing

\* The position that a position had before p was erased.
Old(p, q) == IF q < p THEN q ELSE q + 1

LEMMA EraseFree ==
  ASSUME LoopInv, NEW p \in 1 .. Len(list), list' = Erase(list, p), input' = input,
         NEW m \in 1 .. Len(list'), NEW n \in 1 .. Len(list'),
         Free(Old(p, m), Old(p, n))
  PROVE  Free(m, n)'
<1>1. Len(list) \in Nat  BY InputTyped DEF LoopInv
<1>2. Len(list') = Len(list) - 1  BY ErasePreserves
<1>3. list'[m] = list[Old(p, m)] /\ list'[n] = list[Old(p, n)]
  BY ErasePreserves DEF Old
<1>4. m # n => Old(p, m) # Old(p, n)  BY <1>1, <1>2 DEF Old
<1>. QED BY <1>3, <1>4 DEF Free, At

LEMMA StepPass == LoopInv /\ Pass => LoopInv'
<1> SUFFICES ASSUME LoopInv, Pass PROVE LoopInv'
  OBVIOUS
<1>1. Len(list) \in Nat  BY InputTyped DEF LoopInv
<1>2. Typed'
  BY <1>1 DEF LoopInv, Typed, IteratorsOK, Pass, Succ, N
<1>3. Increasing'  BY DEF LoopInv, Increasing, Pass
<1>4. Rows'  BY DEF LoopInv, Rows, Free, At, Pass
<1>5. Row'
  <2> SUFFICES ASSUME NEW q \in 1 .. Len(list), j' = 0 \/ q < j'
               PROVE  Free(i, q)
    BY DEF Pass, Row, Free, At
  <2>1. CASE q < j  BY <2>1 DEF LoopInv, Row, Pass
  <2>2. CASE ~(q < j)
    <3>1. q = j  BY <1>1, <2>2 DEF Succ, Pass, LoopInv, Typed, IteratorsOK
    <3>. QED BY <3>1 DEF Pass, Free
  <2>. QED BY <2>1, <2>2
<1>. QED BY <1>2, <1>3, <1>4, <1>5 DEF LoopInv

LEMMA StepSuppressOther == LoopInv /\ SuppressOther => LoopInv'
<1> SUFFICES ASSUME LoopInv, SuppressOther PROVE LoopInv'
  OBVIOUS
<1>1. Len(list) \in Nat  BY InputTyped DEF LoopInv
<1>2. /\ pc = "nms" /\ pc' = "nms" /\ survivors' = survivors
      /\ i \in 1 .. Len(list) /\ j \in 1 .. Len(list) /\ i # j
      /\ list' = Erase(list, j) /\ input' = input
      /\ i' = IF j < i THEN i - 1 ELSE i
      /\ j' = IF j - 1 = Len(list') THEN 0 ELSE j
  BY <1>1 DEF LoopInv, Typed, IteratorsOK, SuppressOther, Succ
<1>3. Len(list') = Len(list) - 1 /\ list' \in Seq(1 .. N) /\ Increasing'
  BY <1>2, ErasePreserves
<1>4. i' \in 1 .. Len(list') /\ j' \in 0 .. Len(list')
  BY <1>1, <1>2, <1>3
<1>5. Typed'
  <2>1. N' = N /\ N \in Nat  BY <1>2, InputTyped DEF N, LoopInv
  <2>2. IteratorsOK'  BY <1>1, <1>2, <1>3, <1>4 DEF IteratorsOK
  <2>. QED BY <1>1, <1>2, <1>3, <2>1, <2>2 DEF LoopInv, Typed
<1>6. Rows'
  <2> SUFFICES ASSUME NEW p \in 1 .. Len(list'), NEW q \in 1 .. Len(list'), p < i'
               PROVE  Free(p, q)'
    BY <1>4 DEF Rows
  <2>1. Old(j, p) \in 1 .. Len(list) /\ Old(j, q) \in 1 .. Len(list) /\ Old(j, p) < i
    BY <1>1, <1>2, <1>3 DEF Old
  <2>2. Free(Old(j, p), Old(j, q))  BY <1>2, <2>1 DEF LoopInv, Rows
  <2>. QED BY <1>2, <2>2, EraseFree
<1>7. Row'
  <2> SUFFICES ASSUME NEW q \in 1 .. Len(list'), j' = 0 \/ q < j'
               PROVE  Free(i, q)'
    BY <1>4 DEF Row, Free, At
  <2>1. Old(j, i') = i /\ Old(j, q) = q /\ q \in 1 .. Len(list) /\ q < j
    BY <1>1, <1>2, <1>3 DEF Old
  <2>2. Free(i, q)  BY <1>2, <2>1 DEF LoopInv, Row
  <2>3. PICK k \in 1 .. Len(list') : k = i'  BY <1>4
  <2>4. Free(k, q)'  BY <1>2, <2>1, <2>2, <2>3, EraseFree
  <2>. QED BY <2>3, <2>4 DEF Free, At
<1>. QED BY <1>3, <1>5, <1>6, <1>7 DEF LoopInv

LEMMA StepSuppressItself == LoopInv /\ SuppressItself => LoopInv'
<1> SUFFICES ASSUME LoopInv, SuppressItself PROVE LoopInv'
  OBVIOUS
<1>1. Len(list) \in Nat  BY InputTyped DEF LoopInv
<1>2. /\ pc = "nms" /\ pc' = "nms" /\ survivors' = survivors
      /\ i \in 1 .. Len(list) /\ j \in 1 .. Len(list) /\ i # j
      /\ list' = Erase(list, i) /\ input' = input
      /\ i' = IF i - 1 = Len(list') THEN 0 ELSE i
      /\ j' = 1
  BY <1>1 DEF LoopInv, Typed, IteratorsOK, SuppressItself, Succ
<1>3. Len(list') = Len(list) - 1 /\ list' \in Seq(1 .. N) /\ Increasing'
  BY <1>2, ErasePreserves
<1>4. i' \in 0 .. Len(list') /\ Len(list') >= 1
  BY <1>1, <1>2, <1>3
<1>5. Typed'
  <2>1. N' = N /\ N \in Nat  BY <1>2, InputTyped DEF N, LoopInv
  <2>2. IteratorsOK'  BY <1>1, <1>2, <1>3, <1>4 DEF IteratorsOK
  <2>. QED BY <1>1, <1>2, <1>3, <2>1, <2>2 DEF LoopInv, Typed
<1>6. Rows'
  <2> SUFFICES ASSUME NEW p \in 1 .. Len(list'), NEW q \in 1 .. Len(list'), i' = 0 \/ p < i'
               PROVE  Free(p, q)'
    BY DEF Rows
  <2>1. Old(i, p) \in 1 .. Len(list) /\ Old(i, q) \in 1 .. Len(list) /\ Old(i, p) < i
    BY <1>1, <1>2, <1>3 DEF Old
  <2>2. Free(Old(i, p), Old(i, q))  BY <1>2, <2>1 DEF LoopInv, Rows
  <2>. QED BY <1>2, <2>2, EraseFree
<1>7. Row'  BY <1>2, <1>3, <1>1 DEF Row
<1>. QED BY <1>3, <1>5, <1>6, <1>7 DEF LoopInv

LEMMA StepNextRow == LoopInv /\ NextRow => LoopInv'
<1> SUFFICES ASSUME LoopInv, NextRow PROVE LoopInv'
  OBVIOUS
<1>1. Len(list) \in Nat  BY InputTyped DEF LoopInv
<1>2. Typed'
  BY <1>1 DEF LoopInv, Typed, IteratorsOK, NextRow, Succ, N
<1>3. Increasing'  BY DEF LoopInv, Increasing, NextRow
<1>4. Rows'
  <2> SUFFICES ASSUME NEW p \in 1 .. Len(list), NEW q \in 1 .. Len(list), i' = 0 \/ p < i'
               PROVE  Free(p, q)
    BY DEF NextRow, Rows, Free, At
  <2>1. CASE p < i  BY <2>1 DEF LoopInv, Rows, NextRow
  <2>2. CASE ~(p < i)
    <3>1. p = i  BY <1>1, <2>2 DEF Succ, NextRow, LoopInv, Typed, IteratorsOK
    <3>. QED BY <3>1 DEF LoopInv, Row, NextRow
  <2>. QED BY <2>1, <2>2
<1>5. Row'  BY <1>1 DEF NextRow, Row
<1>. QED BY <1>2, <1>3, <1>4, <1>5 DEF LoopInv

\* The second loop keeps the list in order; its iterator stays in the list.
LEMMA StepFilter ==
  LoopInv /\ (EndNms \/ FilterClass \/ KeepClass \/ FilterRegion \/ EndFilter) => LoopInv'
<1> SUFFICES ASSUME LoopInv, EndNms \/ FilterClass \/ KeepClass \/ FilterRegion \/ EndFilter
             PROVE  LoopInv'
  OBVIOUS
<1>1. Len(list) \in Nat /\ N \in Nat /\ Nodes(list) \subseteq 1 .. N
  BY InputTyped DEF LoopInv
<1>2. pc' # "nms" /\ input' = input /\ N' = N
  BY DEF EndNms, FilterClass, KeepClass, FilterRegion, EndFilter, N
<1>3. Rows' /\ Row'  BY <1>2 DEF Rows, Row
<1>4. CASE EndNms
  BY <1>1, <1>2, <1>3, <1>4 DEF EndNms, LoopInv, Typed, IteratorsOK, Increasing
<1>5. CASE FilterClass
  <2>1. i \in 1 .. Len(list) /\ list' = Erase(list, i)
    BY <1>1, <1>5 DEF FilterClass, LoopInv, Typed, IteratorsOK
  <2>2. Len(list') = Len(list) - 1 /\ list' \in Seq(1 .. N) /\ Increasing'
    BY <1>2, <2>1, ErasePreserves
  <2>3. i' = IF i - 1 = Len(list') THEN 0 ELSE i  BY <1>1, <1>5, <2>1 DEF FilterClass, Succ
  <2>4. IteratorsOK'
    BY <1>1, <1>5, <2>1, <2>2, <2>3 DEF FilterClass, LoopInv, Typed, IteratorsOK
  <2>. QED BY <1>1, <1>2, <1>3, <1>5, <2>2, <2>4 DEF FilterClass, LoopInv, Typed
<1>6. CASE KeepClass
  BY <1>1, <1>2, <1>3, <1>6 DEF KeepClass, LoopInv, Typed, IteratorsOK, Increasing
<1>7. CASE FilterRegion
  <2>1. i \in 1 .. Len(list)  BY <1>7 DEF FilterRegion, LoopInv, Typed, IteratorsOK
  <2>2. CASE OutOfRegion(At(list, i))
    <3>1. list' = Erase(list, i)  BY <1>7, <2>2 DEF FilterRegion
    <3>2. Len(list') = Len(list) - 1 /\ list' \in Seq(1 .. N) /\ Increasing'
      BY <1>2, <2>1, <3>1, ErasePreserves
    <3>3. i' = Succ(list', Succ(list', i - 1))  BY <1>7, <2>2 DEF FilterRegion
    <3>4. i' \in 0 .. Len(list')  BY <1>1, <2>1, <3>2, <3>3 DEF Succ
    <3>5. IteratorsOK'  BY <1>7, <3>4 DEF FilterRegion, LoopInv, Typed, IteratorsOK
    <3>. QED BY <1>1, <1>2, <1>3, <1>7, <3>2, <3>5 DEF FilterRegion, LoopInv, Typed
  <2>3. CASE ~OutOfRegion(At(list, i))
    <3>1. list' = list /\ i' = Succ(list, i)  BY <1>7, <2>3 DEF FilterRegion
    <3>2. IteratorsOK'
      BY <1>1, <1>7, <2>1, <3>1 DEF FilterRegion, LoopInv, Typed, IteratorsOK, Succ
    <3>. QED BY <1>2, <1>3, <1>7, <3>1, <3>2 DEF FilterRegion, LoopInv, Typed, Increasing
  <2>. QED BY <2>2, <2>3
<1>8. CASE EndFilter
  BY <1>1, <1>2, <1>3, <1>8 DEF EndFilter, LoopInv, Typed, IteratorsOK, Increasing
<1>. QED BY <1>4, <1>5, <1>6, <1>7, <1>8

LEMMA LoopStep == LoopInv /\ [Next]_vars => LoopInv'
<1> SUFFICES ASSUME LoopInv, [Next]_vars PROVE LoopInv'
  OBVIOUS
<1>1. CASE UNCHANGED vars
  BY <1>1 DEF vars, LoopInv, Typed, IteratorsOK, Increasing, Rows, Row, Free, At, N
<1>. QED BY <1>1, StepPass, StepSuppressOther, StepSuppressItself, StepNextRow, StepFilter
         DEF Next, Returned

-----------------------------------------------------------------------------
(* What suppression leaves.                                                *)

LEMMA RivalsStep == LoopInv /\ NoRivalsLeft /\ [Next]_vars => NoRivalsLeft'
<1> SUFFICES ASSUME LoopInv, NoRivalsLeft, [Next]_vars PROVE NoRivalsLeft'
  OBVIOUS
<1>1. CASE EndNms
  <2> SUFFICES ASSUME NEW m \in Nodes(list), NEW n \in Nodes(list), m # n
               PROVE  ~Rivals(input[m], input[n])
    BY <1>1 DEF EndNms, NoRivalsLeft
  <2>1. PICK p \in 1 .. Len(list) : m = list[p]  BY DEF Nodes
  <2>2. PICK q \in 1 .. Len(list) : n = list[q]  BY DEF Nodes
  <2>3. Free(p, q)  BY <1>1 DEF EndNms, LoopInv, Rows
  <2>. QED BY <2>1, <2>2, <2>3 DEF Free, At
<1>2. CASE pc # "nms" /\ pc' # "nms" /\ survivors' = survivors /\ input' = input
  BY <1>2 DEF NoRivalsLeft
<1>3. CASE pc' = "nms"  BY <1>3 DEF NoRivalsLeft
<1>. QED BY <1>1, <1>2, <1>3 DEF Next, Pass, SuppressOther, SuppressItself, NextRow, FilterClass,
           KeepClass, FilterRegion, EndFilter, Returned, vars

\* A step either leaves what is left as it is, or erases a node that has a
\* rival of at least its probability, which stays.
Erased(n) ==
  /\ n \in 1 .. N
  /\ Left \subseteq Left' \union {n}
  /\ \E m \in Left' :
       m # n /\ m \in 1 .. N /\ Rivals(input[n], input[m]) /\ input[m].prob >= input[n].prob

LEMMA LeftStep ==
  ASSUME LoopInv, [Next]_vars
  PROVE  input' = input /\ (Left' = Left \/ \E n \in Left : Erased(n))
<1> USE DEF LoopInv
<1>1. input' = input
  BY DEF Next, Pass, SuppressOther, SuppressItself, NextRow, EndNms, FilterClass, KeepClass,
         FilterRegion, EndFilter, Returned, vars
<1>2. ASSUME NEW p \in 1 .. Len(list), NEW q \in 1 .. Len(list), p # q, pc = "nms", pc' = "nms",
             list' = Erase(list, p), Rivals(At(list, p), At(list, q)),
             At(list, q).prob >= At(list, p).prob
      PROVE  \E n \in Left : Erased(n)
  <2>1. list[p] \in 1 .. N /\ list[q] \in 1 .. N /\ Len(list) \in Nat  BY InputTyped
  <2>2. list[p] # list[q]
    <3>1. p < q \/ q < p  BY <1>2, <2>1
    <3>. QED BY <3>1, <2>1 DEF Increasing
  <2>3. Nodes(list) \subseteq Nodes(list') \union {list[p]}
    BY <1>2, EraseNodes DEF Typed
  <2>4. list[p] \in Nodes(list) /\ list[q] \in Nodes(list')  BY <2>2, <2>3 DEF Nodes
  <2>5. Left = Nodes(list) /\ Left' = Nodes(list')  BY <1>2 DEF Left, Nodes
  <2>6. /\ Rivals(input[list[p]], input[list[q]])
        /\ input[list[q]].prob >= input[list[p]].prob
    BY <1>2 DEF At
  <2>7. Erased(list[p])  BY <2>1, <2>2, <2>3, <2>4, <2>5, <2>6 DEF Erased
  <2>. QED BY <2>4, <2>5, <2>7
<1>3. CASE SuppressOther
  <2>1. i \in 1 .. Len(list) /\ j \in 1 .. Len(list) /\ i # j
    BY <1>3, InputTyped DEF SuppressOther, Typed, IteratorsOK
  <2>2. At(list, i) \in Detections /\ At(list, j) \in Detections  BY <2>1, InputTyped
  <2>3. Rivals(At(list, j), At(list, i))  BY <1>3, <2>2, RivalsSymmetric DEF SuppressOther
  <2>4. At(list, i).prob >= At(list, j).prob
    BY <1>3, <2>2, DetectionsAssumption DEF SuppressOther
  <2>. QED BY <1>1, <1>2, <1>3, <2>1, <2>3, <2>4 DEF SuppressOther
<1>4. CASE SuppressItself
  <2>1. i \in 1 .. Len(list) /\ j \in 1 .. Len(list) /\ i # j
    BY <1>4, InputTyped DEF SuppressItself, Typed, IteratorsOK
  <2>2. At(list, i) \in Detections /\ At(list, j) \in Detections  BY <2>1, InputTyped
  <2>3. At(list, j).prob >= At(list, i).prob
    BY <1>4, <2>2, DetectionsAssumption DEF SuppressItself
  <2>. QED BY <1>1, <1>2, <1>4, <2>1, <2>3 DEF SuppressItself
<1>5. CASE ~SuppressOther /\ ~SuppressItself
  <2>1. Left' = Left
    BY <1>5 DEF Next, Left, Nodes, Pass, NextRow, EndNms, FilterClass, KeepClass, FilterRegion,
                EndFilter, Returned, vars
  <2>. QED BY <1>1, <2>1
<1>. QED BY <1>3, <1>4, <1>5

LEMMA UnbeatenStep == LoopInv /\ UnbeatenLeft /\ [Next]_vars => UnbeatenLeft'
<1> SUFFICES ASSUME LoopInv, UnbeatenLeft, [Next]_vars PROVE UnbeatenLeft'
  OBVIOUS
<1>1. input' = input /\ DOMAIN input = 1 .. N  BY LeftStep, InputTyped DEF LoopInv
<1> SUFFICES ASSUME NEW n \in DOMAIN input, Unbeaten(n) PROVE n \in Left'
  BY <1>1 DEF UnbeatenLeft, Unbeaten
<1>2. n \in Left  BY DEF UnbeatenLeft
<1>3. CASE Left' = Left  BY <1>2, <1>3
<1>4. ASSUME NEW e \in Left, Erased(e) PROVE n \in Left'
  <2>1. PICK m \in 1 .. N : /\ m # e /\ m \in Left'
                            /\ Rivals(input[e], input[m]) /\ input[m].prob >= input[e].prob
    BY <1>4 DEF Erased
  <2>2. n # e
    <3>1. input[e].prob \in Int /\ input[m].prob \in Int
      BY <1>4, InputTyped, DetectionsAssumption DEF LoopInv, Erased
    <3>. QED BY <1>1, <2>1, <3>1 DEF Unbeaten
  <2>. QED BY <1>2, <1>4, <2>2 DEF Erased
<1>. QED BY <1>3, <1>4, LeftStep

LEMMA BestStep == LoopInv /\ BestLeft /\ [Next]_vars => BestLeft'
<1> SUFFICES ASSUME LoopInv, BestLeft, [Next]_vars PROVE BestLeft'
  OBVIOUS
<1>1. input' = input /\ DOMAIN input = 1 .. N  BY LeftStep, InputTyped DEF LoopInv
<1> SUFFICES ASSUME NEW n \in DOMAIN input
             PROVE  \E m \in Left' : input[m].c = input[n].c /\ input[m].prob >= input[n].prob
  BY <1>1 DEF BestLeft
<1>2. PICK m \in Left : input[m].c = input[n].c /\ input[m].prob >= input[n].prob
  BY DEF BestLeft
<1>3. CASE m \in Left'  BY <1>2, <1>3
<1>4. ASSUME NEW e \in Left, Erased(e), m \notin Left'
      PROVE  \E k \in Left' : input[k].c = input[n].c /\ input[k].prob >= input[n].prob
  <2>1. m = e  BY <1>4 DEF Erased
  <2>2. PICK k \in Left' : /\ k \in 1 .. N
                           /\ Rivals(input[e], input[k]) /\ input[k].prob >= input[e].prob
    BY <1>4 DEF Erased
  <2>3. input[e].prob \in Int /\ input[k].prob \in Int /\ input[n].prob \in Int
    BY <1>1, <1>4, <2>2, InputTyped, DetectionsAssumption DEF LoopInv, Erased
  <2>. QED BY <1>2, <2>1, <2>2, <2>3 DEF Rivals
<1>. QED BY <1>3, <1>4, LeftStep

\* Rivals overlap, or one of them is at most a pixel.
LEMMA RivalsOverlap ==
  ASSUME NEW a \in Detections, NEW b \in Detections, Rivals(a, b)
  PROVE  Intersection(a, b) > 0 \/ Area(a) <= 1 \/ Area(b) <= 1
<1>1. /\ Area(a) \in Nat /\ Area(b) \in Nat
      /\ Intersection(a, b) \in Nat
  BY DetectionsAssumption DEF Area, Intersection, Least, Greatest
<1>2. ASSUME Intersection(a, b) = 0 PROVE ~IouExceeds(a, b)
  <2> DEFINE both == Area(a) + Area(b) - Intersection(a, b)
  <2>1. both \in Nat  BY <1>1, <1>2
  <2>2. \A x, y \in Nat : x * y >= 0  OBVIOUS
  <2>3. ThNms * both >= 0 /\ ThNms * both \in Int  BY <2>1, <2>2, ThNmsAssumption
  <2> HIDE DEF both
  <2>4. ~(100 * Intersection(a, b) > ThNms * both)  BY <1>2, <2>3
  <2>. QED BY <2>4 DEF IouExceeds, both
<1>. QED BY <1>1, <1>2 DEF Rivals, Overlap

LEMMA ReasonStep == LoopInv /\ ReasonLeft /\ [Next]_vars => ReasonLeft'
<1> SUFFICES ASSUME LoopInv, ReasonLeft, [Next]_vars PROVE ReasonLeft'
  OBVIOUS
<1>1. input' = input /\ DOMAIN input = 1 .. N  BY LeftStep, InputTyped DEF LoopInv
<1> SUFFICES ASSUME NEW n \in DOMAIN input, n \notin Left'
             PROVE  \E m \in DOMAIN input \ {n} : Reason(n, m)
  BY <1>1 DEF ReasonLeft, Reason
<1>2. CASE n \notin Left  BY <1>2 DEF ReasonLeft
<1>3. CASE n \in Left
  <2>1. PICK e \in Left : Erased(e)  BY <1>3, LeftStep
  <2>2. n = e  BY <1>3, <2>1 DEF Erased
  <2>3. PICK m \in 1 .. N : /\ m # n
                            /\ Rivals(input[n], input[m]) /\ input[m].prob >= input[n].prob
    BY <2>1, <2>2 DEF Erased
  <2>4. input[n] \in Detections /\ input[m] \in Detections
    BY <1>1, <2>3, InputTyped DEF LoopInv
  <2>5. Reason(n, m)  BY <2>3, <2>4, RivalsOverlap DEF Reason, Rivals
  <2>. QED BY <1>1, <2>3, <2>5
<1>. QED BY <1>2, <1>3

\* The second loop erases nothing that is allowed.
LEMMA AllowedStep == LoopInv /\ AllowedLeft /\ [Next]_vars => AllowedLeft'
<1> SUFFICES ASSUME LoopInv, AllowedLeft, [Next]_vars PROVE AllowedLeft'
  OBVIOUS
<1>1. input' = input  BY LeftStep
<1>2. ASSUME NEW p \in 1 .. Len(list), list' = Erase(list, p), ~Allowed(list[p]),
             pc \in {"filter", "region"}, survivors' = survivors
      PROVE  AllowedLeft'
  <2>1. Nodes(list) \subseteq Nodes(list') \union {list[p]}
    BY <1>2, EraseNodes DEF LoopInv, Typed
  <2>. QED BY <1>1, <1>2, <2>1 DEF AllowedLeft, Allowed, Nodes
<1>3. CASE FilterClass
  <2>1. i \in 1 .. Len(list)
    BY <1>3, InputTyped DEF FilterClass, LoopInv, Typed, IteratorsOK
  <2>. QED BY <1>2, <1>3, <2>1 DEF FilterClass, Allowed, At
<1>4. CASE FilterRegion /\ OutOfRegion(At(list, i))
  <2>1. i \in 1 .. Len(list)
    BY <1>4 DEF FilterRegion, LoopInv, Typed, IteratorsOK
  <2>. QED BY <1>2, <1>4, <2>1 DEF FilterRegion, Allowed, At
<1>5. CASE EndNms  BY <1>1, <1>5 DEF EndNms, AllowedLeft
<1>6. CASE pc' = "nms"  BY <1>6 DEF AllowedLeft
<1>7. CASE list' = list /\ survivors' = survivors /\ pc # "nms"
  BY <1>1, <1>7 DEF AllowedLeft, Allowed, Nodes, LoopInv, Typed
<1>. QED BY <1>3, <1>4, <1>5, <1>6, <1>7 DEF Next, Pass, SuppressOther, SuppressItself, NextRow,
           KeepClass, FilterRegion, EndFilter, Returned, vars

-----------------------------------------------------------------------------
(* The theorems.                                                           *)

LEMMA InitInv == Init => Inv
<1> SUFFICES ASSUME Init PROVE Inv
  OBVIOUS
<1>1. LoopInv  BY LoopInit
<1>2. Typed /\ DOMAIN input = 1 .. N /\ N \in Nat  BY <1>1, InputTyped DEF LoopInv
<1>3. Nodes(list) = DOMAIN input
  <2>1. \A n \in 1 .. N : list[n] = n  BY DEF Init, N
  <2>2. Len(list) = N
    <3>1. list \in [1 .. N -> 1 .. N]  BY DEF Init, N
    <3>. QED BY <1>2, <3>1, FunctionIsSequence
  <2>. QED BY <1>2, <2>1, <2>2 DEF Nodes
<1>4. survivors = {} /\ pc \in {"nms", "done"} /\ (pc = "done" => input = <<>>)
  BY DEF Init
<1>5. pc = "done" => DOMAIN input = {}
  <2>1. input = <<>> => N = 0  BY EmptySeq DEF N
  <2>. QED BY <1>2, <1>4, <2>1
<1>6. NoRivalsLeft /\ AllowedLeft  BY <1>4 DEF NoRivalsLeft, AllowedLeft
<1>7. UnbeatenLeft  BY <1>3, <1>4, <1>5 DEF UnbeatenLeft, Left
<1>8. BestLeft
  <2> SUFFICES ASSUME NEW n \in DOMAIN input
               PROVE  \E m \in Left : input[m].c = input[n].c /\ input[m].prob >= input[n].prob
    BY DEF BestLeft
  <2>1. n \in Left  BY <1>3, <1>4, <1>5 DEF Left
  <2>2. input[n].prob \in Int  BY <1>2, InputTyped, DetectionsAssumption
  <2>. QED BY <2>1, <2>2
<1>9. ReasonLeft  BY <1>3, <1>4, <1>5 DEF ReasonLeft, Left
<1>. QED BY <1>1, <1>6, <1>7, <1>8, <1>9 DEF Inv

\* The inductive invariant, from which the theorems about apply follow.
THEOREM Invariant == Spec => []Inv
<1>1. Inv /\ [Next]_vars => Inv'
  BY LoopStep, RivalsStep, UnbeatenStep, BestStep, ReasonStep, AllowedStep DEF Inv
<1>. QED BY InitInv, <1>1, PTL DEF Spec

\* Nodes and iterators are in range: apply reads no node that is not there,
\* but for the sentinel in the state "undefined".
THEOREM TypeCorrect == Spec => []TypeOK
<1>1. Inv => TypeOK
  <2> SUFFICES ASSUME Inv PROVE TypeOK
    OBVIOUS
  <2>1. Len(list) \in Nat /\ Nodes(list) \subseteq 1 .. N  BY InputTyped DEF Inv, LoopInv
  <2>. QED BY <2>1 DEF Inv, LoopInv, Typed, IteratorsOK, TypeOK, Greatest, N
<1>. QED BY <1>1, Invariant, PTL

\* filter_boxes_nms leaves no two rivals.
THEOREM NoRivals == Spec => []NoRivalsLeft
<1>1. Inv => NoRivalsLeft  BY DEF Inv
<1>. QED BY <1>1, Invariant, PTL

\* filter_boxes_nms never erases a detection that beats all its rivals.
THEOREM UnbeatenStays == Spec => []UnbeatenSurvives
<1>1. Inv => UnbeatenSurvives
  BY DEF Inv, UnbeatenLeft, Unbeaten, Left, UnbeatenSurvives
<1>. QED BY <1>1, Invariant, PTL

\* filter_boxes_nms keeps the best probability of every class.
THEOREM BestStays == Spec => []BestOfClassSurvives
<1>1. Inv => BestOfClassSurvives
  BY DEF Inv, BestLeft, Left, BestOfClassSurvives
<1>. QED BY <1>1, Invariant, PTL

\* filter_boxes_nms loses a detection only to one it overlaps, or that a box
\* of at most a pixel is involved in.
THEOREM SuppressionHasReason == Spec => []SuppressedHasReason
<1>1. Inv => SuppressedHasReason
  BY DEF Inv, ReasonLeft, Reason, Left, SuppressedHasReason
<1>. QED BY <1>1, Invariant, PTL

\* The second loop of apply erases nothing that is wanted.
THEOREM WantedStays == Spec => []AllowedStays
<1>1. Inv => AllowedStays
  BY DEF Inv, AllowedLeft, Allowed, AllowedStays
<1>. QED BY <1>1, Invariant, PTL
=============================================================================
