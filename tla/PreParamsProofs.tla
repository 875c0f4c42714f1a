--------------------------- MODULE PreParamsProofs ---------------------------
(***************************************************************************)
(* Lemmas about the operators that change the parameters of a model: what  *)
(* each of them keeps, for any model that DRP-AI's translator makes.       *)
(***************************************************************************)
EXTENDS PreParams, NaturalLemmas

-----------------------------------------------------------------------------
(* The operators of a model                                                *)

OperatorFields == {"lib", "in", "out", "channels", "din", "dout", "order", "crop_at", "alg"}

\* ops has the operators of the model m, with parameters of their own.
SameLibs(m, ops) ==
  /\ Len(ops) = Len(m)
  /\ ops = [i \in DOMAIN m |-> ops[i]]
  /\ \A i \in DOMAIN m : DOMAIN ops[i] = OperatorFields /\ ops[i].lib = m[i].lib

LEMMA OperatorsHaveFields == ASSUME NEW m \in Seq(Operators) PROVE SameLibs(m, m)
<1>1. ASSUME NEW op \in Operators PROVE DOMAIN op = OperatorFields
  BY <1>1 DEF Operators, OperatorFields
<1>. QED BY <1>1 DEF SameLibs

\* A sequence made element by element is as long as the one it is made of.
LEMMA SequenceOf ==
  ASSUME NEW m \in Seq(Operators), NEW f, f = [i \in DOMAIN m |-> f[i]]
  PROVE  Len(f) = Len(m)
<1>1. DOMAIN m = 1 .. Len(m) /\ Len(m) \in Nat  OBVIOUS
<1>2. f \in Seq({f[i] : i \in DOMAIN m})
  <2>1. f \in [1 .. Len(m) -> {f[i] : i \in DOMAIN m}]  BY <1>1
  <2>. QED BY <1>1, <2>1
<1>3. DOMAIN f = 1 .. Len(f) /\ Len(f) \in Nat  BY <1>2
<1>. QED BY <1>1, <1>3

LEMMA FirstIsLeast ==
  ASSUME NEW ops, NEW libs, Indices(ops, libs) \subseteq Nat
  PROVE  IF Indices(ops, libs) = {}
           THEN First(ops, libs) = Len(ops) + 1
           ELSE First(ops, libs) \in Indices(ops, libs)
                  /\ \A j \in Indices(ops, libs) : First(ops, libs) <= j
<1> DEFINE T == Indices(ops, libs)
<1>1. CASE T = {}  BY <1>1 DEF First
<1>2. CASE T # {}
  <2>1. First(ops, libs) = CHOOSE i \in T : \A j \in T : i <= j  BY <1>2 DEF First
  <2> HIDE DEF T
  <2>2. \E i \in T : \A j \in T : i <= j  BY <1>2, LeastNatural DEF T
  <2>3. First(ops, libs) \in T /\ \A j \in T : First(ops, libs) <= j  BY <2>1, <2>2
  <2>. QED BY <1>2, <2>3 DEF T
<1>. QED BY <1>1, <1>2

\* The operators of a library are where they are in the model.
LEMMA IndicesSame ==
  ASSUME NEW m \in Seq(Operators), NEW ops, SameLibs(m, ops), NEW libs
  PROVE  /\ Indices(ops, libs) = Indices(m, libs)
         /\ First(ops, libs) = First(m, libs)
<1>1. DOMAIN ops = DOMAIN m  BY DEF SameLibs
<1>2. Indices(ops, libs) = Indices(m, libs)  BY <1>1 DEF Indices, SameLibs
<1>3. Indices(m, libs) \subseteq Nat  BY DEF Indices
<1>4. First(ops, libs) = First(m, libs)
  <2>1. CASE Indices(m, libs) = {}
    BY <1>2, <1>3, <2>1, FirstIsLeast DEF SameLibs
  <2>2. CASE Indices(m, libs) # {}
    <3>1. /\ First(m, libs) \in Indices(m, libs) /\ First(ops, libs) \in Indices(m, libs)
          /\ First(m, libs) <= First(ops, libs) /\ First(ops, libs) <= First(m, libs)
      BY <1>2, <1>3, <2>2, FirstIsLeast
    <3>. QED BY <1>3, <3>1
  <2>. QED BY <2>1, <2>2
<1>. QED BY <1>2, <1>4

LEMMA HasSame ==
  ASSUME NEW m \in Seq(Operators), NEW ops, SameLibs(m, ops), NEW lib
  PROVE  Has(ops, lib) <=> Has(m, lib)
BY IndicesSame DEF Has

\* No operator before the first of some libraries is one of them.
LEMMA FirstIsFirst ==
  ASSUME NEW m \in Seq(Operators), NEW libs
  PROVE  /\ First(m, libs) \in 1 .. Len(m) + 1
         /\ First(m, libs) <= Len(m) => m[First(m, libs)].lib \in libs
         /\ \A i \in DOMAIN m : m[i].lib \in libs => First(m, libs) <= i
<1>1. Indices(m, libs) \subseteq DOMAIN m /\ DOMAIN m = 1 .. Len(m) /\ Len(m) \in Nat
  BY DEF Indices
<1>2. CASE Indices(m, libs) = {}
  <2>1. First(m, libs) = Len(m) + 1  BY <1>1, <1>2, FirstIsLeast
  <2>2. \A i \in DOMAIN m : m[i].lib \notin libs  BY <1>2 DEF Indices
  <2>. QED BY <1>1, <2>1, <2>2
<1>3. CASE Indices(m, libs) # {}
  <2>1. First(m, libs) \in Indices(m, libs) /\ \A j \in Indices(m, libs) : First(m, libs) <= j
    BY <1>1, <1>3, FirstIsLeast
  <2>. QED BY <1>1, <2>1 DEF Indices
<1>. QED BY <1>2, <1>3

LEMMA SameLibsDomain ==
  ASSUME NEW m, Translated(m), NEW ops, SameLibs(m, ops)
  PROVE  /\ m \in Seq(Operators) /\ Len(m) \in Nat \ {0} /\ DOMAIN m = 1 .. Len(m)
         /\ DOMAIN ops = DOMAIN m
         /\ \A i \in DOMAIN m : DOMAIN ops[i] = OperatorFields /\ ops[i].lib = m[i].lib
BY DEF Translated, SameLibs

LEMMA SameLibsMade ==
  ASSUME NEW m, Translated(m), NEW new, new = [i \in DOMAIN m |-> new[i]],
         \A i \in DOMAIN m : DOMAIN new[i] = OperatorFields /\ new[i].lib = m[i].lib
  PROVE  SameLibs(m, new)
BY SequenceOf DEF Translated, SameLibs

-----------------------------------------------------------------------------
(* What the changes of each parameter keep                                 *)

\* Each operator reads the shape that the one before it writes.
Chained(m, ops) == \A i \in 1 .. Len(m) - 1 : ops[i].out = ops[i + 1].in

SameShapes(m, ops, new) == \A i \in DOMAIN m : new[i].in = ops[i].in /\ new[i].out = ops[i].out

SameColours(m, ops, new) ==
  \A i \in DOMAIN m :
    new[i].din = ops[i].din /\ new[i].dout = ops[i].dout /\ new[i].order = ops[i].order

LEMMA SameShapesChained ==
  ASSUME NEW m, Translated(m), NEW ops, NEW new, SameShapes(m, ops, new), Chained(m, ops)
  PROVE  Chained(m, new)
<1>1. Len(m) \in Nat /\ DOMAIN m = 1 .. Len(m)  BY DEF Translated
<1>. QED BY <1>1 DEF SameShapes, Chained

LEMMA InputShapeKeeps ==
  ASSUME NEW m, Translated(m), NEW ops, SameLibs(m, ops), NEW w
  PROVE  /\ SameLibs(m, UpdateInputShape(ops, w))
         /\ SameColours(m, ops, UpdateInputShape(ops, w))
         /\ Chained(m, ops) /\ ~Has(m, "crop") => Chained(m, UpdateInputShape(ops, w))
<1> DEFINE stop == First(m, {"resize_hwc", "crop"})
           new == UpdateInputShape(ops, w)
<1>1. /\ m \in Seq(Operators) /\ DOMAIN m = 1 .. Len(m) /\ Len(m) \in Nat /\ DOMAIN ops = DOMAIN m
      /\ \A i \in DOMAIN m : DOMAIN ops[i] = OperatorFields /\ ops[i].lib = m[i].lib
  BY SameLibsDomain
<1>2. new = [i \in DOMAIN m |->
                IF i > stop THEN ops[i]
                ELSE IF ops[i].lib = "resize_hwc" THEN [ops[i] EXCEPT !.in = w]
                ELSE [ops[i] EXCEPT !.in = w, !.out = w]]
  BY <1>1, IndicesSame DEF UpdateInputShape
<1>3. /\ stop \in Nat
      /\ stop <= Len(m) => m[stop].lib \in {"resize_hwc", "crop"}
      /\ \A i \in DOMAIN m : m[i].lib \in {"resize_hwc", "crop"} => stop <= i
  BY <1>1, FirstIsFirst
<1> HIDE DEF new, stop
<1>4. ASSUME NEW i \in DOMAIN m
      PROVE  /\ DOMAIN new[i] = OperatorFields /\ new[i].lib = m[i].lib
             /\ new[i].din = ops[i].din /\ new[i].dout = ops[i].dout /\ new[i].order = ops[i].order
             /\ i > stop => new[i] = ops[i]
             /\ i <= stop => new[i].in = w
             /\ i <= stop => new[i].out = IF m[i].lib = "resize_hwc" THEN ops[i].out ELSE w
  <2>1. DOMAIN ops[i] = OperatorFields /\ ops[i].lib = m[i].lib  BY <1>1
  <2>2. i \in Nat /\ (i <= stop <=> ~(i > stop))  BY <1>1, <1>3
  <2>3. new[i] = IF i > stop THEN ops[i]
                 ELSE IF ops[i].lib = "resize_hwc" THEN [ops[i] EXCEPT !.in = w]
                 ELSE [ops[i] EXCEPT !.in = w, !.out = w]
    BY <1>2, Zenon
  <2>4. CASE i > stop  BY <2>1, <2>2, <2>3, <2>4
  <2>5. CASE i <= stop /\ m[i].lib = "resize_hwc"
    <3>1. new[i] = [ops[i] EXCEPT !.in = w]  BY <2>1, <2>2, <2>3, <2>5
    <3>. QED BY <2>1, <2>2, <2>5, <3>1 DEF OperatorFields
  <2>6. CASE i <= stop /\ m[i].lib # "resize_hwc"
    <3>1. new[i] = [ops[i] EXCEPT !.in = w, !.out = w]  BY <2>1, <2>2, <2>3, <2>6
    <3>. QED BY <2>1, <2>2, <2>6, <3>1 DEF OperatorFields
  <2>. QED BY <2>2, <2>4, <2>5, <2>6
<1>5. SameLibs(m, new)
  <2>1. new = [i \in DOMAIN m |-> new[i]]  BY <1>2
  <2>. QED BY <1>4, <2>1, SameLibsMade
<1>6. SameColours(m, ops, new)  BY <1>4 DEF SameColours
<1>7. ASSUME Chained(m, ops), ~Has(m, "crop") PROVE Chained(m, new)
  <2>1. \A i \in DOMAIN m : m[i].lib # "crop"  BY <1>7 DEF Has, Indices
  <2>2. \A i \in DOMAIN m : i < stop => new[i].out = w  BY <1>1, <1>3, <1>4
  <2>3. \A i \in DOMAIN m : i = stop => new[i].out = ops[i].out  BY <1>1, <1>3, <1>4, <2>1
  <2> SUFFICES ASSUME NEW i \in 1 .. Len(m) - 1 PROVE new[i].out = new[i + 1].in
    BY DEF Chained
  <2>4. i \in DOMAIN m /\ i + 1 \in DOMAIN m /\ i \in Nat /\ ops[i].out = ops[i + 1].in
    BY <1>1, <1>7 DEF Chained
  <2>5. CASE i < stop  BY <1>3, <1>4, <2>2, <2>4, <2>5
  <2>6. CASE i >= stop  BY <1>3, <1>4, <2>3, <2>4, <2>6
  <2>. QED BY <1>3, <2>4, <2>5, <2>6
<1>. QED BY <1>5, <1>6, <1>7 DEF new

LEMMA ResizeShapeKeeps ==
  ASSUME NEW m, Translated(m), NEW ops, SameLibs(m, ops), NEW copies, NEW w
  PROVE  /\ SameLibs(m, UpdateResizeShape(ops, copies, w))
         /\ SameColours(m, ops, UpdateResizeShape(ops, copies, w))
         /\ copies <= 1 /\ Chained(m, ops) => Chained(m, UpdateResizeShape(ops, copies, w))
<1> DEFINE from == First(m, {"resize_hwc"})
           new == UpdateResizeShape(ops, copies, w)
<1>1. /\ m \in Seq(Operators) /\ DOMAIN m = 1 .. Len(m) /\ Len(m) \in Nat /\ DOMAIN ops = DOMAIN m
      /\ \A i \in DOMAIN m : DOMAIN ops[i] = OperatorFields /\ ops[i].lib = m[i].lib
  BY SameLibsDomain
<1>2. new = [i \in DOMAIN m |->
                IF i < from /\ copies <= 1 THEN ops[i]
                ELSE IF ops[i].lib = "resize_hwc" THEN [ops[i] EXCEPT !.out = w]
                ELSE [ops[i] EXCEPT !.in = w, !.out = w]]
  BY <1>1, IndicesSame DEF UpdateResizeShape
<1>3. from \in Nat /\ \A i \in DOMAIN m : m[i].lib = "resize_hwc" <=> i = from
  <2>1. from \in Nat /\ (from <= Len(m) => m[from].lib = "resize_hwc")
        /\ \A i \in DOMAIN m : m[i].lib = "resize_hwc" => from <= i
    BY <1>1, FirstIsFirst
  <2>2. \A i \in DOMAIN m : i = from => m[i].lib = "resize_hwc"  BY <1>1, <2>1
  <2>3. \A i, j \in DOMAIN m : m[i].lib = "resize_hwc" /\ m[j].lib = "resize_hwc" => i = j
    BY DEF Translated, Indices
  <2>4. \A i \in DOMAIN m : m[i].lib = "resize_hwc" => from \in DOMAIN m
    <3>1. from \in 1 .. Len(m) + 1  BY <1>1, FirstIsFirst
    <3>. QED BY <1>1, <2>1, <3>1
  <2>. QED BY <1>1, <2>1, <2>2, <2>3, <2>4
<1> HIDE DEF new, from
<1>4. ASSUME NEW i \in DOMAIN m
      PROVE  /\ DOMAIN new[i] = OperatorFields /\ new[i].lib = m[i].lib
             /\ new[i].din = ops[i].din /\ new[i].dout = ops[i].dout /\ new[i].order = ops[i].order
             /\ i < from /\ copies <= 1 => new[i] = ops[i]
             /\ i >= from => new[i].out = w
             /\ i >= from => new[i].in = IF m[i].lib = "resize_hwc" THEN ops[i].in ELSE w
  <2>1. DOMAIN ops[i] = OperatorFields /\ ops[i].lib = m[i].lib  BY <1>1
  <2>2. i \in Nat /\ (i >= from <=> ~(i < from))  BY <1>1, <1>3
  <2>3. new[i] = IF i < from /\ copies <= 1 THEN ops[i]
                 ELSE IF ops[i].lib = "resize_hwc" THEN [ops[i] EXCEPT !.out = w]
                 ELSE [ops[i] EXCEPT !.in = w, !.out = w]
    BY <1>2, Zenon
  <2>4. CASE i < from /\ copies <= 1  BY <2>1, <2>2, <2>3, <2>4
  <2>5. CASE ~(i < from /\ copies <= 1) /\ m[i].lib = "resize_hwc"
    <3>1. new[i] = [ops[i] EXCEPT !.out = w]  BY <2>1, <2>3, <2>5
    <3>. QED BY <2>1, <2>2, <2>5, <3>1 DEF OperatorFields
  <2>6. CASE ~(i < from /\ copies <= 1) /\ m[i].lib # "resize_hwc"
    <3>1. new[i] = [ops[i] EXCEPT !.in = w, !.out = w]  BY <2>1, <2>3, <2>6
    <3>. QED BY <2>1, <2>2, <2>6, <3>1 DEF OperatorFields
  <2>. QED BY <2>4, <2>5, <2>6
<1>5. SameLibs(m, new)
  <2>1. new = [i \in DOMAIN m |-> new[i]]  BY <1>2
  <2>. QED BY <1>4, <2>1, SameLibsMade
<1>6. SameColours(m, ops, new)  BY <1>4 DEF SameColours
<1>7. ASSUME copies <= 1, Chained(m, ops) PROVE Chained(m, new)
  <2> SUFFICES ASSUME NEW i \in 1 .. Len(m) - 1 PROVE new[i].out = new[i + 1].in
    BY DEF Chained
  <2>1. i \in DOMAIN m /\ i + 1 \in DOMAIN m /\ i \in Nat /\ ops[i].out = ops[i + 1].in
    BY <1>1, <1>7 DEF Chained
  <2>2. CASE i + 1 < from  BY <1>3, <1>4, <1>7, <2>1, <2>2
  <2>3. CASE i + 1 = from
    <3>1. new[i].out = ops[i].out  BY <1>3, <1>4, <1>7, <2>1, <2>3
    <3>2. new[i + 1].in = ops[i + 1].in  BY <1>3, <1>4, <2>1, <2>3
    <3>. QED BY <1>3, <1>4, <2>1, <2>3, <3>1, <3>2
  <2>4. CASE i >= from  BY <1>3, <1>4, <2>1, <2>4
  <2>. QED BY <1>3, <2>1, <2>2, <2>3, <2>4
<1>. QED BY <1>5, <1>6, <1>7 DEF new

LEMMA CropParamKeeps ==
  ASSUME NEW m, Translated(m), NEW ops, SameLibs(m, ops), NEW copies,
         NEW at, NEW w
  PROVE  /\ SameLibs(m, UpdateCropParam(ops, copies, at, w))
         /\ SameColours(m, ops, UpdateCropParam(ops, copies, at, w))
<1> DEFINE new == UpdateCropParam(ops, copies, at, w)
<1>1. /\ DOMAIN ops = DOMAIN m
      /\ \A i \in DOMAIN m : DOMAIN ops[i] = OperatorFields /\ ops[i].lib = m[i].lib
  BY SameLibsDomain
<1>2. /\ new = [i \in DOMAIN m |-> new[i]]
      /\ \A i \in DOMAIN m : \/ new[i] = ops[i]
                             \/ new[i] = [ops[i] EXCEPT !.crop_at = at, !.out = w]
                             \/ new[i] = [ops[i] EXCEPT !.in = w]
                             \/ new[i] = [ops[i] EXCEPT !.in = w, !.out = w]
  BY <1>1 DEF UpdateCropParam
<1> HIDE DEF new
<1>3. ASSUME NEW i \in DOMAIN m
      PROVE  /\ DOMAIN new[i] = OperatorFields /\ new[i].lib = m[i].lib
             /\ new[i].din = ops[i].din /\ new[i].dout = ops[i].dout /\ new[i].order = ops[i].order
  BY <1>1, <1>2 DEF OperatorFields
<1>4. SameLibs(m, new)
  <2>1. new = [i \in DOMAIN m |-> new[i]]  BY <1>2
  <2>. QED BY <1>3, <2>1, SameLibsMade
<1>5. SameColours(m, ops, new)  BY <1>3 DEF SameColours
<1>. QED BY <1>4, <1>5 DEF new

LEMMA ResizeAlgKeeps ==
  ASSUME NEW m, Translated(m), NEW ops, SameLibs(m, ops), NEW val
  PROVE  /\ SameLibs(m, UpdateResizeAlg(ops, val))
         /\ SameColours(m, ops, UpdateResizeAlg(ops, val))
         /\ SameShapes(m, ops, UpdateResizeAlg(ops, val))
<1> DEFINE new == UpdateResizeAlg(ops, val)
<1>1. /\ DOMAIN ops = DOMAIN m
      /\ \A i \in DOMAIN m : DOMAIN ops[i] = OperatorFields /\ ops[i].lib = m[i].lib
  BY SameLibsDomain
<1>2. /\ new = [i \in DOMAIN m |-> new[i]]
      /\ \A i \in DOMAIN m : new[i] = ops[i] \/ new[i] = [ops[i] EXCEPT !.alg = val]
  BY <1>1 DEF UpdateResizeAlg
<1> HIDE DEF new
<1>3. ASSUME NEW i \in DOMAIN m
      PROVE  /\ DOMAIN new[i] = OperatorFields /\ new[i].lib = m[i].lib
             /\ new[i].din = ops[i].din /\ new[i].dout = ops[i].dout /\ new[i].order = ops[i].order
             /\ new[i].in = ops[i].in /\ new[i].out = ops[i].out
  BY <1>1, <1>2 DEF OperatorFields
<1>4. SameLibs(m, new)
  <2>1. new = [i \in DOMAIN m |-> new[i]]  BY <1>2
  <2>. QED BY <1>3, <2>1, SameLibsMade
<1>5. SameColours(m, ops, new)  BY <1>3 DEF SameColours
<1>6. SameShapes(m, ops, new)  BY <1>3 DEF SameShapes
<1>. QED BY <1>4, <1>5, <1>6 DEF new

LEMMA FormatKeepsShapes ==
  ASSUME NEW m, Translated(m), NEW ops, SameLibs(m, ops), NEW cur, NEW in, NEW out
  PROVE  /\ SameLibs(m, UpdateFormat(ops, cur, in, out))
         /\ SameShapes(m, ops, UpdateFormat(ops, cur, in, out))
<1> DEFINE new == UpdateFormat(ops, cur, in, out)
<1>1. /\ DOMAIN ops = DOMAIN m
      /\ \A i \in DOMAIN m : DOMAIN ops[i] = OperatorFields /\ ops[i].lib = m[i].lib
  BY SameLibsDomain
<1>2. /\ new = [i \in DOMAIN m |-> new[i]]
      /\ \A i \in DOMAIN m : \/ new[i] = ops[i]
                             \/ \E x, y : new[i] = [ops[i] EXCEPT !.din = x, !.dout = y]
                             \/ \E x : new[i] = [ops[i] EXCEPT !.din = x]
                             \/ \E x : new[i] = [ops[i] EXCEPT !.order = x]
  <2>1. CASE in \in YUV  BY <1>1, <2>1 DEF UpdateFormat, UpdateYuvFormat
  <2>2. CASE in \notin YUV  BY <1>1, <2>2 DEF UpdateFormat, UpdateColourFormat
  <2>. QED BY <2>1, <2>2
<1> HIDE DEF new
<1>3. ASSUME NEW i \in DOMAIN m
      PROVE  /\ DOMAIN new[i] = OperatorFields /\ new[i].lib = m[i].lib
             /\ new[i].in = ops[i].in /\ new[i].out = ops[i].out
  BY <1>1, <1>2 DEF OperatorFields
<1>4. SameLibs(m, new)
  <2>1. new = [i \in DOMAIN m |-> new[i]]  BY <1>2
  <2>. QED BY <1>3, <2>1, SameLibsMade
<1>5. SameShapes(m, ops, new)  BY <1>3 DEF SameShapes
<1>. QED BY <1>4, <1>5 DEF new

-----------------------------------------------------------------------------
(* The colours                                                             *)

\* The parameters that decide on the colours, for each kind of model: one that
\* converts from YUV, one that makes grey, and one that does neither.
Agrees(m, ops, in, out) ==
  LET scaler == First(m, {"imagescaler"})
  IN /\ m[1].lib = "conv_yuv2rgb" =>
          /\ in \in YUV /\ out \in Colour /\ ops[1].din = in /\ ops[1].dout = out
          /\ Has(m, "imagescaler") => ops[scaler].order # 1
     /\ m[1].lib = "conv_x2gray" =>
          in \in YUV \union Colour /\ out = "GRAY" /\ ops[1].din = in
     /\ m[1].lib \notin Conversions =>
          /\ in \notin YUV
          /\ ~Has(m, "imagescaler") => in = "GRAY"
          /\ out = IF Has(m, "imagescaler") /\ ops[scaler].order = 1 THEN Swapped(in) ELSE in

LEMMA FormatNames ==
  /\ "GRAY" \notin YUV \union Colour /\ Unknown \notin YUV \union Colour \union {"GRAY"}
  /\ YUV \cap Colour = {}
  /\ SupportedOut = Colour \union {"GRAY"} /\ SupportedIn = YUV \union Colour \union {"GRAY"}
  /\ \A f : f \notin Colour => Swapped(f) = f
  /\ \A f \in Colour : Swapped(f) \in Colour /\ Swapped(f) # f
  /\ \A f, g \in Colour : f # g => g = Swapped(f)
BY DEF YUV, YUV422, YUV420, Colour, SupportedIn, SupportedOut, Unknown, Swapped

\* LoadParamInfo reads what the operators do.
LEMMA ReadFormatsAgree ==
  ASSUME NEW m, Translated(m), Convertible(m)
  PROVE  Agrees(m, m, ReadFormats(m)[1], ReadFormats(m)[2])
<1> DEFINE scaler == First(m, {"imagescaler"})
           formats == ConversionFormats(m[1])
           swaps == Has(m, "imagescaler") /\ m[scaler].order = 1
           in == ReadFormats(m)[1]
           out == ReadFormats(m)[2]
<1>1. in = formats[1] /\ out = IF swaps THEN Swapped(formats[2]) ELSE formats[2]
  BY DEF ReadFormats, ConversionFormats
<1>2. CASE m[1].lib = "conv_yuv2rgb"
  <2>1. m[1].din \in YUV /\ m[1].dout \in Colour  BY <1>2 DEF Translated
  <2>2. in = m[1].din /\ out = m[1].dout  BY <1>1, <1>2 DEF ConversionFormats, Convertible
  <2>3. ~swaps  BY <1>1, <1>2, <2>1, <2>2, FormatNames DEF ConversionFormats
  <2>. QED BY <1>2, <2>1, <2>2, <2>3 DEF Agrees, Conversions
<1>3. CASE m[1].lib = "conv_x2gray"
  <2>1. m[1].din \in YUV \union Colour  BY <1>3 DEF Translated
  <2>2. in = m[1].din /\ out = "GRAY"  BY <1>1, <1>3, FormatNames DEF ConversionFormats
  <2>. QED BY <1>3, <2>1, <2>2 DEF Agrees, Conversions
<1>4. CASE m[1].lib \notin Conversions
  <2>1. formats[1] = formats[2] /\ formats[1] \in {"GRAY", "RGB", Unknown}
        /\ (m[1].channels = 1 => formats[1] = "GRAY")
    BY <1>4 DEF ConversionFormats, Conversions
  <2>2. ~Has(m, "imagescaler") => in = "GRAY"  BY <1>1, <1>4, <2>1 DEF Convertible
  <2>3. in \notin YUV  BY <1>1, <2>1, FormatNames DEF YUV, YUV422, YUV420
  <2>4. out = IF swaps THEN Swapped(in) ELSE in  BY <1>1, <2>1
  <2>. QED BY <1>4, <2>2, <2>3, <2>4 DEF Agrees, Conversions
<1>. QED BY <1>2, <1>3, <1>4 DEF Conversions

\* A supported change of the formats changes what the operators do in the
\* same way.
LEMMA FormatAgrees ==
  ASSUME NEW m, Translated(m), NEW ops, SameLibs(m, ops), NEW cur, NEW in, NEW out,
         Agrees(m, ops, cur.in_format, cur.out_format), IsSupportedFormat(cur, in, out),
         ~(in = cur.in_format /\ out = cur.out_format)
  PROVE  Agrees(m, UpdateFormat(ops, cur, in, out), in, out)
<1> DEFINE scaler == First(m, {"imagescaler"})
           stop == First(m, {"conv_x2gray", "imagescaler"})
           new == UpdateFormat(ops, cur, in, out)
<1>1. /\ m \in Seq(Operators) /\ Len(m) \in Nat \ {0} /\ DOMAIN m = 1 .. Len(m)
      /\ DOMAIN ops = DOMAIN m
      /\ \A i \in DOMAIN m : DOMAIN ops[i] = OperatorFields /\ ops[i].lib = m[i].lib
  BY SameLibsDomain
<1>2. FormatEnd(ops) = stop  BY <1>1, IndicesSame DEF FormatEnd
<1>3. /\ in \in YUV => new = UpdateYuvFormat(ops, in, out, cur.out_format # out)
      /\ in \notin YUV => new = UpdateColourFormat(ops, in, out)
  BY DEF UpdateFormat
<1>4. /\ in \in SupportedIn /\ out \in SupportedOut
      /\ (cur.in_format = "GRAY") <=> (in = "GRAY")
      /\ (cur.out_format = "GRAY") <=> (out = "GRAY")
      /\ (cur.in_format \in YUV) <=> (in \in YUV)
  BY DEF IsSupportedFormat
<1>5. \A i \in DOMAIN m : m[i].lib = "conv_x2gray" => i = 1  BY DEF Translated, Indices, Conversions
<1>6. Has(m, "imagescaler") <=> \E i \in DOMAIN m : m[i].lib = "imagescaler"  BY DEF Has, Indices
<1>7. /\ scaler \in 1 .. Len(m) + 1 /\ (scaler <= Len(m) => m[scaler].lib = "imagescaler")
      /\ \A i \in DOMAIN m : m[i].lib = "imagescaler" => scaler <= i
      /\ stop \in 1 .. Len(m) + 1
      /\ stop <= Len(m) => m[stop].lib \in {"conv_x2gray", "imagescaler"}
      /\ \A i \in DOMAIN m : m[i].lib \in {"conv_x2gray", "imagescaler"} => stop <= i
  BY <1>1, FirstIsFirst
<1>8. Has(m, "imagescaler") => scaler \in DOMAIN m  BY <1>1, <1>6, <1>7
<1>9. m[1].lib # "conv_x2gray" /\ Has(m, "imagescaler") => stop = scaler
  BY <1>1, <1>5, <1>6, <1>7, <1>8
<1> HIDE DEF scaler, stop, new
<1>10. ASSUME in \in YUV, NEW i \in DOMAIN m
       PROVE  new[i] = IF i > stop THEN ops[i]
                       ELSE IF ops[i].lib = "conv_yuv2rgb" THEN
                         [ops[i] EXCEPT !.din = in,
                                        !.dout = IF cur.out_format # out /\ out \in Colour THEN out ELSE @]
                       ELSE IF ops[i].lib = "conv_x2gray" THEN [ops[i] EXCEPT !.din = in]
                       ELSE IF ops[i].lib = "imagescaler" THEN [ops[i] EXCEPT !.order = 0]
                       ELSE ops[i]
  BY <1>1, <1>2, <1>3, <1>10 DEF UpdateYuvFormat
<1>11. CASE m[1].lib = "conv_yuv2rgb"
  <2>1. cur.in_format \in YUV /\ cur.out_format \in Colour /\ ops[1].dout = cur.out_format
    BY <1>11 DEF Agrees
  <2>2. in \in YUV /\ out \in Colour  BY <1>4, <2>1, FormatNames
  <2>3. new[1].din = in /\ new[1].dout = out
    <3>1. 1 \in DOMAIN m /\ ~(1 > stop)  BY <1>1, <1>7
    <3>2. new[1] = [ops[1] EXCEPT !.din = in,
                                  !.dout = IF cur.out_format # out /\ out \in Colour THEN out ELSE @]
      BY <1>1, <1>10, <1>11, <2>2, <3>1
    <3>. QED BY <1>1, <2>1, <2>2, <3>1, <3>2 DEF OperatorFields
  <2>4. ASSUME Has(m, "imagescaler") PROVE new[scaler].order # 1
    <3>1. scaler \in DOMAIN m /\ m[scaler].lib = "imagescaler" /\ ~(scaler > stop)
      BY <1>1, <1>7, <1>8, <1>9, <1>11, <2>4
    <3>2. new[scaler] = [ops[scaler] EXCEPT !.order = 0]  BY <1>1, <1>10, <2>2, <3>1
    <3>. QED BY <1>1, <3>1, <3>2 DEF OperatorFields
  <2>. QED BY <1>11, <2>2, <2>3, <2>4 DEF Agrees, Conversions, scaler, new
<1>12. CASE m[1].lib = "conv_x2gray"
  <2>1. cur.in_format \in YUV \union Colour /\ cur.out_format = "GRAY"  BY <1>12 DEF Agrees
  <2>2. in \in YUV \union Colour /\ out = "GRAY"  BY <1>4, <2>1, FormatNames
  <2>3. 1 \in DOMAIN m /\ stop = 1  BY <1>1, <1>7, <1>12
  <2>4. new[1] = [ops[1] EXCEPT !.din = in]
    <3>1. CASE in \in YUV
      <4>1. ~(1 > stop) /\ ops[1].lib = "conv_x2gray" /\ ops[1].lib # "conv_yuv2rgb"
        BY <1>1, <1>12, <2>3
      <4>. QED BY <1>10, <2>3, <3>1, <4>1
    <3>2. CASE in \notin YUV
      <4>1. in \in Colour  BY <2>2, <3>2
      <4>. QED BY <1>1, <1>2, <1>3, <1>12, <2>3, <3>2, <4>1 DEF UpdateColourFormat
    <3>. QED BY <3>1, <3>2
  <2>5. new[1].din = in  BY <1>1, <2>3, <2>4 DEF OperatorFields
  <2>. QED BY <1>12, <2>2, <2>5 DEF Agrees, Conversions, new
<1>13. CASE m[1].lib \notin Conversions
  <2>1. /\ cur.in_format \notin YUV
        /\ ~Has(m, "imagescaler") => cur.in_format = "GRAY"
        /\ cur.in_format = "GRAY" <=> cur.out_format = "GRAY"
    BY <1>13, FormatNames DEF Agrees
  <2>2. /\ in \in Colour \union {"GRAY"} /\ in \notin YUV
        /\ out \in Colour \union {"GRAY"} /\ (in = "GRAY" <=> out = "GRAY")
        /\ ~Has(m, "imagescaler") => in = "GRAY"
    BY <1>4, <2>1, FormatNames
  <2>3. ASSUME Has(m, "imagescaler")
        PROVE  new[scaler].order = IF in = out THEN 0 ELSE 1
    <3>1. scaler \in DOMAIN m /\ scaler = stop /\ m[scaler].lib = "imagescaler"
      BY <1>1, <1>7, <1>8, <1>9, <1>13, <2>3 DEF Conversions
    <3>2. new[scaler] = [ops[scaler] EXCEPT !.order = IF in = out THEN 0 ELSE 1]
      BY <1>1, <1>2, <1>3, <2>2, <3>1 DEF UpdateColourFormat
    <3>. QED BY <1>1, <3>1, <3>2 DEF OperatorFields
  <2>4. in # out => out = Swapped(in)  BY <2>2, FormatNames
  <2>. QED BY <1>13, <2>2, <2>3, <2>4, FormatNames DEF Agrees, Conversions, scaler, new
<1>. QED BY <1>11, <1>12, <1>13 DEF Conversions

-----------------------------------------------------------------------------
(* UpdateParamData                                                         *)

\* The fields that the proof looks at are there.
PreFields == {"ops", "copies", "cur", "out_shape"}
ParamFields ==
  {"in_shape", "in_format", "out_format", "crop_at", "crop", "resize", "alg", "cof"}
IsPre(r) == DOMAIN r = PreFields /\ DOMAIN r.cur = ParamFields
IsState(s) == DOMAIN s = {"pre", "new_out", "updated", "refused"} /\ IsPre(s.pre)

\* Every step leaves the coefficients, and the operators too when it reports
\* no update.
Keeps(s, t) ==
  /\ IsState(t)
  /\ t.pre.copies = s.pre.copies
  /\ t.pre.cur.cof = s.pre.cur.cof
  /\ t.updated = TRUE \/ (t.updated = s.updated /\ t.pre.ops = s.pre.ops)

LEMMA SameKeeps == ASSUME NEW s, IsState(s) PROVE Keeps(s, s)
BY DEF Keeps

LEMMA RefuseKeeps == ASSUME NEW s, IsState(s) PROVE Keeps(s, Refuse(s))
<1>1. DOMAIN Refuse(s) = DOMAIN s  BY DEF Refuse
<1>2. Refuse(s).updated = s.updated /\ Refuse(s).pre = s.pre  BY DEF IsState, Refuse
<1>. QED BY <1>1, <1>2 DEF IsState, Keeps

LEMMA ShapeKeeps == ASSUME NEW s, NEW p, IsState(s) PROVE Keeps(s, ShapeStep(s, p))
BY SameKeeps DEF ShapeStep, IsState, IsPre, PreFields, ParamFields, Keeps

LEMMA FormatKeeps == ASSUME NEW s, NEW p, IsState(s) PROVE Keeps(s, FormatStep(s, p))
BY SameKeeps, RefuseKeeps DEF FormatStep, IsState, IsPre, PreFields, ParamFields, Keeps

LEMMA CropKeeps == ASSUME NEW s, NEW p, IsState(s) PROVE Keeps(s, CropStep(s, p))
BY SameKeeps, RefuseKeeps DEF CropStep, IsState, IsPre, PreFields, ParamFields, Keeps

LEMMA ResizeKeeps == ASSUME NEW s, NEW p, IsState(s) PROVE Keeps(s, ResizeStep(s, p))
BY SameKeeps, RefuseKeeps DEF ResizeStep, IsState, IsPre, PreFields, ParamFields, Keeps

LEMMA AlgKeeps == ASSUME NEW s, NEW p, IsState(s) PROVE Keeps(s, AlgStep(s, p))
BY SameKeeps, RefuseKeeps DEF AlgStep, IsState, IsPre, PreFields, ParamFields, Keeps

\* What UpdateParamData has done so far to what PreRuntime held at first.
Tells(s, r) ==
  /\ IsState(s)
  /\ s.pre.copies = r.copies
  /\ s.pre.cur.cof = r.cur.cof
  /\ s.updated = TRUE \/ s.pre.ops = r.ops

LEMMA KeepsTells ==
  ASSUME NEW s, NEW t, NEW r, Tells(s, r), Keeps(s, t)
  PROVE  Tells(t, r)
BY DEF Tells, Keeps

\* The steps of UpdateParamData one after the other.
LEMMA StepsOfUpdate ==
  ASSUME NEW r, NEW p, NEW u \in UpdateParamData(r, p)
  PROVE  \E shape, format, crop, resize, alg :
           /\ shape = ShapeStep(Begin(r), p)
           /\ format = IF shape.refused THEN shape ELSE FormatStep(shape, p)
           /\ crop = IF format.refused THEN format ELSE CropStep(format, p)
           /\ resize = IF crop.refused THEN crop ELSE ResizeStep(crop, p)
           /\ alg = IF resize.refused THEN resize ELSE AlgStep(resize, p)
           /\ u = IF alg.refused THEN alg ELSE SizeStep(alg)
<1> DEFINE shapes == {ShapeStep(Begin(r), p)}
           formats == Then(shapes, FormatStep, p)
           crops == Then(formats, CropStep, p)
           resizes == Then(crops, ResizeStep, p)
           algs == Then(resizes, AlgStep, p)
<1> HIDE DEF shapes, formats, crops, resizes, algs
<1>1. PICK alg \in algs : u = IF alg.refused THEN alg ELSE SizeStep(alg)
  BY DEF UpdateParamData, shapes, formats, crops, resizes, algs
<1>2. PICK resize \in resizes : alg = IF resize.refused THEN resize ELSE AlgStep(resize, p)
  BY DEF algs, Then
<1>3. PICK crop \in crops : resize = IF crop.refused THEN crop ELSE ResizeStep(crop, p)
  BY DEF resizes, Then
<1>4. PICK format \in formats : crop = IF format.refused THEN format ELSE CropStep(format, p)
  BY DEF crops, Then
<1>5. PICK shape \in shapes : format = IF shape.refused THEN shape ELSE FormatStep(shape, p)
  BY DEF formats, Then
<1>6. shape = ShapeStep(Begin(r), p)  BY DEF shapes
<1>. QED BY <1>1, <1>2, <1>3, <1>4, <1>5, <1>6, Zenon

\* The coefficients are those from before, and without an update so are the
\* operators, whether or not the request is refused.
LEMMA NoUpdate ==
  ASSUME NEW r, IsPre(r), NEW p, NEW u \in UpdateParamData(r, p)
  PROVE  Tells(u, r)
<1>1. PICK shape, format, crop, resize, alg :
        /\ shape = ShapeStep(Begin(r), p)
        /\ format = IF shape.refused THEN shape ELSE FormatStep(shape, p)
        /\ crop = IF format.refused THEN format ELSE CropStep(format, p)
        /\ resize = IF crop.refused THEN crop ELSE ResizeStep(crop, p)
        /\ alg = IF resize.refused THEN resize ELSE AlgStep(resize, p)
        /\ u = IF alg.refused THEN alg ELSE SizeStep(alg)
  BY StepsOfUpdate
<1>2. Tells(shape, r)
  <2>1. IsState(Begin(r)) /\ Begin(r).pre = r /\ Begin(r).refused = FALSE  BY DEF IsState, IsPre, Begin
  <2>2. Tells(Begin(r), r)  BY <2>1 DEF Tells
  <2>. QED BY <1>1, <2>1, <2>2, ShapeKeeps, KeepsTells
<1>3. Tells(format, r)
  <2>1. Keeps(shape, FormatStep(shape, p))  BY <1>2, FormatKeeps DEF Tells
  <2>2. CASE shape.refused  BY <1>1, <1>2, <2>2
  <2>3. CASE ~shape.refused  BY <1>1, <1>2, <2>1, <2>3, KeepsTells
  <2>. QED BY <2>2, <2>3
<1>4. Tells(crop, r)
  <2>1. Keeps(format, CropStep(format, p))  BY <1>3, CropKeeps DEF Tells
  <2>2. CASE format.refused  BY <1>1, <1>3, <2>2
  <2>3. CASE ~format.refused  BY <1>1, <1>3, <2>1, <2>3, KeepsTells
  <2>. QED BY <2>2, <2>3
<1>5. Tells(resize, r)
  <2>1. Keeps(crop, ResizeStep(crop, p))  BY <1>4, ResizeKeeps DEF Tells
  <2>2. CASE crop.refused  BY <1>1, <1>4, <2>2
  <2>3. CASE ~crop.refused  BY <1>1, <1>4, <2>1, <2>3, KeepsTells
  <2>. QED BY <2>2, <2>3
<1>6. Tells(alg, r)
  <2>1. Keeps(resize, AlgStep(resize, p))  BY <1>5, AlgKeeps DEF Tells
  <2>2. CASE resize.refused  BY <1>1, <1>5, <2>2
  <2>3. CASE ~resize.refused  BY <1>1, <1>5, <2>1, <2>3, KeepsTells
  <2>. QED BY <2>2, <2>3
<1>7. Tells(SizeStep(alg), r)  BY <1>6 DEF Tells, IsState, IsPre, PreFields, ParamFields, SizeStep
<1>. QED BY <1>1, <1>6, <1>7

\* Whether the operators stay a chain, whatever is asked for.
Chains(m, copies) == ~Has(m, "crop") /\ (copies <= 1 \/ ~Has(m, "resize_hwc"))

\* What PreRuntime holds goes with the model: its operators are those of the
\* model, they fit, and the formats it reports are those they work with.
Fits(m, pre) ==
  /\ IsPre(pre)
  /\ SameLibs(m, pre.ops)
  /\ Chains(m, pre.copies) => Chained(m, pre.ops)
  /\ Convertible(m) => Agrees(m, pre.ops, pre.cur.in_format, pre.cur.out_format)

LEMMA SameColoursAgree ==
  ASSUME NEW m, Translated(m), NEW ops, NEW new, SameColours(m, ops, new), NEW in, NEW out,
         Agrees(m, ops, in, out)
  PROVE  Agrees(m, new, in, out)
<1>1. 1 \in DOMAIN m  BY DEF Translated
<1>2. Has(m, "imagescaler") => First(m, {"imagescaler"}) \in DOMAIN m
  <2>1. Indices(m, {"imagescaler"}) \subseteq Nat /\ Indices(m, {"imagescaler"}) \subseteq DOMAIN m
    BY DEF Translated, Indices
  <2>. QED BY <2>1, FirstIsLeast DEF Has
<1>3. new[1].din = ops[1].din /\ new[1].dout = ops[1].dout  BY <1>1 DEF SameColours
<1>4. Has(m, "imagescaler") =>
        new[First(m, {"imagescaler"})].order = ops[First(m, {"imagescaler"})].order
  BY <1>2 DEF SameColours
<1>. QED BY <1>3, <1>4 DEF Agrees

LEMMA LoadFits ==
  ASSUME NEW m, Translated(m), NEW r, DOMAIN r = PreFields, r.ops = m, NEW cof
  PROVE  Fits(m, LoadParamInfo(r, cof))
<1>1. m \in Seq(Operators)  BY DEF Translated
<1>2. SameLibs(m, m) /\ Chained(m, m)  BY <1>1, OperatorsHaveFields DEF Chained, Translated
<1> DEFINE l == LoadParamInfo(r, cof)
<1>3. DOMAIN l = PreFields /\ l.ops = m /\ l.cur = ReadParams(m, cof)
  BY DEF LoadParamInfo, PreFields
<1>4. DOMAIN l.cur = ParamFields  BY <1>3 DEF ReadParams, ParamFields
<1>5. l.cur.in_format = ReadFormats(m)[1] /\ l.cur.out_format = ReadFormats(m)[2]
  BY <1>3 DEF ReadParams
<1> HIDE DEF l
<1>. QED BY <1>2, <1>3, <1>4, <1>5, ReadFormatsAgree DEF Fits, IsPre, l

LEMMA ShapeFits ==
  ASSUME NEW m, Translated(m), NEW s, NEW p, IsState(s), Fits(m, s.pre)
  PROVE  Fits(m, ShapeStep(s, p).pre)
<1> DEFINE w == Given(p.in_shape, s.pre.cur.in_shape)
           t == ShapeStep(s, p)
<1>1. CASE w = s.pre.cur.in_shape  BY <1>1 DEF ShapeStep
<1>2. CASE w # s.pre.cur.in_shape
  <2>1. /\ t.pre.ops = UpdateInputShape(s.pre.ops, w)
        /\ t.pre.cur = [s.pre.cur EXCEPT !.in_shape = w]
        /\ t.pre.copies = s.pre.copies /\ DOMAIN t.pre = DOMAIN s.pre
    BY <1>2 DEF ShapeStep, IsState, IsPre, PreFields
  <2> HIDE DEF w, t
  <2>2. /\ DOMAIN t.pre.cur = ParamFields
        /\ t.pre.cur.in_format = s.pre.cur.in_format /\ t.pre.cur.out_format = s.pre.cur.out_format
    BY <2>1 DEF Fits, IsPre, ParamFields
  <2>3. /\ SameLibs(m, t.pre.ops) /\ SameColours(m, s.pre.ops, t.pre.ops)
        /\ Chained(m, s.pre.ops) /\ ~Has(m, "crop") => Chained(m, t.pre.ops)
    <3>1. SameLibs(m, s.pre.ops)  BY DEF Fits
    <3>. QED BY <2>1, <3>1, InputShapeKeeps
  <2>4. Convertible(m) => Agrees(m, t.pre.ops, t.pre.cur.in_format, t.pre.cur.out_format)
    BY <2>2, <2>3, SameColoursAgree DEF Fits
  <2>. QED BY <2>1, <2>2, <2>3, <2>4 DEF Fits, Chains, IsPre, t
<1>. QED BY <1>1, <1>2

LEMMA FormatFits ==
  ASSUME NEW m, Translated(m), NEW s, NEW p, IsState(s), Fits(m, s.pre)
  PROVE  Fits(m, FormatStep(s, p).pre)
<1> DEFINE cur == s.pre.cur
           in == GivenFormat(p.in_format, cur.in_format)
           out == GivenFormat(p.out_format, cur.out_format)
           t == FormatStep(s, p)
<1>1. CASE ~IsSupportedFormat(cur, in, out) \/ (in = cur.in_format /\ out = cur.out_format)
  BY <1>1 DEF FormatStep, Refuse, IsState
<1>2. CASE IsSupportedFormat(cur, in, out) /\ ~(in = cur.in_format /\ out = cur.out_format)
  <2>1. /\ t.pre.ops = UpdateFormat(s.pre.ops, cur, in, out)
        /\ t.pre.cur = [cur EXCEPT !.in_format = in, !.out_format = out]
        /\ t.pre.copies = s.pre.copies /\ DOMAIN t.pre = DOMAIN s.pre
    BY <1>2 DEF FormatStep, IsState, IsPre, PreFields
  <2> HIDE DEF in, out, t
  <2>2. t.pre.cur.in_format = in /\ t.pre.cur.out_format = out /\ DOMAIN t.pre.cur = DOMAIN cur
    BY <2>1 DEF Fits, IsPre, ParamFields
  <2>3. SameLibs(m, t.pre.ops) /\ SameShapes(m, s.pre.ops, t.pre.ops)
    BY <2>1, FormatKeepsShapes DEF Fits
  <2>4. Chains(m, t.pre.copies) => Chained(m, t.pre.ops)
    BY <2>1, <2>3, SameShapesChained DEF Fits
  <2>5. Convertible(m) => Agrees(m, t.pre.ops, in, out)  BY <1>2, <2>1, FormatAgrees DEF Fits
  <2>. QED BY <2>1, <2>2, <2>3, <2>4, <2>5 DEF Fits, IsPre, t
<1>. QED BY <1>1, <1>2

LEMMA CropFits ==
  ASSUME NEW m, Translated(m), NEW s, NEW p, IsState(s), Fits(m, s.pre)
  PROVE  Fits(m, CropStep(s, p).pre)
<1> DEFINE at == Given(p.crop_at, s.pre.cur.crop_at)
           w == Given(p.crop, s.pre.cur.crop)
           t == CropStep(s, p)
<1>1. CASE t.pre = s.pre  BY <1>1
<1>2. CASE /\ Has(s.pre.ops, "crop")
           /\ t.pre.ops = UpdateCropParam(s.pre.ops, s.pre.copies, at, w)
           /\ t.pre.cur = [s.pre.cur EXCEPT !.crop_at = at, !.crop = w]
           /\ DOMAIN t.pre = DOMAIN s.pre
  <2> HIDE DEF at, w, t
  <2>1. Has(m, "crop")  BY <1>2, HasSame DEF Fits, Translated
  <2>. QED BY <1>2, <2>1, CropParamKeeps, SameColoursAgree DEF Fits, Chains, IsPre, ParamFields, t
<1>3. t.pre = s.pre \/ (Has(s.pre.ops, "crop") /\ t.pre.ops = UpdateCropParam(s.pre.ops, s.pre.copies, at, w)
                          /\ t.pre.cur = [s.pre.cur EXCEPT !.crop_at = at, !.crop = w]
                          /\ DOMAIN t.pre = DOMAIN s.pre)
  BY DEF CropStep, Refuse, IsState, IsPre, PreFields
<1>. QED BY <1>1, <1>2, <1>3

LEMMA ResizeFits ==
  ASSUME NEW m, Translated(m), NEW s, NEW p, IsState(s), Fits(m, s.pre)
  PROVE  Fits(m, ResizeStep(s, p).pre)
<1> DEFINE w == Given(p.resize, s.pre.cur.resize)
           t == ResizeStep(s, p)
<1>1. CASE t.pre = s.pre  BY <1>1
<1>2. CASE /\ Has(s.pre.ops, "resize_hwc")
           /\ t.pre.ops = UpdateResizeShape(s.pre.ops, s.pre.copies, w)
           /\ t.pre.cur = [s.pre.cur EXCEPT !.resize = w]
           /\ t.pre.copies = s.pre.copies /\ DOMAIN t.pre = DOMAIN s.pre
  <2> HIDE DEF w, t
  <2>1. Has(m, "resize_hwc")  BY <1>2, HasSame DEF Fits, Translated
  <2>. QED BY <1>2, <2>1, ResizeShapeKeeps, SameColoursAgree DEF Fits, Chains, IsPre, ParamFields, t
<1>3. \/ t.pre = s.pre
      \/ /\ Has(s.pre.ops, "resize_hwc")
         /\ t.pre.ops = UpdateResizeShape(s.pre.ops, s.pre.copies, w)
         /\ t.pre.cur = [s.pre.cur EXCEPT !.resize = w]
         /\ t.pre.copies = s.pre.copies /\ DOMAIN t.pre = DOMAIN s.pre
  BY DEF ResizeStep, Refuse, IsState, IsPre, PreFields
<1>. QED BY <1>1, <1>2, <1>3

LEMMA AlgFits ==
  ASSUME NEW m, Translated(m), NEW s, NEW p, IsState(s), Fits(m, s.pre)
  PROVE  Fits(m, AlgStep(s, p).pre)
<1> DEFINE t == AlgStep(s, p)
<1>1. CASE t.pre = s.pre  BY <1>1
<1>2. CASE /\ t.pre.ops = UpdateResizeAlg(s.pre.ops, p.alg)
           /\ t.pre.cur = [s.pre.cur EXCEPT !.alg = p.alg]
           /\ t.pre.copies = s.pre.copies /\ DOMAIN t.pre = DOMAIN s.pre
  <2> HIDE DEF t
  <2>. QED BY <1>2, ResizeAlgKeeps, SameShapesChained, SameColoursAgree DEF Fits, IsPre, ParamFields, t
<1>3. t.pre = s.pre \/ (t.pre.ops = UpdateResizeAlg(s.pre.ops, p.alg)
                          /\ t.pre.cur = [s.pre.cur EXCEPT !.alg = p.alg]
                          /\ t.pre.copies = s.pre.copies /\ DOMAIN t.pre = DOMAIN s.pre)
  BY DEF AlgStep, Refuse, IsState, IsPre, PreFields
<1>. QED BY <1>1, <1>2, <1>3

\* A request leaves parameters that go with the model, also when it is
\* refused after some of its steps.
LEMMA UpdateFits ==
  ASSUME NEW m, Translated(m), NEW r, Fits(m, r), NEW p, NEW u \in UpdateParamData(r, p)
  PROVE  Fits(m, u.pre)
<1>1. PICK shape, format, crop, resize, alg :
        /\ shape = ShapeStep(Begin(r), p)
        /\ format = IF shape.refused THEN shape ELSE FormatStep(shape, p)
        /\ crop = IF format.refused THEN format ELSE CropStep(format, p)
        /\ resize = IF crop.refused THEN crop ELSE ResizeStep(crop, p)
        /\ alg = IF resize.refused THEN resize ELSE AlgStep(resize, p)
        /\ u = IF alg.refused THEN alg ELSE SizeStep(alg)
  BY StepsOfUpdate
<1>2. IsState(shape) /\ Fits(m, shape.pre)
  <2>1. IsState(Begin(r)) /\ Begin(r).pre = r  BY DEF IsState, Begin, Fits
  <2>. QED BY <1>1, <2>1, ShapeKeeps, ShapeFits DEF Keeps
<1>3. IsState(format) /\ Fits(m, format.pre)  BY <1>1, <1>2, FormatKeeps, FormatFits DEF Keeps
<1>4. IsState(crop) /\ Fits(m, crop.pre)  BY <1>1, <1>3, CropKeeps, CropFits DEF Keeps
<1>5. IsState(resize) /\ Fits(m, resize.pre)  BY <1>1, <1>4, ResizeKeeps, ResizeFits DEF Keeps
<1>6. IsState(alg) /\ Fits(m, alg.pre)  BY <1>1, <1>5, AlgKeeps, AlgFits DEF Keeps
<1>7. Fits(m, SizeStep(alg).pre)  BY <1>6 DEF Fits, IsState, IsPre, PreFields, SizeStep
<1>. QED BY <1>1, <1>6, <1>7

LEMMA WeightFits ==
  ASSUME NEW m, NEW r, Fits(m, r), NEW p
  PROVE  Fits(m, UpdateWeightData(r, p))
<1> DEFINE w == UpdateWeightData(r, p)
<1>1. /\ DOMAIN w = DOMAIN r /\ w.ops = r.ops /\ w.copies = r.copies
      /\ DOMAIN w.cur = DOMAIN r.cur
      /\ w.cur.in_format = r.cur.in_format /\ w.cur.out_format = r.cur.out_format
  BY DEF Fits, IsPre, PreFields, ParamFields, UpdateWeightData, UpdateCoefficient
<1> HIDE DEF w
<1>. QED BY <1>1 DEF Fits, IsPre, w

LEMMA FitsChain ==
  ASSUME NEW m, Translated(m), NEW r, Fits(m, r), ~Has(r.ops, "crop"),
         r.copies <= 1 \/ ~Has(r.ops, "resize_hwc")
  PROVE  \A i \in DOMAIN r.ops : i + 1 \in DOMAIN r.ops => r.ops[i].out = r.ops[i + 1].in
<1>1. DOMAIN m = 1 .. Len(m) /\ Len(m) \in Nat /\ DOMAIN r.ops = DOMAIN m
  BY SameLibsDomain DEF Fits
<1>2. Chained(m, r.ops)  BY HasSame DEF Fits, Chains, Translated
<1>. QED BY <1>1, <1>2 DEF Chained

LEMMA FitsFormats ==
  ASSUME NEW m, Translated(m), Convertible(m), NEW r, Fits(m, r)
  PROVE  /\ Produced(r.ops, r.cur.in_format) = r.cur.out_format
         /\ r.ops[1].lib \in Conversions => r.ops[1].din = r.cur.in_format
<1>1. /\ r.ops[1].lib = m[1].lib
      /\ First(r.ops, {"imagescaler"}) = First(m, {"imagescaler"})
      /\ Has(r.ops, "imagescaler") <=> Has(m, "imagescaler")
  BY SameLibsDomain, IndicesSame, HasSame DEF Fits
<1>2. Agrees(m, r.ops, r.cur.in_format, r.cur.out_format)  BY DEF Fits
<1>3. CASE m[1].lib = "conv_yuv2rgb"  BY <1>1, <1>2, <1>3 DEF Agrees, Produced
<1>4. CASE m[1].lib = "conv_x2gray"  BY <1>1, <1>2, <1>4, FormatNames DEF Agrees, Produced
<1>5. CASE m[1].lib \notin Conversions
  BY <1>1, <1>2, <1>5 DEF Agrees, Produced, Conversions
<1>. QED BY <1>3, <1>4, <1>5 DEF Conversions
=============================================================================
