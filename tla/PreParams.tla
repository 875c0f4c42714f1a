------------------------------ MODULE PreParams ------------------------------
(***************************************************************************)
(* The parameters of a Pre-Runtime model: PreRuntime::LoadParamInfo, which *)
(* reads them, and UpdateParamData and UpdateWeightData, which change them *)
(* for a request, as operators.                                            *)
(*                                                                         *)
(* A model is a sequence of operators of the hardware (param_info with the *)
(* bytes of param_data at its offsets).  A second Load appends its         *)
(* operators to those of the first, with the same offsets: copies is how   *)
(* often each operator is in param_info.  The values in param_info are     *)
(* only written once they are loaded, so that the bytes, which the copies  *)
(* share, are all there is to know.                                        *)
(*                                                                         *)
(* A width and a height always go together, so that one number is a shape; *)
(* one number is the position of a crop, and one the coefficients of a     *)
(* normalisation.  Sizes in bytes are shapes.  run_mode is MODE_PRE, the   *)
(* only one the plug-in asks for.                                          *)
(***************************************************************************)
EXTENDS Integers, Sequences

INVALID == -1          \* INVALID_SHAPE, INVALID_ADDR, INVALID_RESIZE_ALG, -FLT_MAX
Unknown == "UNKNOWN"   \* FORMAT_UNKNOWN, which is also INVALID_FORMAT

\* supported_format_in, two or one of each kind.
YUV422 == {"YUYV_422", "UYVY_422"}
YUV420 == {"NV12_420"}
YUV == YUV422 \union YUV420
Colour == {"RGB", "BGR"}
SupportedIn == YUV \union Colour \union {"GRAY"}

\* supported_format_out
SupportedOut == Colour \union {"GRAY"}

MIN_RESIZE_BOUND == 2
MAX_RESIZE_BOUND == 4096

Swapped(f) == CASE f = "RGB" -> "BGR" [] f = "BGR" -> "RGB" [] OTHER -> f

\* An operator: its library, the shapes it reads and writes, and those of its
\* other parameters that its library has.
Operator(lib, in, out) ==
  [lib |-> lib, in |-> in, out |-> out, channels |-> 3, din |-> Unknown,
   dout |-> "RGB", order |-> 0, crop_at |-> 0, alg |-> 0]

\* param_info, as its parser and LoadParamInfo read it.
Operators ==
  [lib : STRING, in : Int, out : Int, channels : Int, din : SupportedIn \union {Unknown},
   dout : SupportedOut, order : {0, 1}, crop_at : Int, alg : Int]

Indices(ops, libs) == {i \in DOMAIN ops : ops[i].lib \in libs}

\* The first operator of one of these libraries, or one past the last.
First(ops, libs) ==
  IF Indices(ops, libs) = {}
    THEN Len(ops) + 1
    ELSE CHOOSE i \in Indices(ops, libs) : \A j \in Indices(ops, libs) : i <= j

Last(ops) == ops[Len(ops)]

Has(ops, lib) == Indices(ops, {lib}) # {}

Conversions == {"conv_yuv2rgb", "conv_x2gray"}

\* A model as DRP-AI's translator makes it: only its first operator converts
\* colours, it resizes once at most, and each operator reads the shape that
\* the one before it writes.
Translated(ops) ==
  /\ ops \in Seq(Operators) \ {<<>>}
  /\ \A i \in Indices(ops, Conversions) : i = 1
  /\ \A i, j \in Indices(ops, {"resize_hwc"}) : i = j
  /\ \A i \in 1 .. Len(ops) - 1 : ops[i].out = ops[i + 1].in
  /\ ops[1].lib = "conv_yuv2rgb" => ops[1].din \in YUV /\ ops[1].dout \in Colour
  /\ ops[1].lib = "conv_x2gray" => ops[1].din \in YUV \union Colour

-----------------------------------------------------------------------------
(* LoadParamInfo                                                           *)

\* pre_in_format and pre_out_format, before the imagescaler is looked at.
ConversionFormats(op) ==
  IF op.lib = "conv_yuv2rgb" THEN <<op.din, op.dout>>
  ELSE IF op.lib = "conv_x2gray" THEN <<op.din, "GRAY">>
  ELSE IF op.channels = 1 THEN <<"GRAY", "GRAY">>
  ELSE IF op.channels = 3 THEN <<"RGB", "RGB">>
  ELSE <<Unknown, Unknown>>

\* An imagescaler with DOUT_RGB_ORDER 1 swaps the colours of the output.
ReadFormats(ops) ==
  LET scaler == First(ops, {"imagescaler"})
      formats == ConversionFormats(ops[1])
  IN IF Has(ops, "imagescaler") /\ ops[scaler].order = 1
       THEN <<formats[1], Swapped(formats[2])>>
       ELSE formats

\* crop_tl_x, crop_w: the parameters of the last crop count.
ReadCrop(ops) ==
  IF Has(ops, "crop")
    THEN LET i == CHOOSE j \in Indices(ops, {"crop"}) :
                    \A k \in Indices(ops, {"crop"}) : k <= j
         IN <<ops[i].crop_at, ops[i].out>>
    ELSE <<INVALID, INVALID>>

\* resize_w, resize_alg: those of the first resize_hwc.
ReadResize(ops) ==
  IF Has(ops, "resize_hwc")
    THEN LET op == ops[First(ops, {"resize_hwc"})] IN <<op.out, op.alg>>
    ELSE <<INVALID, INVALID>>

\* pre_out_shape: argminmax, else resize_hwc, else crop, else the input.
ReadOutShape(ops) ==
  IF Has(ops, "argminmax") THEN ops[First(ops, {"argminmax"})].out
  ELSE IF Has(ops, "resize_hwc") THEN ReadResize(ops)[1]
  ELSE IF Has(ops, "crop") THEN ReadCrop(ops)[2]
  ELSE ops[1].in

\* internal_param_val; the coefficients are those of the weight file.
ReadParams(ops, cof) ==
  [in_shape |-> ops[1].in,
   in_format |-> ReadFormats(ops)[1], out_format |-> ReadFormats(ops)[2],
   crop_at |-> ReadCrop(ops)[1], crop |-> ReadCrop(ops)[2],
   resize |-> ReadResize(ops)[1], alg |-> ReadResize(ops)[2],
   cof |-> cof]

\* What a caller asks for in Pre: s_preproc_param_t with nothing in it.
NoRequest ==
  [in_shape |-> INVALID, in_format |-> Unknown, out_format |-> Unknown,
   crop_at |-> INVALID, crop |-> INVALID, resize |-> INVALID, alg |-> INVALID,
   cof |-> INVALID]

\* What PreRuntime holds: the operators and how often param_info has them,
\* internal_param_val, and the shape of the output.  More copies of the
\* operators, which nothing has changed yet, are read to the same values.
LoadParamInfo(pre, cof) ==
  [pre EXCEPT !.cur = ReadParams(pre.ops, cof), !.out_shape = ReadOutShape(pre.ops)]

-----------------------------------------------------------------------------
(* The operators that a change of one parameter rewrites                   *)

\* Mutant of UpdateInputShape: the first resize_hwc keeps its input.
InputShapeBeforeResize(ops, w) ==
  LET stop == First(ops, {"resize_hwc", "crop"})
  IN [i \in DOMAIN ops |-> IF i < stop THEN [ops[i] EXCEPT !.in = w, !.out = w] ELSE ops[i]]

\* Everything up to the first resize_hwc or crop, and their inputs; the
\* output of a crop too.
UpdateInputShape(ops, w) ==
  LET stop == First(ops, {"resize_hwc", "crop"})
  IN [i \in DOMAIN ops |->
        IF i > stop THEN ops[i]
        ELSE IF ops[i].lib = "resize_hwc" THEN [ops[i] EXCEPT !.in = w]
        ELSE [ops[i] EXCEPT !.in = w, !.out = w]]

\* The first resize_hwc and everything after it: in a second copy, the
\* operators before it too.
UpdateResizeShape(ops, copies, w) ==
  LET from == First(ops, {"resize_hwc"})
  IN [i \in DOMAIN ops |->
        IF i < from /\ copies <= 1 THEN ops[i]
        ELSE IF ops[i].lib = "resize_hwc" THEN [ops[i] EXCEPT !.out = w]
        ELSE [ops[i] EXCEPT !.in = w, !.out = w]]

\* The crop, what follows it, and the input of the resize_hwc that ends it:
\* one after the crop, or one in a second copy.
UpdateCropParam(ops, copies, at, w) ==
  LET from == First(ops, {"crop"})
      resizes == Indices(ops, {"resize_hwc"})
      InFirstCopy(i) == i >= from /\ ~\E j \in resizes : from < j /\ j < i
      InSecondCopy(i) == /\ copies > 1
                         /\ \A j \in resizes : j < from /\ i <= j
  IN [i \in DOMAIN ops |->
        IF ~InFirstCopy(i) /\ ~InSecondCopy(i) THEN ops[i]
        ELSE IF ops[i].lib = "crop" THEN [ops[i] EXCEPT !.crop_at = at, !.out = w]
        ELSE IF ops[i].lib = "resize_hwc" THEN [ops[i] EXCEPT !.in = w]
        ELSE [ops[i] EXCEPT !.in = w, !.out = w]]

\* The loops of UpdateFormat end with the first of these.
FormatEnd(ops) == First(ops, {"conv_x2gray", "imagescaler"})

\* A YUV input: the conversion gets the input format, and the output format
\* if that changes, and the imagescaler no longer swaps.
UpdateYuvFormat(ops, in, out, changed) ==
  [i \in DOMAIN ops |->
     IF i > FormatEnd(ops) THEN ops[i]
     ELSE IF ops[i].lib = "conv_yuv2rgb" THEN
       [ops[i] EXCEPT !.din = in, !.dout = IF changed /\ out \in Colour THEN out ELSE @]
     ELSE IF ops[i].lib = "conv_x2gray" THEN [ops[i] EXCEPT !.din = in]
     ELSE IF ops[i].lib = "imagescaler" THEN [ops[i] EXCEPT !.order = 0]
     ELSE ops[i]]

\* RGB or BGR: the imagescaler swaps when the formats differ.
UpdateColourFormat(ops, in, out) ==
  [i \in DOMAIN ops |->
     IF i # FormatEnd(ops) THEN ops[i]
     ELSE IF ops[i].lib = "conv_x2gray" THEN
       [ops[i] EXCEPT !.din = IF in \in Colour THEN in ELSE @]
     ELSE [ops[i] EXCEPT !.order = IF in = out THEN 0 ELSE 1]]

\* Mutant of UpdateFormat: the output format is taken for unchanged.
UpdateFormatOfInput(ops, cur, in, out) ==
  IF in \in YUV
    THEN UpdateYuvFormat(ops, in, out, FALSE)
    ELSE UpdateColourFormat(ops, in, out)

UpdateFormat(ops, cur, in, out) ==
  IF in \in YUV
    THEN UpdateYuvFormat(ops, in, out, cur.out_format # out)
    ELSE UpdateColourFormat(ops, in, out)

UpdateResizeAlg(ops, val) ==
  [i \in DOMAIN ops |->
     IF i = First(ops, {"resize_hwc"}) THEN [ops[i] EXCEPT !.alg = val] ELSE ops[i]]

IsSupportedFormat(cur, in, out) ==
  /\ in \in SupportedIn
  /\ out \in SupportedOut
  /\ cur.in_format # in \/ cur.out_format # out =>
       /\ ~(in \in YUV420 /\ out = "GRAY")
       /\ (cur.in_format = "GRAY") <=> (in = "GRAY")
       /\ (cur.out_format = "GRAY") <=> (out = "GRAY")
       /\ (cur.in_format \in YUV) <=> (in \in YUV)

-----------------------------------------------------------------------------
(* UpdateParamData and UpdateWeightData                                    *)

\* The value asked for, or the current one.
Given(asked, current) == IF asked = INVALID THEN current ELSE asked
GivenFormat(asked, current) == IF asked = Unknown THEN current ELSE asked

\* The state of UpdateParamData: pre, what Load left and each step changes;
\* new_out, new_pre_out_shape; updated, num_updated # 0; refused,
\* PRE_ERROR_UI was returned.
Begin(pre) == [pre |-> pre, new_out |-> 0, updated |-> FALSE, refused |-> FALSE]

Refuse(s) == [s EXCEPT !.refused = TRUE]

ShapeStep(s, p) ==
  LET w == Given(p.in_shape, s.pre.cur.in_shape)
  IN IF w = s.pre.cur.in_shape
       THEN s
       ELSE [s EXCEPT !.pre.ops = UpdateInputShape(@, w),
                      !.pre.cur.in_shape = w,
                      !.updated = TRUE]

FormatStep(s, p) ==
  LET cur == s.pre.cur
      in == GivenFormat(p.in_format, cur.in_format)
      out == GivenFormat(p.out_format, cur.out_format)
  IN IF ~IsSupportedFormat(cur, in, out) THEN Refuse(s)
     ELSE IF in = cur.in_format /\ out = cur.out_format THEN s
     ELSE [s EXCEPT !.pre.ops = UpdateFormat(@, cur, in, out),
                    !.pre.cur.in_format = in,
                    !.pre.cur.out_format = out,
                    !.updated = TRUE]

CropStep(s, p) ==
  LET cur == s.pre.cur
      at == Given(p.crop_at, cur.crop_at)
      w == Given(p.crop, cur.crop)
  IN IF ~Has(s.pre.ops, "crop") THEN s
     ELSE IF at > cur.in_shape - 1 \/ w > cur.in_shape THEN Refuse(s)
     ELSE IF at = cur.crop_at /\ w = cur.crop THEN s
     ELSE [s EXCEPT !.pre.ops = UpdateCropParam(@, s.pre.copies, at, w),
                    !.pre.cur.crop_at = at,
                    !.pre.cur.crop = w,
                    !.new_out = IF Has(s.pre.ops, "resize_hwc") THEN @ ELSE w,
                    !.updated = TRUE]

ResizeStep(s, p) ==
  LET w == Given(p.resize, s.pre.cur.resize)
  IN IF ~Has(s.pre.ops, "resize_hwc") THEN s
     ELSE IF w <= MIN_RESIZE_BOUND \/ w > MAX_RESIZE_BOUND THEN Refuse(s)
     ELSE IF w = s.pre.cur.resize THEN s
     ELSE [s EXCEPT !.pre.ops = UpdateResizeShape(@, s.pre.copies, w),
                    !.pre.cur.resize = w,
                    !.new_out = w,
                    !.updated = TRUE]

AlgStep(s, p) ==
  IF ~Has(s.pre.ops, "resize_hwc") \/ p.alg = INVALID THEN s
  ELSE IF p.alg > 1 THEN Refuse(s)
  ELSE IF p.alg = s.pre.cur.alg THEN s
  ELSE [s EXCEPT !.pre.ops = UpdateResizeAlg(@, p.alg),
                 !.pre.cur.alg = p.alg,
                 !.updated = TRUE]

\* pre_out_shape and the sizes derived from it.
SizeStep(s) == IF s.new_out = 0 THEN s ELSE [s EXCEPT !.pre.out_shape = s.new_out]

\* A step after the states S, unless a step before it refused.
Then(S, Step(_, _), p) == {IF s.refused THEN s ELSE Step(s, p) : s \in S}

\* The one outcome of the steps in the order of the code: the first refusal
\* ends them, and leaves what the steps before it changed.
UpdateParamData(pre, p) ==
  LET shape == {ShapeStep(Begin(pre), p)}
      resize == Then(Then(Then(shape, FormatStep, p), CropStep, p), ResizeStep, p)
  IN {IF s.refused THEN s ELSE SizeStep(s) : s \in Then(resize, AlgStep, p)}

\* The coefficients in weight_data and in internal_param_val.
UpdateCoefficient(pre, cof) == [pre EXCEPT !.cur.cof = cof]

\* The coefficients that were asked for, if the model normalises.
UpdateWeightData(pre, p) ==
  IF Has(pre.ops, "imagescaler") THEN UpdateCoefficient(pre, Given(p.cof, pre.cur.cof)) ELSE pre

-----------------------------------------------------------------------------
(* The colours that a model produces                                       *)

\* The format of the output of the operators, for an input in this format.
Produced(ops, in) ==
  LET scaler == First(ops, {"imagescaler"})
      out == IF ops[1].lib = "conv_yuv2rgb" THEN ops[1].dout
             ELSE IF ops[1].lib = "conv_x2gray" THEN "GRAY" ELSE in
  IN IF Has(ops, "imagescaler") /\ ops[scaler].order = 1 THEN Swapped(out) ELSE out

\* The formats of a model can be changed: it has a conversion, or there is an
\* imagescaler to swap colours, or there are none; and a conversion from YUV
\* comes with no swap.
Convertible(ops) ==
  /\ ops[1].lib = "conv_yuv2rgb" => ReadFormats(ops)[2] = ops[1].dout
  /\ ops[1].lib \in Conversions \/ ops[1].channels = 1 \/ Has(ops, "imagescaler")
=============================================================================
