----------------------------- MODULE MCTvmDrpai -----------------------------
(* Preprocessing models with and without each operator, and the requests    *)
(* that change one or several of their parameters, some of them to values   *)
(* that are refused.                                                        *)
EXTENDS TvmDrpai

Scaler(w, order) == [Operator("imagescaler", w, w) EXCEPT !.order = order]

\* A camera's YUV, made RGB, resized and normalised.
YuvModel ==
  <<[Operator("conv_yuv2rgb", 8, 8) EXCEPT !.din = "YUYV_422"],
    Operator("resize_hwc", 8, 4), Operator("cast_to_fp16", 4, 4), Scaler(4, 0)>>

\* A colour image whose colours are swapped.
ColourModel ==
  <<Operator("resize_hwc", 8, 4), Operator("cast_to_fp16", 4, 4), Scaler(4, 1)>>

\* A part of a colour image.
CropModel ==
  <<[Operator("crop", 8, 6) EXCEPT !.crop_at = 1], Operator("resize_hwc", 6, 4),
    Operator("cast_to_fp16", 4, 4), Scaler(4, 0)>>

\* A camera's YUV, made grey, neither resized nor normalised.
GreyModel ==
  <<[Operator("conv_x2gray", 8, 8) EXCEPT !.din = "UYVY_422"],
    Operator("cast_to_fp16", 8, 8)>>

\* A colour image, resized, with nothing that could swap its colours.
PlainModel == <<Operator("resize_hwc", 8, 4), Operator("cast_to_fp16", 4, 4)>>

\* A part of a resized image.
LateCropModel ==
  <<Operator("resize_hwc", 8, 6), [Operator("crop", 6, 4) EXCEPT !.crop_at = 1],
    Operator("cast_to_fp16", 4, 4)>>

MCModels ==
  {YuvModel, ColourModel, CropModel, GreyModel, PlainModel, LateCropModel}

MCRequests ==
  {NoRequest,
   [NoRequest EXCEPT !.in_shape = 9, !.resize = 5],
   [NoRequest EXCEPT !.in_format = "UYVY_422", !.out_format = "BGR"],
   [NoRequest EXCEPT !.in_format = "BGR", !.cof = 1],
   [NoRequest EXCEPT !.out_format = "BGR", !.resize = 1],
   [NoRequest EXCEPT !.in_shape = 7, !.crop_at = 2, !.crop = 5, !.alg = 1],
   [NoRequest EXCEPT !.resize = 3, !.alg = 2]}

MCInputTypes == {"FLOAT16", "INT64"}
MCOutputLists == {<<"FLOAT32", "OTHER">>, <<"INT64", "FLOAT16">>}
=============================================================================
