----------------------------- MODULE TaskValues -----------------------------
(***************************************************************************)
(* The values a task takes and hands back (include/cvkit/infer/task_io.h)  *)
(* and how the pipelines get at them (src/infer/utils): the layout of      *)
(* images and tensors, copies from the device, the lookup by name, and the *)
(* input shape of a model.  What a byte of an image holds is left out; how *)
(* many there are is not.  cuda tells what the build and the device can    *)
(* do: runtime and kernels say what is compiled in                         *)
(* (CVKIT_WITH_CUDA_RUNTIME, CVKIT_WITH_CUDA_PREPROCESS_KERNEL), works     *)
(* whether the calls succeed.                                              *)
(***************************************************************************)
EXTENDS Integers, Sequences, FiniteSets

NoValue == [type |-> "none"]    (* nullptr, or std::nullopt                 *)

AtLeast(a, b) == IF a >= b THEN a ELSE b
AtMost(a, b) == IF a <= b THEN a ELSE b
Clamp(v, low, high) == AtLeast(low, AtMost(v, high))

-----------------------------------------------------------------------------
(* TaskInput::find and TaskOutput::find: the first item of that name        *)
(* decides, and is not found when it has another type.                      *)
Find(items, name, type) ==
  LET named == {n \in DOMAIN items : items[n].name = name}
      first == CHOOSE n \in named : \A m \in named : n <= m
  IN  IF named # {} /\ items[first].type = type THEN items[first] ELSE NoValue

Found(value) == value # NoValue

-----------------------------------------------------------------------------
(* An ImageValue (type "image") or a Frame (type "frame", on the host): its *)
(* descriptor, row_stride_bytes (0: packed), the bytes of frame.data and    *)
(* the bytes behind external_data (0: no pointer).                          *)
BytesPerPixel(im) == IF im.format = "nv12" THEN 1 ELSE AtLeast(im.channels, 0)

PackedStride(im) == IF im.width > 0 THEN im.width * BytesPerPixel(im) ELSE 0

EffectiveStride(im) == IF im.stride > 0 THEN im.stride ELSE PackedStride(im)

HasValidDesc(im) == im.width > 0 /\ im.height > 0 /\ im.channels > 0

RequiredBytes(im) ==
  IF ~HasValidDesc(im) THEN 0
  ELSE IF im.format = "nv12" THEN (EffectiveStride(im) * im.height * 3) \div 2
  ELSE EffectiveStride(im) * im.height

HasValidHostLayout(im) ==
  /\ im.device = "host"
  /\ HasValidDesc(im) /\ im.bytes > 0
  /\ EffectiveStride(im) # 0
  /\ im.bytes >= RequiredBytes(im)

HasValidDeviceView(im) ==
  /\ im.device # "host"
  /\ HasValidDesc(im)
  /\ RequiredBytes(im) > 0 /\ im.view >= RequiredBytes(im)

(* A host frame and how long a row of its data is.                          *)
HostFrame(im, rowBytes, bytes) ==
  [type |-> "frame", name |-> im.name, device |-> "host", width |-> im.width,
   height |-> im.height, channels |-> im.channels, format |-> im.format,
   stride |-> rowBytes, bytes |-> bytes, view |-> 0]

FrameOf(im) == HostFrame(im, EffectiveStride(im), im.bytes)

CanCopy(cuda) == cuda.runtime /\ cuda.works    (* cudaMemcpy             *)

(* materialize_host_frame.                                                  *)
MaterializeHostFrame(im, cuda) ==
  IF im.device = "host"
  THEN IF HasValidHostLayout(im) THEN FrameOf(im) ELSE NoValue
  ELSE IF im.device = "cuda" /\ HasValidDeviceView(im) /\ CanCopy(cuda)
       THEN HostFrame(im, EffectiveStride(im), RequiredBytes(im))
       ELSE NoValue

(* find_image_frame_input: only the descriptor counts.                      *)
FindImageFrame(items) ==
  LET image == Find(items, "image", "image")
      frame == Find(items, "image", "frame")
      value == IF Found(image) THEN image ELSE frame
  IN  IF Found(value) /\ HasValidDesc(value) THEN value ELSE NoValue

(* resolve_host_image_input: a Frame is taken as it is.                     *)
ResolveHostImage(items, cuda) ==
  LET image == Find(items, "image", "image")
      frame == Find(items, "image", "frame")
  IN  IF Found(image) THEN MaterializeHostFrame(image, cuda)
      ELSE IF Found(frame) THEN FrameOf(frame) ELSE NoValue

-----------------------------------------------------------------------------
(* frame_to_mat_copy: three channels or one, rows without a gap.            *)
HasMat(f) == HasValidDesc(f) /\ f.bytes > 0
MatChannels(f) == IF f.channels = 3 THEN 3 ELSE 1
MatBytes(f) == f.width * f.height * MatChannels(f)

(* The frame's rows are the matrix's: nothing is between them and a pixel   *)
(* has as many bytes.                                                       *)
PackedAsMat(f) ==
  BytesPerPixel(f) = MatChannels(f) /\ EffectiveStride(f) = f.width * MatChannels(f)

(* The pixel of the frame whose byte comes first in the matrix's pixel      *)
(* <<x, y>>; a column past the width is between two rows.                   *)
ShownPixel(f, x, y) ==
  LET byte == (y * f.width + x) * MatChannels(f)
      stride == EffectiveStride(f)
  IN  <<(byte % stride) \div BytesPerPixel(f), byte \div stride>>

(* A box by its corners, cut to the frame.                                  *)
ClampedBox(x0, y0, x1, y1, f) ==
  LET x == Clamp(x0, 0, f.width)
      y == Clamp(y0, 0, f.height)
  IN  [x |-> x, y |-> y, width |-> AtLeast(0, Clamp(x1, 0, f.width) - x),
       height |-> AtLeast(0, Clamp(y1, 0, f.height) - y)]

-----------------------------------------------------------------------------
(* A TensorValue: shape, size (the number of elements in data), where they  *)
(* are, and data, numbered from 0.  An element outside of it is anything;   *)
(* 0 stands for it here.                                                    *)
Element(t, index) == IF index \in DOMAIN t.data THEN t.data[index] ELSE 0

ProductOf(shape) ==   (* of its first n dimensions *)
  LET product[n \in 0 .. Len(shape)] == IF n = 0 THEN 1 ELSE product[n - 1] * shape[n]
  IN  product

ElementCount(shape) ==
  IF shape = <<>> \/ \E n \in 1 .. Len(shape) : shape[n] <= 0 THEN 0
  ELSE ProductOf(shape)[Len(shape)]

TensorHostLayout(t) ==
  /\ t.device = "host"
  /\ ElementCount(t.shape) > 0 /\ t.size >= ElementCount(t.shape)

TensorDeviceView(t) ==
  /\ t.device # "host"
  /\ ElementCount(t.shape) > 0 /\ t.view >= ElementCount(t.shape)

(* materialize_host_tensor.                                                 *)
MaterializeHostTensor(t, cuda) ==
  IF t.device = "host"
  THEN IF TensorHostLayout(t) THEN t ELSE NoValue
  ELSE IF t.device = "cuda" /\ TensorDeviceView(t) /\ CanCopy(cuda)
       THEN [t EXCEPT !.device = "host", !.size = ElementCount(t.shape), !.view = 0]
       ELSE NoValue

-----------------------------------------------------------------------------
(* tensor_layout.cpp: what a model says of its input, with the open         *)
(* dimensions taken from the frame.                                         *)
IsNchw(shape) == Len(shape) = 4 /\ shape[2] \in 1 .. 4

Fill(shape, values) ==
  [n \in 1 .. 4 |-> IF shape[n] <= 0 THEN values[n] ELSE shape[n]]

ResolveInputShape(shape, f) ==
  LET channels == AtLeast(1, f.channels)
      height == AtLeast(1, f.height)
      width == AtLeast(1, f.width)
  IN  IF Len(shape) # 4 THEN shape
      ELSE IF IsNchw(shape) THEN Fill(shape, <<1, channels, height, width>>)
      ELSE Fill(shape, <<1, height, width, channels>>)

(* resolve_nchw_input_shape; an empty shape: the model tells none.          *)
ResolveNchwShape(shape, f) ==
  IF Len(shape) = 4
  THEN Fill(shape, <<1, IF f.channels > 0 THEN f.channels ELSE 3, f.height, f.width>>)
  ELSE <<1, 3, f.height, f.width>>

(* build_rgb_nchw_float_input fills its tensor.                             *)
BuildsRgbInput(f, shape) ==
  /\ Len(shape) = 4 /\ shape[2] = 3 /\ shape[3] > 0 /\ shape[4] > 0
  /\ HasMat(f)
=============================================================================
