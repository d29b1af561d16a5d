----------------------------- MODULE Promptable -----------------------------
(***************************************************************************)
(* The promptable segmentation task                                        *)
(* (src/infer/tasks/promptable_segmentation): an encoder that makes an     *)
(* embedding of the image, a decoder that makes masks of an embedding and  *)
(* the prompts, and the families that run one or both.  spec is the        *)
(* ModelSpec with what its paths lead to: the loaded session of the model  *)
(* itself, the decoder's model, and what the two answer.                   *)
(***************************************************************************)
EXTENDS TaskValues, OrtSession

CONSTANTS EncoderSize,    (* kEncoderImageSize: 1024                        *)
          MaskSize        (* kDecoderMaskSize: 256                          *)

ASSUME PromptableAssumption ==
  EncoderSize \in Nat \ {0} /\ MaskSize \in Nat \ {0}

Tensor(name, shape, data) ==
  [type |-> "tensor", name |-> name, dtype |-> "float32", device |-> "host",
   shape |-> shape, size |-> Cardinality(DOMAIN data), data |-> data, view |-> 0]

(* Packet::put: the scratch is a function from the keys that are there.     *)
Put(scratch, key, value) ==
  [k \in DOMAIN scratch \cup {key} |-> IF k = key THEN value ELSE scratch[k]]

ParseFamily(family) ==
  CASE family = "efficient_sam_encoder" -> "encoder"
    [] family = "efficient_sam_decoder" -> "decoder"
    [] family = "efficient_sam" -> "combined"
    [] OTHER -> "invalid"

RequiresImage(family) == family \in {"encoder", "combined"}

-----------------------------------------------------------------------------
(* build_encoder_input: three planes of the encoder's size, on the host or, *)
(* from the kernel, on the device.                                          *)
EncoderTensor(f, device) ==
  LET t == Tensor("batched_images", <<1, 3, EncoderSize, EncoderSize>>,
                  [n \in {0} |-> 1])
      all == 3 * EncoderSize * EncoderSize
  IN  IF device = "host" THEN [t EXCEPT !.size = all]
      ELSE [t EXCEPT !.size = 0, !.device = device, !.view = all]

(* preprocess_promptable_encoder_cuda: by the kernel, to stay on the device,*)
(* or on the host after a copy.                                             *)
PreprocessEncoderCuda(im, cuda) ==
  IF \/ ~HasValidDeviceView(im)
     \/ im.format \notin {"bgr8", "rgb8", "nv12"}
     \/ im.format # "nv12" /\ im.channels # 3
  THEN NoValue
  ELSE IF cuda.kernels
       THEN IF cuda.works THEN EncoderTensor(im, "cuda") ELSE NoValue
  ELSE IF Found(MaterializeHostFrame(im, cuda)) THEN EncoderTensor(im, "host")
  ELSE NoValue

PrefersCuda(items, spec) ==
  LET image == Find(items, "image", "image") IN
  Found(image) /\ image.device = "cuda" /\ spec.backend = "onnxruntime" /\ spec.device = "cuda"

EncoderInput(items, f, spec, cuda) ==
  IF PrefersCuda(items, spec)
  THEN PreprocessEncoderCuda(Find(items, "image", "image"), cuda)
  ELSE IF HasMat(f) THEN EncoderTensor(f, "host") ELSE NoValue

FirstOutput(outputs) == IF outputs = <<>> THEN NoValue ELSE Head(outputs)

(* run_encoder_model: the embedding, the first output whatever its name.    *)
Embed(input, spec) ==
  IF ~Found(input) THEN NoValue
  ELSE FirstOutput(OrtRun(spec.session, <<input>>, spec.computes, spec.embeds))

-----------------------------------------------------------------------------
ScalePrompt(v, length) == Clamp((v * EncoderSize) \div length, 0, EncoderSize - 1)

PromptPoint(x, y, label, f) ==
  <<ScalePrompt(x, f.width), ScalePrompt(y, f.height), label>>

(* The middle of the frame is the prompt when there is no other.            *)
PointsOr(given, middle) == IF given = <<>> THEN <<middle>> ELSE given

BoxPoints(box, f) ==
  IF ~Found(box) THEN <<>>
  ELSE <<PromptPoint(box.x, box.y, 2, f),
         PromptPoint(box.x + box.width, box.y + box.height, 3, f)>>

(* Points have labels; 1 where none is given.                               *)
LabelledPoints(points, labels, f) ==
  IF ~Found(points) THEN <<>>
  ELSE [n \in DOMAIN points.value |->
          PromptPoint(points.value[n][1], points.value[n][2],
            IF Found(labels) /\ n <= Len(labels.value) THEN labels.value[n] ELSE 1, f)]

(* build_promptable_prompts: corners of the box, the points, or the middle. *)
Prompts(items, f) ==
  [width |-> f.width, height |-> f.height,
   points |-> PointsOr(BoxPoints(Find(items, "box", "box"), f)
                         \o LabelledPoints(Find(items, "points", "points"),
                                           Find(items, "point_labels", "floats"), f),
                       PromptPoint(f.width \div 2, f.height \div 2, 1, f))]

Coords(prompt) ==
  Tensor("batched_point_coords", <<1, 1, Len(prompt.points), 2>>,
         [n \in 0 .. 2 * Len(prompt.points) - 1 |-> prompt.points[(n \div 2) + 1][(n % 2) + 1]])

Labels(prompt) ==
  Tensor("batched_point_labels", <<1, 1, Len(prompt.points)>>,
         [n \in 0 .. Len(prompt.points) - 1 |-> prompt.points[n + 1][3]])

-----------------------------------------------------------------------------
(* resolve_decoder_embedding.                                               *)
UsableEmbedding(used) ==
  IF Found(used) /\ used.size > 0 /\ used.shape # <<>> THEN used ELSE NoValue

GivenEmbedding(items) == Find(items, "image_embeddings", "tensor")

DecoderEmbedding(family, given, embedding, cuda) ==
  UsableEmbedding(IF family # "decoder" THEN embedding
                  ELSE IF Found(given) THEN MaterializeHostTensor(given, cuda) ELSE NoValue)

EmbeddingRefused(given, cuda) ==
  Found(given) /\ ~Found(MaterializeHostTensor(given, cuda))

(* create_decoder_session: a session of its own for every call.             *)
RequiresDecoder(family, spec) == family = "decoder" \/ (family = "combined" /\ spec.aux # "")

DecoderSession(family, spec) ==
  OrtLoad(IF family = "decoder" THEN spec.path ELSE spec.aux, spec.decoder, spec.device)

(* The candidate of the first best score.                                   *)
BestScore(scores, candidates) ==
  LET best == CHOOSE b \in 0 .. scores.size - 1 :
                /\ \A n \in 0 .. scores.size - 1 : Element(scores, n) <= Element(scores, b)
                /\ \A n \in 0 .. b - 1 : Element(scores, n) < Element(scores, b)
  IN  AtMost(best, candidates - 1)

MaskPlane(masks) == masks.shape[4] * masks.shape[5]

(* select_best_mask: where the chosen mask starts, or -1.                   *)
BestMask(masks, scores) ==
  IF Len(masks.shape) # 5 \/ scores.size = 0 \/ masks.shape[3] = 0 \/ MaskPlane(masks) = 0
  THEN -1
  ELSE LET offset == BestScore(scores, masks.shape[3]) * MaskPlane(masks) IN
       IF offset + MaskPlane(masks) > masks.size THEN -1 ELSE offset

MaskLogits(masks, offset) ==
  [n \in 0 .. MaskPlane(masks) - 1 |-> Element(masks, offset + n)]

(* build_mask_frame reads the logits as MaskSize rows of MaskSize columns.  *)
MaskFrame(logits, prompt) ==
  [width |-> prompt.width, height |-> prompt.height,
   on |-> {n \in 0 .. MaskSize * MaskSize - 1 : n \in DOMAIN logits /\ logits[n] > 0}]

LogitReads(logits) == 0 .. MaskSize * MaskSize - 1

(* store_promptable_outputs.                                                *)
Store(scratch, prompt, masks, offset, scores) ==
  LET logits == MaskLogits(masks, offset) IN
  Put(Put(Put(Put(Put(scratch, "mask", MaskFrame(logits, prompt)),
                  "low_res_masks", masks),
              "logits", Tensor("logits", <<1, MaskSize, MaskSize>>, logits)),
          "scores", [n \in 1 .. scores.size |-> Element(scores, n - 1)]),
      "ready", TRUE)

(* What the decoder's model computes, cut down to what is told apart: masks *)
(* that depend on the embedding, the prompts and the place in the mask.     *)
Decoded(spec, embedding, prompt) ==
  IF spec.decodes = <<>> THEN <<>>
  ELSE [spec.decodes EXCEPT ![1].data =
          [n \in DOMAIN @ |->
             IF (n + embedding.data[0] + prompt.points[1][1]) % 2 = 0 THEN 1 ELSE -1]]

(* run_decoder_model.                                                       *)
Decode(session, spec, embedding, prompt) ==
  OrtRun(session, <<embedding, Coords(prompt), Labels(prompt)>>, spec.computes,
         Decoded(spec, embedding, prompt))

-----------------------------------------------------------------------------
(* The frame the prompts refer to; an image goes before a frame.            *)
PromptFrameOf(image, frame, cuda) ==
  IF Found(image) THEN MaterializeHostFrame(image, cuda)
  ELSE IF Found(frame) THEN FrameOf(frame) ELSE NoValue

PromptFrame(items, cuda) ==
  PromptFrameOf(Find(items, "image", "image"), Find(items, "image", "frame"), cuda)

(* There is an image and it cannot be copied to the host.                   *)
Refused(items, frame) == Found(Find(items, "image", "image")) /\ ~Found(frame)

(* Without a frame, and in a frame without extent, a side counts as 1.      *)
PromptSize(frame) ==
  IF Found(frame) THEN [width |-> AtLeast(1, frame.width), height |-> AtLeast(1, frame.height)]
  ELSE [width |-> 1, height |-> 1]

Failed(scratch) == [ok |-> FALSE, scratch |-> scratch]
FailedWith(error, scratch) == Failed(Put(scratch, "error", error))

(* The best mask of what the decoder has answered.                          *)
StoreBest(scratch, prompt, outputs) ==
  IF Len(outputs) < 2 THEN Failed(scratch)
  ELSE IF BestMask(outputs[1], outputs[2]) < 0 THEN Failed(scratch)
  ELSE [ok |-> TRUE,
        scratch |-> Store(scratch, prompt, outputs[1],
                          BestMask(outputs[1], outputs[2]), outputs[2])]

DecodeBest(session, spec, embedding, prompt, scratch) ==
  IF ~session.ready THEN Failed(scratch)
  ELSE StoreBest(scratch, prompt, Decode(session, spec, embedding, prompt))

(* From the embedding on.                                                   *)
RunDecoder(family, items, frame, spec, cuda, used, scratch) ==
  IF ~Found(used)
  THEN IF family = "decoder" /\ EmbeddingRefused(GivenEmbedding(items), cuda)
       THEN FailedWith("embedding", scratch) ELSE Failed(scratch)
  ELSE IF ~RequiresDecoder(family, spec) THEN Failed(scratch)
  ELSE DecodeBest(DecoderSession(family, spec), spec, used,
                  Prompts(items, PromptSize(frame)), scratch)

Embedded(embedding, scratch) ==
  Put(Put(scratch, "image_embeddings", embedding), "ready", TRUE)

(* A family with an encoder, from the encoder's input and its answer on.    *)
RunEncoded(family, items, frame, spec, cuda, input, embedding, scratch) ==
  IF ~Found(embedding)
  THEN IF PrefersCuda(items, spec) /\ ~Found(input)
       THEN FailedWith("encoder", scratch) ELSE Failed(scratch)
  ELSE IF family = "encoder" THEN [ok |-> TRUE, scratch |-> Embedded(embedding, scratch)]
  ELSE RunDecoder(family, items, frame, spec, cuda,
                  DecoderEmbedding(family, GivenEmbedding(items), embedding, cuda),
                  Embedded(embedding, scratch))

RunEncoder(family, items, frame, spec, cuda, input, scratch) ==
  RunEncoded(family, items, frame, spec, cuda, input, Embed(input, spec), scratch)

RunFamily(family, items, frame, spec, cuda, scratch) ==
  IF spec.backend # "onnxruntime" \/ family = "invalid" THEN Failed(scratch)
  ELSE IF Refused(items, frame) THEN FailedWith("image", scratch)
  ELSE IF ~RequiresImage(family)
       THEN RunDecoder(family, items, frame, spec, cuda,
                       DecoderEmbedding(family, GivenEmbedding(items), NoValue, cuda), scratch)
  ELSE IF ~Found(frame) THEN FailedWith("no image", scratch)
  ELSE RunEncoder(family, items, frame, spec, cuda,
                  EncoderInput(items, frame, spec, cuda), scratch)

(* run_promptable_segmentation_models.                                      *)
RunModels(items, spec, cuda, scratch) ==
  RunFamily(ParseFamily(spec.family), items, PromptFrame(items, cuda), spec, cuda, scratch)

(* finalize_promptable_segmentation_output adds what is there.              *)
Added(scratch, key) ==
  IF key \in DOMAIN scratch THEN <<[name |-> key, value |-> scratch[key]]>> ELSE <<>>

Finalize(scratch) ==
  IF "ready" \notin DOMAIN scratch THEN <<>>
  ELSE Added(scratch, "image_embeddings") \o Added(scratch, "mask")
         \o Added(scratch, "low_res_masks") \o Added(scratch, "logits")
         \o Added(scratch, "scores")
=============================================================================
