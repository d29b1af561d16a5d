----------------------------- MODULE MCPipelines -----------------------------
(***************************************************************************)
(* The scenes of the pipelines run, its properties, and the file between   *)
(* the encoder and the decoder beside it: a behaviour is of one or of the  *)
(* other.                                                                  *)
(***************************************************************************)
EXTENDS TaskRun, EmbeddingFile

Image(device, format, width, height, stride, size) ==
  LET channels == CASE format \in {"nv12", "gray"} -> 1 [] format = "bgra" -> 4 [] OTHER -> 3
      im == [type |-> "image", name |-> "image", device |-> device, width |-> width,
             height |-> height, channels |-> channels, format |-> format,
             stride |-> stride, bytes |-> 0, view |-> 0]
      full == RequiredBytes(im)
      there == IF size = "full" THEN full ELSE full - 1
  IN  IF device = "host" THEN [im EXCEPT !.bytes = there] ELSE [im EXCEPT !.view = there]

Packed(width, height) == Image("host", "bgr8", width, height, 0, "full")
RawFrame(width, height) == FrameOf(Packed(width, height))

Cuda(runtime, kernels, works) == [runtime |-> runtime, kernels |-> kernels, works |-> works]
HostBuild == Cuda(FALSE, FALSE, FALSE)
Builds == {HostBuild} \cup {Cuda(TRUE, k, w) : k, w \in BOOLEAN}

Object(x, y, width, height, class, score) ==
  [box |-> [x |-> x, y |-> y, width |-> width, height |-> height],
   class_id |-> class, score |-> score]

(* An image of every kind, with the devices it may be on.                   *)
AnyImage(width, height) ==
  {Packed(width, height), RawFrame(width, height),
   Image("host", "gray", width, height, 0, "full"),
   Image("host", "bgra", width, height, 0, "full"),
   Image("host", "bgr8", width, height, 3 * width + 2, "full"),
   Image("host", "bgr8", width, height, 0, "short"),
   Image("host", "nv12", width, height, 0, "full"),
   Image("npu", "bgr8", width, height, 0, "full")}
  \cup {Image("cuda", format, width, height, stride, size) :
          format \in {"bgr8", "nv12"}, stride \in {0, 3 * width + 2}, size \in {"full", "short"}}

AnyItems(width, height) ==
  {<<>>, <<[type |-> "tensor", name |-> "image"], Packed(width, height)>>}
  \cup {<<im>> : im \in AnyImage(width, height)}

-----------------------------------------------------------------------------
(* Objects in the frame, on a grid that the scale keeps whole.              *)
Crowds ==
  {<<>>,
   <<Object(4, 0, 4, 8, 1, 7)>>,
   <<Object(0, 0, 8, 8, 0, 5), Object(0, 0, 8, 4, 0, 7)>>,
   <<Object(0, 0, 8, 8, 0, 7), Object(0, 0, 8, 4, 0, 5), Object(0, 4, 4, 4, 0, 4)>>,
   <<Object(0, 0, 8, 8, 0, 5), Object(0, 0, 8, 4, 1, 7)>>,
   <<Object(0, 0, 4, 4, 0, 2), Object(4, 4, 4, 4, 0, 7), Object(0, 4, 4, 4, 0, 7)>>}

Detection(items, shape, cuda, backend, answers, device, objects, rows, transposed) ==
  [task |-> "detection", items |-> items, shape |-> shape, cuda |-> cuda, backend |-> backend,
   answers |-> answers, device |-> device, objects |-> objects, rows |-> rows,
   transposed |-> transposed]

PlacedScenes ==
  {Detection(<<im>>, shape, HostBuild, "onnxruntime", TRUE, "host", objects, rows, transposed) :
     im \in {Packed(16, 8), RawFrame(8, 8), Packed(8, 16), Packed(16, 16)},
     shape \in {<<>>, <<1, 3, 8, 8>>, <<1, 3, 16, 8>>, <<0, 3, 0, 0>>, <<1, 8, 8, 3>>},
     objects \in Crowds, rows \in {7, 9}, transposed \in BOOLEAN}

(* Outputs whose shape does not tell boxes from attributes, or tells them   *)
(* wrongly.                                                                 *)
GuessedScenes ==
  {Detection(<<Packed(16, 8)>>, <<1, 3, 8, 8>>, HostBuild, "onnxruntime", TRUE, "host",
             objects, rows, transposed) :
     objects \in Crowds, rows \in {3, 5, 6}, transposed \in BOOLEAN}

FaultyDetections ==
  {Detection(items, shape, cuda, backend, answers, device, <<Object(4, 0, 4, 8, 1, 7)>>, 7, FALSE) :
     items \in AnyItems(16, 8), shape \in {<<>>, <<1, 3, 8, 8>>}, cuda \in Builds,
     backend \in {"onnxruntime"}, answers \in BOOLEAN, device \in {"host", "cuda"}}

-----------------------------------------------------------------------------
(* Faces on a grid of two strides of eight.                                 *)
FaceCrowds ==
  {<<>>, <<Object(16, 0, 16, 32, 0, 7)>>,
   <<Object(0, 0, 32, 32, 0, 5), Object(0, 16, 32, 16, 0, 7)>>,
   <<Object(0, 0, 16, 16, 0, 2), Object(16, 16, 16, 16, 0, 7)>>}

FaceScenes ==
  {[task |-> "face_detection", items |-> items, shape |-> shape, cuda |-> cuda,
    answers |-> answers, family |-> family, outputs |-> outputs, objects |-> objects,
    rows |-> 6, corners |-> FALSE, transposed |-> FALSE] :
     items \in {<<Packed(64, 32)>>, <<RawFrame(32, 64)>>},
     shape \in {<<1, 3, 32, 32>>, <<1, 3, 0, 0>>}, cuda \in {HostBuild}, answers \in {TRUE},
     family \in {"scrfd", "scrfd_raw_bgr"}, outputs \in {5, 6, 9, 10, 15},
     objects \in FaceCrowds}
  \cup
  {[task |-> "face_detection", items |-> items, shape |-> <<1, 3, 32, 32>>, cuda |-> cuda,
    answers |-> answers, family |-> "scrfd", outputs |-> 9,
    objects |-> <<Object(16, 0, 16, 32, 0, 7)>>, rows |-> 6, corners |-> FALSE,
    transposed |-> FALSE] :
     items \in AnyItems(64, 32), cuda \in Builds, answers \in BOOLEAN}
  \cup
  {[task |-> "face_detection", items |-> <<im>>, shape |-> <<1, 3, 32, 32>>,
    cuda |-> HostBuild, answers |-> TRUE, family |-> "retina", outputs |-> 1,
    objects |-> objects, rows |-> rows, corners |-> corners, transposed |-> transposed] :
     im \in {Packed(32, 32), Packed(64, 32)}, objects \in FaceCrowds, rows \in {2, 4, 6},
     corners \in BOOLEAN, transposed \in BOOLEAN}

-----------------------------------------------------------------------------
Filled(shape, size) ==
  [type |-> "tensor", name |-> "out", dtype |-> "float32", device |-> "host", view |-> 0,
   shape |-> shape, size |-> size, data |-> [n \in 0 .. size - 1 |-> (n * 5) % 7]]

HostScenes ==
  {[task |-> task, items |-> items, shape |-> shape, cuda |-> cuda, answers |-> answers,
    labels |-> <<"a", "b">>, tensor |-> tensor] :
     task \in {"classification", "segmentation", "pose", "facemesh"},
     items \in {<<>>, <<Packed(4, 2)>>, <<Image("cuda", "bgr8", 4, 2, 0, "full")>>},
     shape \in {<<>>, <<1, 3, 2, 2>>, <<1, 0, 2, 2>>}, cuda \in {HostBuild, Cuda(TRUE, FALSE, TRUE)},
     answers \in BOOLEAN,
     tensor \in {Filled(<<1, 3, 2, 2>>, 12), Filled(<<2, 3, 2, 1>>, 12), Filled(<<1, 3, 2, 3>>, 18),
                 Filled(<<1, 5, 3>>, 15), Filled(<<1, 7>>, 7), Filled(<<1, 10>>, 10),
                 Filled(<<1, 4, 4>>, 16), Filled(<<0, 3>>, 0)}}

-----------------------------------------------------------------------------
Embedding == Filled(<<1, 2>>, 2)
Masks(plane, count) == Filled(<<1, 1, count, plane, plane>>, count * plane * plane)
Scores(count) == Filled(<<1, 1, count>>, count)
OfType(t, dtype) == [t EXCEPT !.dtype = dtype]

PromptSpec(family, aux, device, embeds, decodes, opens, computes) ==
  [backend |-> "onnxruntime", family |-> family, aux |-> aux, device |-> device,
   path |-> "model", session |-> [ready |-> TRUE, cuda |-> device = "cuda",
     names |-> IF family = "efficient_sam_decoder" THEN <<"image_embeddings", "c", "l">>
               ELSE <<"batched_images">>],
   embeds |-> embeds, computes |-> computes, decodes |-> decodes,
   decoder |-> [exists |-> TRUE, opens |-> opens, inputs |-> <<"image_embeddings", "c", "l">>]]

Prompted(items, cuda, spec) ==
  [task |-> "promptable", items |-> items, cuda |-> cuda, spec |-> spec]

GivenPrompts ==
  {<<>>, <<[type |-> "points", name |-> "points", value |-> <<<<3, 1>>, <<0, 0>>>>],
           [type |-> "floats", name |-> "point_labels", value |-> <<0>>],
           [type |-> "box", name |-> "box", x |-> 1, y |-> 0, width |-> 2, height |-> 2]>>}

GivenEmbeddings ==
  {<<>>} \cup {<<[Embedding EXCEPT !.name = "image_embeddings", !.device = device, !.view = view]>> :
                 device \in {"host", "cuda"}, view \in {2}}

PromptScenes ==
  {Prompted(items \o prompts, HostBuild,
            PromptSpec(family, aux, "cpu", embeds, decodes, opens, computes)) :
     items \in {<<Packed(4, 2)>>}, prompts \in GivenPrompts,
     family \in {"efficient_sam", "efficient_sam_encoder", "efficient_sam_decoder", "sam"},
     aux \in {"", "decoder"},
     embeds \in {<<>>, <<Embedding, Scores(1)>>, <<OfType(Embedding, "float16"), Embedding>>},
     decodes \in {<<>>, <<Masks(2, 3), Scores(3)>>, <<Masks(2, 2), Scores(3), Scores(1)>>,
                  <<OfType(Masks(2, 3), "float16"), Scores(3), Scores(1)>>, <<Masks(2, 3)>>,
                  <<Masks(1, 3), Scores(3)>>},
     opens \in BOOLEAN, computes \in BOOLEAN}
  \cup
  {Prompted(items \o embeddings, cuda,
            PromptSpec(family, "decoder", device, <<Embedding>>, <<Masks(2, 3), Scores(3)>>, TRUE, TRUE)) :
     items \in AnyItems(4, 2), embeddings \in GivenEmbeddings, cuda \in Builds,
     family \in {"efficient_sam", "efficient_sam_encoder", "efficient_sam_decoder"},
     device \in {"cpu", "cuda"}}

(* Detectors shown an image whose rows have two bytes more than pixels.     *)
MCPaddedScenes ==
  {s \in FaultyDetections : s.cuda = HostBuild} \cup {s \in FaceScenes : s.cuda = HostBuild}

MCScenes == PlacedScenes \cup GuessedScenes \cup FaultyDetections \cup FaceScenes \cup HostScenes \cup PromptScenes
MCValues == [e \in Embeddings |-> CASE e = "a" -> 3 [] e = "b" -> 2 [] OTHER -> 0]

-----------------------------------------------------------------------------
NoScene == [task |-> "none", items |-> <<>>]
MCInit ==
  \/ Init /\ FileInit
  \/ scene = NoScene /\ Ready /\ FileInit

MCNext ==
  \/ scene # NoScene /\ Next /\ UNCHANGED fileVars
  \/ scene = NoScene /\ FileNext /\ UNCHANGED vars

MCSpec == MCInit /\ [][MCNext]_<<vars, fileVars>>
=============================================================================
