------------------------------- MODULE TaskRun -------------------------------
(***************************************************************************)
(* One task on one input, over every way the library runs it: the          *)
(* pipeline's run_sync, which the tile runner calls for every tile         *)
(* (tile_runner.cpp:525), the nodes of the graph that Model::run_sync and  *)
(* submit build (src/infer/graph/graph.cpp:165-399, 678-699), and, where a *)
(* node can, its submit.  The input, the build, the model and what the     *)
(* model answers are one scene, chosen at the start; the ways follow each  *)
(* other, each on a fresh packet.                                          *)
(***************************************************************************)
EXTENDS Detectors, HostTasks, Promptable

CONSTANTS Scenes,            (* what may be chosen                           *)
          Confidence,        (* the confidence threshold                     *)
          OverlapPercent,    (* the threshold of the suppression             *)
          DefaultSize        (* the SCRFD size of an open model (640)        *)

(* What the promptable task needs of its scene: the members of ModelSpec    *)
(* that it reads, and outputs of ONNX Runtime as they are, on the host and  *)
(* with all their elements; a scalar has no shape.                          *)
SpecMembers ==
  {"backend", "family", "aux", "device", "path", "session", "embeds", "computes", "decodes",
   "decoder"}

TensorMembers == {"type", "name", "dtype", "device", "shape", "size", "data", "view"}

OnnxOutput(t) ==
  /\ TensorMembers \subseteq DOMAIN t
  /\ t.device = "host" /\ t.size \in Nat
  /\ t.shape = <<>> \/ t.size = ElementCount(t.shape)

IsSequence(s) == s \in Seq({s[n] : n \in DOMAIN s})

PromptableScene(s) ==
  /\ SpecMembers \subseteq DOMAIN s.spec
  /\ IsSequence(s.spec.embeds) /\ IsSequence(s.spec.decodes) /\ IsSequence(s.spec.decoder.inputs)
  /\ \A n \in DOMAIN s.spec.embeds : OnnxOutput(s.spec.embeds[n])
  /\ \A n \in DOMAIN s.spec.decodes : OnnxOutput(s.spec.decodes[n])

(* The C++ types of the members the other scenes have numbers in.           *)
IsImage(item) == item.type \in {"image", "frame"}

ImageTypes(im) ==
  im.width \in Int /\ im.height \in Int /\ im.channels \in Int
    /\ im.stride \in Nat /\ im.bytes \in Nat /\ im.view \in Nat

Objects ==
  [box : [x : Int, y : Int, width : Int, height : Int], class_id : Int, score : Int]

HostTask(task) == task \in {"classification", "segmentation", "pose", "facemesh"}

ASSUME ScenesAssumption ==
  \A s \in Scenes :
    /\ IsSequence(s.items) /\ \A n \in DOMAIN s.items : IsImage(s.items[n]) => ImageTypes(s.items[n])
    /\ s.task \in {"detection", "face_detection"} =>
         s.shape \in Seq(Int) /\ s.rows \in Nat /\ s.objects \in Seq(Objects)
    /\ s.task = "face_detection" => s.outputs \in Nat
    /\ HostTask(s.task) => s.tensor.size \in Nat /\ s.tensor.shape \in Seq(Int)
    /\ s.task = "promptable" => PromptableScene(s)

ASSUME SizeAssumption == DefaultSize \in Nat

VARIABLES scene,
          way,         (* of the run going on; "" between runs               *)
          stage,       (* where it is                                        *)
          scratch,     (* its Packet::scratch                                *)
          output,      (* its Packet::output                                 *)
          candidates,  (* the candidates of its detections                   *)
          results,     (* of the ways that have ended                        *)
          inside       (* every element and byte read was there              *)

vars == <<scene, way, stage, scratch, output, candidates, results, inside>>

NoScratch == [key \in {} |-> 0]
Ready == /\ way = "" /\ stage = "start" /\ scratch = NoScratch /\ output = <<>>
         /\ candidates = <<>> /\ results = [w \in {} |-> 0] /\ inside = TRUE
Init == scene \in Scenes /\ Ready

Ways(task) ==
  CASE task = "detection" -> {"pipeline", "process", "submit"}
    [] task = "promptable" -> {"pipeline", "process", "submit", "split"}
    [] OTHER -> {"process"}

Untouched == UNCHANGED <<scene, way, candidates, results>>

(* A frame that is copied into a matrix has the bytes of the matrix.        *)
FrameInside(f) == Found(f) /\ HasMat(f) => MatBytes(f) <= f.bytes

-----------------------------------------------------------------------------
(* A run begins on a packet of its own and leaves its output behind.        *)
Start(w) ==
  /\ way = "" /\ w \in Ways(scene.task) \ DOMAIN results
  /\ way' = w /\ stage' = "infer"
  /\ scratch' = NoScratch /\ output' = <<>> /\ candidates' = <<>>
  /\ UNCHANGED <<scene, results, inside>>

Leave(out) ==
  /\ way' = "" /\ stage' = "start"
  /\ results' = Put(results, way, out)
  /\ UNCHANGED <<scene, scratch>>

-----------------------------------------------------------------------------
(* What preprocess_yolo copies into a matrix: a host frame, or a device     *)
(* image where no kernel reads it.                                          *)
FrameCopied ==
  IF SourcePath(scene.items) = "host_cpu" THEN SourceValue(scene.items)
  ELSE IF SourcePath(scene.items) = "cuda_device" /\ ~scene.cuda.kernels
       THEN CopyCudaImage(SourceValue(scene.items), scene.cuda)
  ELSE NoValue

DetectorAnswers(lb) ==
  IF scene.answers THEN <<DetectorTensor(scene, SeenIn(scene.objects, FrameCopied), lb)>>
  ELSE <<>>

(* prepare_detection_inference up to the backend, and                       *)
(* prepare_detection_inference_async.  Nothing prepared ends run_sync; the  *)
(* nodes go on without the letterbox.                                       *)
PrepareDetection ==
  /\ scene.task = "detection" /\ stage = "infer"
  /\ inside' = (inside /\ FrameInside(FrameCopied))
  /\ \E lb \in {BuildRequest(scene.items, scene.shape, scene.cuda)} :
       IF Found(lb)
       THEN /\ scratch' = Put(scratch, "preprocess", lb)
            /\ stage' = "backend"
            /\ UNCHANGED output /\ Untouched
       ELSE IF way = "pipeline"
            THEN Leave(<<>>) /\ UNCHANGED <<output, candidates>>
            ELSE /\ scratch' = Put(scratch, "preprocess_error", TRUE)
                 /\ stage' = "postprocess"
                 /\ UNCHANGED output /\ Untouched

AnswerLosesLetterbox ==   (* slip: the thread returns a packet of its own *)
  /\ stage = "backend"
  /\ scratch' = IF way = "submit"
                THEN Put(NoScratch, "raw_outputs", DetectorAnswers(scratch["preprocess"]))
                ELSE Put(scratch, "raw_outputs", DetectorAnswers(scratch["preprocess"]))
  /\ stage' = "postprocess"
  /\ UNCHANGED <<output, inside>> /\ Untouched

(* The outputs come back, from IBackendSession::run or, with submit, from   *)
(* the future another thread waits for with the packet in its hands.        *)
BackendAnswers ==
  /\ stage = "backend"
  /\ scratch' = Put(scratch, "raw_outputs", DetectorAnswers(scratch["preprocess"]))
  /\ stage' = "postprocess"
  /\ UNCHANGED <<output, inside>> /\ Untouched

(* finalize_detection_output and the output field it goes to.               *)
DetectorOutputs ==
  IF {"preprocess", "raw_outputs"} \subseteq DOMAIN scratch
  THEN HostOutputs(scratch["raw_outputs"], scene.cuda) ELSE NoValue

PostprocessDetection ==
  /\ scene.task = "detection" /\ stage = "postprocess"
  /\ \E host \in {DetectorOutputs}, frame \in {FindImageFrame(scene.items)} :
       IF Found(host) /\ Found(frame)
       THEN /\ candidates' = YoloCandidates(host.tensors, scratch["preprocess"], frame, Confidence)
            /\ inside' = (inside /\ \A n \in DOMAIN host.tensors :
                 YoloReads(host.tensors[n]) \subseteq 0 .. host.tensors[n].size - 1)
       ELSE candidates' = <<>> /\ UNCHANGED inside
  /\ output' = <<Field("detections", NonMaximumSuppression(candidates', OverlapPercent))>>
  /\ Leave(output')

-----------------------------------------------------------------------------
(* The promptable nodes: both run the models in one step, in a thread with  *)
(* submit, and finalize whatever the scratch holds; run_sync finalizes only *)
(* after success.  "split" is the pair of models the example runs one after *)
(* the other: the encoder's output is the decoder's input.                  *)
EncoderRun ==
  RunModels(scene.items, [scene.spec EXCEPT !.family = "efficient_sam_encoder"],
            scene.cuda, NoScratch)

EmbeddingOf(out) ==
  IF out # <<>> /\ out[1].name = "image_embeddings" THEN out[1].value ELSE NoValue

DecoderRun(embedded) ==
  IF ~Found(embedded) THEN Failed(NoScratch)
  ELSE RunModels(Append(scene.items, [embedded EXCEPT !.name = "image_embeddings"]),
                 [scene.spec EXCEPT !.family = "efficient_sam_decoder",
                                    !.path = scene.spec.aux], scene.cuda, NoScratch)

RunOf(w) ==
  IF w # "split" THEN RunModels(scene.items, scene.spec, scene.cuda, NoScratch)
  ELSE DecoderRun(EmbeddingOf(Finalize(EncoderRun.scratch)))

PromptedReads(run) ==
  "logits" \in DOMAIN run.scratch =>
     LogitReads(run.scratch["logits"].data) \subseteq DOMAIN run.scratch["logits"].data

RunPromptable ==
  /\ scene.task = "promptable" /\ stage = "infer"
  /\ \E run \in {RunOf(way)} :
       /\ output' = IF way = "pipeline" /\ ~run.ok THEN <<>> ELSE Finalize(run.scratch)
       /\ inside' = (inside /\ PromptedReads(run)
                           /\ FrameInside(PromptFrame(scene.items, scene.cuda)))
  /\ Leave(output')
  /\ UNCHANGED candidates

-----------------------------------------------------------------------------
(* The other tasks have one node, whose process is the pipeline's run_sync. *)
Prepared(f) == Found(f) /\ BuildsRgbInput(f, ResolveNchwShape(scene.shape, f))

HostTaskReads(f) ==
  CASE scene.task = "segmentation" -> MaskReads(scene.tensor, f)
    [] scene.task = "pose" -> PointReads(scene.tensor, <<3, 2>>)
    [] scene.task = "facemesh" -> PointReads(scene.tensor, <<4, 3, 2>>)
    [] OTHER -> {}

HostTaskOutput(outputs, f) ==
  CASE scene.task = "classification" -> Classify(outputs, scene.labels)
    [] scene.task = "segmentation" -> Segment(outputs, f)
    [] scene.task = "pose" -> PointOutput(outputs, "keypoints", <<3, 2>>)
    [] OTHER -> PointOutput(outputs, "landmarks", <<4, 3, 2>>)

RunHostTask ==
  /\ HostTask(scene.task) /\ stage = "infer"
  /\ \E f \in {ResolveHostImage(scene.items, scene.cuda)} :
       IF Prepared(f)
       THEN /\ output' = HostTaskOutput(IF scene.answers THEN <<scene.tensor>> ELSE <<>>, f)
            /\ inside' = (inside /\ FrameInside(f) /\ (scene.answers =>
                            HostTaskReads(f) \subseteq 0 .. scene.tensor.size - 1))
       ELSE output' = <<>> /\ UNCHANGED inside
  /\ Leave(output')
  /\ UNCHANGED candidates

(* The input of a face model, if the frame is there.                        *)
FaceInput(f) ==
  IF ~Found(f) THEN NoValue
  ELSE BuildScrfdInput(f, FaceShape(scene.family, scene.shape, f, DefaultSize), scene.family)

FaceReadsInside(outputs) ==
  scene.family \in ScrfdFamilies \/
    \A n \in DOMAIN outputs : FaceReads(outputs[n]) \subseteq 0 .. outputs[n].size - 1

DetectFaces(f, in, outputs) ==
  /\ candidates' = FaceCandidates(scene.family, outputs, in, f, Confidence)
  /\ output' = <<Field("detections", NonMaximumSuppression(candidates', OverlapPercent))>>
  /\ inside' = (inside /\ FrameInside(f) /\ FaceReadsInside(outputs))

RunFaces ==
  /\ scene.task = "face_detection" /\ stage = "infer"
  /\ \E f \in {ResolveHostImage(scene.items, scene.cuda)} : \E in \in {FaceInput(f)} :
       IF Found(in) /\ scene.answers
       THEN \E outputs \in {FaceAnswers(scene, SeenIn(scene.objects, f), in, f)} :
              DetectFaces(f, in, outputs)
       ELSE /\ candidates' = <<>> /\ output' = <<>>
            /\ inside' = (inside /\ (Found(in) => FrameInside(f)))
  /\ Leave(output')

Next ==
  \/ \E w \in Ways(scene.task) : Start(w)
  \/ PrepareDetection \/ BackendAnswers \/ PostprocessDetection
  \/ RunPromptable \/ RunHostTask \/ RunFaces

Spec == Init /\ [][Next]_vars

-----------------------------------------------------------------------------
(* The schemas of registry.cpp: what an output must and may hold.           *)
Required(task) ==
  CASE task \in {"detection", "face_detection"} -> {"detections"}
    [] task = "classification" -> {"classification"}
    [] task = "segmentation" -> {"mask"}
    [] task = "pose" -> {"keypoints"}
    [] task = "facemesh" -> {"landmarks"}
    [] OTHER -> {}

Allowed(task) ==
  Required(task) \cup
  CASE task = "classification" -> {"scores"}
    [] task = "segmentation" -> {"logits"}
    [] task \in {"pose", "facemesh"} -> {"scores", "raw"}
    [] task = "promptable" -> {"image_embeddings", "mask", "low_res_masks", "logits", "scores"}
    [] OTHER -> {}

Names(out) == {out[n].name : n \in DOMAIN out}

(* Whatever fails on the way, an output is empty or what the task's schema  *)
(* promises: all its required fields, no others than it lists, each once    *)
(* (registry.cpp:26-107 against the six pipelines).                         *)
SchemaKept ==
  \A w \in DOMAIN results : results[w] # <<>> =>
    /\ Required(scene.task) \subseteq Names(results[w])
    /\ Names(results[w]) \subseteq Allowed(scene.task)
    /\ Cardinality(Names(results[w])) = Len(results[w])

-----------------------------------------------------------------------------
PreparesNothing == ~Found(BuildRequest(scene.items, scene.shape, scene.cuda))

WithoutEmbedding(out) ==
  IF out # <<>> /\ out[1].name = "image_embeddings" THEN Tail(out) ELSE out

Ended(ways) == ways \subseteq DOMAIN results

(* The graph answers alike in the caller's thread and in threads of its own.*)
NodesAgree == Ended({"process", "submit"}) => results["process"] = results["submit"]

(* So does the pipeline in one piece, with two exceptions, which the code   *)
(* has: after a preprocessing error the graph adds empty detections where   *)
(* run_sync returns no field, and when the decoder is not reached or fails  *)
(* the graph hands out the embedding where run_sync returns nothing.        *)
PipelineAgrees ==
  Ended({"process", "pipeline"}) =>
    \/ results["process"] = results["pipeline"]
    \/ /\ scene.task = "detection" /\ PreparesNothing
       /\ results["pipeline"] = <<>> /\ results["process"] = <<Field("detections", <<>>)>>
    \/ /\ scene.task = "promptable" /\ ParseFamily(scene.spec.family) = "combined"
       /\ results["pipeline"] = <<>> /\ Names(results["process"]) = {"image_embeddings"}

(* And an encoder run followed by a decoder run makes the masks of the      *)
(* combined model, unless the input has an embedding already.               *)
NoEmbeddingGiven == \A n \in DOMAIN scene.items : scene.items[n].name # "image_embeddings"

SplitAgrees ==
  Ended({"process", "split"}) =>
    (ParseFamily(scene.spec.family) = "combined" /\ NoEmbeddingGiven
       => WithoutEmbedding(results["process"]) = results["split"])

(* A tile or a test that calls the pipeline, the graph in a thread or not,  *)
(* and the two models one after the other answer the same input alike       *)
(* (detection_pipeline.cpp:226-242, promptable pipeline 549-609,            *)
(* graph.cpp:208-275, 324-391).                                             *)
SameResult == NodesAgree /\ PipelineAgrees /\ SplitAgrees

-----------------------------------------------------------------------------
Visible ==
  {scene.objects[n] : n \in {m \in DOMAIN scene.objects : scene.objects[m].score >= Confidence}}

(* The scenes in which the detector is asked, its answer is decoded, and    *)
(* the decoder can tell its layout.  Left out, because the code gets them   *)
(* wrong, are                                                               *)
(*   - a YOLO output of as many boxes as attributes or fewer, the other way *)
(*     round than it is guessed (yolo_postprocess.cpp:75-86);               *)
(*   - rows small enough to be taken for parts of the input (the same, 22); *)
(*   - face rows of a scaled frame, those with more rows than attributes    *)
(*     the other way round, and boxes by centre that are larger than their  *)
(*     centre (face_detection_pipeline.cpp:192, 412).                       *)
DetectorDecodable(lb) ==
  /\ Found(lb) /\ (scene.device = "host" \/ CanCopy(scene.cuda))
  /\ scene.rows > 6 \/ (scene.transposed /\ scene.rows = 6)
  /\ \A o \in Visible : \E n \in 1 .. 4 : Placed(o, lb)[n] > 2

FacesDecodable(f) ==
  /\ Found(f) /\ HasMat(f) /\ f.channels = 3
  /\ IF scene.family \in ScrfdFamilies THEN scene.outputs \in {6, 9, 10, 15}
     ELSE /\ <<scene.shape[4], scene.shape[3]>> = <<f.width, f.height>>
          /\ scene.transposed => scene.rows < 5
          /\ scene.corners \/ \A o \in Visible :
               \/ o.box.width <= o.box.x + o.box.width \div 2
               \/ o.box.height <= o.box.y + o.box.height \div 2

AnswerDecodable ==
  /\ scene.answers
  /\ IF scene.task = "detection"
     THEN DetectorDecodable(BuildRequest(scene.items, scene.shape, scene.cuda))
     ELSE FacesDecodable(ResolveHostImage(scene.items, scene.cuda))

MatrixFrame ==
  IF scene.task = "detection" THEN FrameCopied ELSE ResolveHostImage(scene.items, scene.cuda)

(* Left out besides are host images with padded rows, device images that    *)
(* materialize_host_frame copies with their padding, and images of two or   *)
(* of four channels: frame_to_mat_copy takes their bytes for packed rows of *)
(* three channels or one and shifts every row but the first                 *)
(* (opencv_utils.cpp:13-15).                                                *)
Decodable == AnswerDecodable /\ (Found(MatrixFrame) => PackedAsMat(MatrixFrame))

InPlace(found) ==
  /\ \A n \in DOMAIN found : \E o \in Visible :
       /\ found[n].box = o.box
       /\ found[n].class_id = o.class_id /\ found[n].score = o.score
       /\ \A m \in DOMAIN found[n].keypoints :
            found[n].keypoints[m] = <<o.box.x + o.box.width, o.box.y>>
  /\ \A o \in Visible : \E n \in DOMAIN found :
       /\ found[n].class_id = o.class_id /\ found[n].score >= o.score
       /\ found[n].box = o.box \/ Overlaps(found[n].box, o.box, OverlapPercent)

Detects(task) == task \in {"detection", "face_detection"}

(* Back from the model's input, every detection is an object of the frame   *)
(* with its class, score and landmarks, and every object with score enough  *)
(* is there unless a better one of its class covers it (the letterbox and   *)
(* its way back in yolo_preprocess_cpu.cpp:44-56 and                        *)
(* yolo_postprocess.cpp:14-43, the SCRFD input and its way back in          *)
(* face_detection_pipeline.cpp:56-149 and 211-392).                         *)
FoundInPlace ==
  \A w \in DOMAIN results :
    Detects(scene.task) /\ Decodable => InPlace(results[w][1].value)

(* So the documents ask for of an image whose row_stride_bytes is set, too, *)
(* if the layout is valid (docs/ARCHITECTURE.md:630, README.md:485-488).    *)
(* But the copy into a matrix leaves the stride out (opencv_utils.cpp:14).  *)
FoundInPaddedRows ==
  \A w \in DOMAIN results :
    (Detects(scene.task) /\ AnswerDecodable
       /\ (Found(MatrixFrame) => MatrixFrame.channels = 3))
      => InPlace(results[w][1].value)

(* The detections handed out are a greedy selection of the candidates       *)
(* (nms.cpp:13-59): by falling score, none covered by another of its class, *)
(* none left out without a better one that covers it.                       *)
KeptAreGreedy ==
  Names(output) = {"detections"} =>
    GreedySelection(output[1].value, candidates, OverlapPercent)

(* What the code takes for granted: rows that do not overlap, one channel   *)
(* for nv12, a raw frame with all its bytes (opencv_utils.cpp:6-17), and a  *)
(* mask of the decoder of the size that build_mask_frame reads              *)
(* (promptable_segmentation_pipeline.cpp:181).                              *)
ImagesAreWhole ==
  \A n \in {m \in DOMAIN scene.items : IsImage(scene.items[m])} :
    LET im == scene.items[n] IN
    /\ im.stride = 0 \/ im.stride >= PackedStride(im)
    /\ im.format = "nv12" => im.channels = 1
    /\ im.type = "frame" => im.bytes >= RequiredBytes(im)

MasksAreWhole ==
  scene.task = "promptable" =>
    \A n \in DOMAIN scene.spec.decodes : Len(scene.spec.decodes[n].shape) = 5 =>
      MaskPlane(scene.spec.decodes[n]) = MaskSize * MaskSize

(* No decoder reads past the data of an output, and no frame is read past   *)
(* its bytes, whatever layout is guessed from the shape                     *)
(* (yolo_postprocess.cpp:46-132, face_detection_pipeline.cpp:395-470, the   *)
(* postprocessing of the host tasks, and frame_to_mat_copy for all).        *)
ReadsInsideData == ImagesAreWhole /\ MasksAreWhole => inside
=============================================================================
