----------------------------- MODULE OrtSession -----------------------------
(***************************************************************************)
(* OrtSession (src/infer/backends/onnxruntime/ort_session.cpp): loading,   *)
(* and what a run hands to ONNX Runtime and makes of its answer.  Inputs   *)
(* are bound by their position, unsupported ones are passed over, and so   *)
(* are the outputs that are no float32 tensors.  A tensor carries its      *)
(* dtype; "sequence" stands for an output that is no tensor at all.        *)
(***************************************************************************)
EXTENDS TaskValues

NotLoaded == [ready |-> FALSE, names |-> <<>>, cuda |-> FALSE]

(* load: model is what the path leads to, opens whether ONNX Runtime takes  *)
(* it, with the CUDA provider if the device is one.                         *)
OrtLoad(path, model, device) ==
  IF path = "" \/ ~model.exists \/ ~model.opens THEN NotLoaded
  ELSE [ready |-> TRUE, names |-> model.inputs, cuda |-> device = "cuda"]

(* is_supported_backend_input_tensor and supports_ort_cuda_input_tensor.    *)
Supported(session, t) ==
  /\ t.dtype = "float32"
  /\ \/ TensorHostLayout(t)
     \/ session.cuda /\ t.device = "cuda" /\ TensorDeviceView(t)

BoundName(session, inputs, n) ==
  IF n <= Len(session.names) THEN session.names[n] ELSE inputs[n].name

(* The names the run binds.                                                 *)
Bound(session, inputs) ==
  {BoundName(session, inputs, n) : n \in {m \in DOMAIN inputs : Supported(session, inputs[m])}}

(* Ort::Session::Run throws unless exactly the model's inputs are bound.    *)
ModelTakes(session, inputs) ==
  Bound(session, inputs) = {session.names[n] : n \in DOMAIN session.names}

KeptOutputs(produced) ==
  LET kept == {n \in DOMAIN produced :
                 produced[n].type = "tensor" /\ produced[n].dtype = "float32"}
  IN  [k \in 1 .. Cardinality(kept) |->
         produced[CHOOSE n \in kept : Cardinality({m \in kept : m < n}) = k - 1]]

(* run; computes tells whether the model comes to an end.                   *)
OrtRun(session, inputs, computes, produced) ==
  IF ~session.ready \/ inputs = <<>> \/ Bound(session, inputs) = {} THEN <<>>
  ELSE IF ~ModelTakes(session, inputs) \/ ~computes THEN <<>>
  ELSE KeptOutputs(produced)
=============================================================================
