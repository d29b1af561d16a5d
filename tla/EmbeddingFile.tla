---------------------------- MODULE EmbeddingFile ----------------------------
(***************************************************************************)
(* The file that carries an embedding from an encoder run of               *)
(* examples/promptable_segmentation.cpp to a decoder run:                  *)
(* save_tensor_file and load_tensor_file of src/infer/utils/tensor_io.cpp. *)
(* The file is its header, of which the number of values counts here, and  *)
(* the values; every value is named by the embedding it belongs to.  What  *)
(* the stream has taken reaches the file piece by piece, the last of it    *)
(* when the stream is closed, after output.good() was asked.  A run can    *)
(* die at any time, and the disk can be full.  Runs do not overlap: the    *)
(* flow of the example is one after the other.                             *)
(***************************************************************************)
EXTENDS Integers, Sequences

CONSTANTS Embeddings,    (* what encoder runs may compute                    *)
          Values         (* the number of values of each                     *)

ASSUME EmbeddingsAssumption == Values \in [Embeddings -> Nat]

VARIABLES file,      (* [header, data]: -1 is a file without a header        *)
          saver,     (* the encoder run: [pc, embedding, spilled]            *)
          said,      (* what the last save_tensor_file returned              *)
          opened,    (* the embedding the file was last opened for           *)
          loaded     (* by the last load: [values, opened], values <<>> if   *)
                     (* it failed, opened as it was then                     *)

fileVars == <<file, saver, said, opened, loaded>>

Idle == [pc |-> "none", embedding |-> "none", spilled |-> -1]

FileInit ==
  /\ file = [header |-> -1, data |-> <<>>]
  /\ saver = Idle /\ said = FALSE /\ opened = "none"
  /\ loaded = [values |-> <<>>, opened |-> "none"]

-----------------------------------------------------------------------------
(* An empty tensor is not saved.                                            *)
RefuseEmpty(e) ==
  /\ saver.pc = "none" /\ Values[e] = 0
  /\ said' = FALSE
  /\ UNCHANGED <<file, saver, loaded, opened>>

OpenKeeping(e) ==   (* slip: the old contents stay *)
  /\ saver.pc = "none" /\ Values[e] > 0
  /\ UNCHANGED file
  /\ saver' = [pc |-> "writing", embedding |-> e, spilled |-> -1]
  /\ opened' = e
  /\ UNCHANGED <<said, loaded>>

(* std::ofstream(path, std::ios::binary) cuts the file down to nothing.     *)
Open(e) ==
  /\ saver.pc = "none" /\ Values[e] > 0
  /\ file' = [header |-> -1, data |-> <<>>]
  /\ saver' = [pc |-> "writing", embedding |-> e, spilled |-> -1]
  /\ opened' = e
  /\ UNCHANGED <<said, loaded>>

(* The header, or the next value, gets from the stream to its place.        *)
At(data, place, value) ==
  [n \in 1 .. (IF place > Len(data) THEN place ELSE Len(data)) |->
     IF n = place THEN value ELSE data[n]]

Spill ==
  LET e == saver.embedding
      n == saver.spilled + 1
  IN  /\ saver.pc \in {"writing", "closing"} /\ n <= Values[e]
      /\ file' = IF n = 0 THEN [file EXCEPT !.header = Values[e]]
                 ELSE [file EXCEPT !.data = At(file.data, n, e)]
      /\ saver' = [saver EXCEPT !.spilled = n]
      /\ UNCHANGED <<said, loaded, opened>>

(* save_tensor_file returns output.good(): the stream has taken everything. *)
Return ==
  /\ saver.pc = "writing"
  /\ said' = TRUE
  /\ saver' = [saver EXCEPT !.pc = "closing"]
  /\ UNCHANGED <<file, loaded, opened>>

(* A write fails: before the return it is reported, on closing it is lost.  *)
WriteFails ==
  /\ saver.pc \in {"writing", "closing"} /\ saver.spilled < Values[saver.embedding]
  /\ said' = (IF saver.pc = "closing" THEN said ELSE FALSE)
  /\ saver' = Idle
  /\ UNCHANGED <<file, loaded, opened>>

Close ==
  /\ saver.pc = "closing" /\ saver.spilled = Values[saver.embedding]
  /\ saver' = Idle
  /\ UNCHANGED <<file, said, loaded, opened>>

(* The encoder run dies.                                                    *)
Crash ==
  /\ saver.pc # "none"
  /\ saver' = Idle
  /\ UNCHANGED <<file, said, loaded, opened>>

(* What load_tensor_file makes of a file: as many values as the header      *)
(* says, or nothing if the file ends before.                                *)
LoadFrom(f) ==
  IF f.header < 0 \/ Len(f.data) < f.header THEN <<>>
  ELSE [n \in 1 .. f.header |-> f.data[n]]

(* A decoder run.                                                           *)
Load ==
  /\ saver.pc = "none"
  /\ loaded' = [values |-> LoadFrom(file), opened |-> opened]
  /\ UNCHANGED <<file, saver, said, opened>>

FileNext ==
  \/ \E e \in Embeddings : RefuseEmpty(e) \/ Open(e)
  \/ Spill \/ Return \/ WriteFails \/ Close \/ Crash \/ Load

FileSpec == FileInit /\ [][FileNext]_fileVars

-----------------------------------------------------------------------------
(* A decoder run gets all of the embedding the file was opened for last     *)
(* before, or nothing: never the rest of an older one, however the encoder  *)
(* runs ended (tensor_io.cpp:45-83, 85-184).                                *)
LoadedIsSaved ==
  loaded.values # <<>> =>
    loaded.values = [n \in 1 .. Values[loaded.opened] |-> loaded.opened]
=============================================================================
