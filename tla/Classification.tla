--------------------------- MODULE Classification ---------------------------
(***************************************************************************)
(* From the counter to the label, for one monitor thread and one of its    *)
(* events: the batches of Sampling become lines in a pipe (collect.c), a   *)
(* read takes whole messages or cuts them where its buffer ends, a text    *)
(* that begins with a header is filed and scanned (Inference), and the     *)
(* network loaded before (Network) is run on what the scan found.          *)
(***************************************************************************)
EXTENDS Sampling, Inference, SequencesExt

CONSTANTS
  Models,         (* the networks that train.py may have saved             *)
  ReadLimits      (* lines that may fit into the 1023 bytes of a read()    *)

(* The lines a monitor thread writes.                                      *)
Sampled == {Header, Event} \cup {Row(v) : v \in 0 .. MODULUS - 1}

ASSUME ClassificationAssumption ==
  /\ Models \subseteq Trained
  /\ ReadLimits \subseteq Nat \ {0}
  /\ \A limit \in ReadLimits : \A n \in 1 .. limit : [1 .. n -> Sampled] \subseteq Texts

VARIABLES
  pipe,           (* lines written and not yet read                        *)
  model,          (* the network the weights file was saved from           *)
  file,           (* model_weights.bin                                     *)
  receiver,       (* "loading", "running" or "ended"                       *)
  net,            (* fc1_weight ... fc3_bias                               *)
  prediction      (* of the last classification, 2 before the first        *)

networkVars == <<model, file, receiver, net>>
classificationVars ==
  <<samplingVars, inferenceVars, pipe, networkVars, prediction>>

(* A weights file is what was saved, or as far as it got, or is missing.   *)
Init ==
  /\ SamplingInit
  /\ InferenceInit
  /\ pipe = <<>>
  /\ model \in Models
  /\ file \in {Saved(model), Front(Saved(model)), <<>>}
  /\ receiver = "loading"
  /\ net = Unloaded
  /\ prediction = 2

(* The text of a batch: one row line per event, all values on it.          *)
Formatted(batch) == <<Header, Event, Row(batch[1])>>

(* A round of the monitor thread, the write of a full batch included.      *)
Monitor ==
  /\ SamplingNext
  /\ pipe' = IF Due(values') THEN pipe \o Formatted(Batch(values')) ELSE pipe
  /\ UNCHANGED <<inferenceVars, networkVars, prediction>>

LoadWeights ==
  /\ receiver = "loading"
  /\ net' = load_weights(file)
  /\ receiver' = IF net' = Unloaded THEN "ended" ELSE "running"
  /\ UNCHANGED <<samplingVars, inferenceVars, pipe, model, file, prediction>>

(* A read takes what is there and fits; the cut is at the end of a line    *)
(* here.  A text that does not begin with a header is dropped.             *)
ReadPipe(limit) ==
  /\ receiver = "running" /\ ~ scanning /\ pipe # <<>>
  /\ LET text == SubSeq(pipe, 1, Least(limit, Len(pipe)))
     IN  /\ IF Accepts(text) THEN Receive(text) ELSE UNCHANGED inferenceVars
         /\ pipe' = SubSeq(pipe, Len(text) + 1, Len(pipe))
  /\ UNCHANGED <<samplingVars, networkVars, prediction>>

ScanStep ==
  /\ Scan
  /\ UNCHANGED <<samplingVars, pipe, networkVars, prediction>>

ClassifyStep ==
  /\ Classify
  /\ prediction' = Prediction(forward(net, input'))
  /\ UNCHANGED <<samplingVars, pipe, networkVars>>

ExpireStep ==
  /\ receiver = "running" /\ Expire
  /\ UNCHANGED <<samplingVars, pipe, networkVars, prediction>>

Next ==
  \/ Monitor \/ LoadWeights \/ ScanStep \/ ClassifyStep \/ ExpireStep
  \/ \E limit \in ReadLimits : ReadPipe(limit)

Spec == Init /\ [][Next]_classificationVars

-----------------------------------------------------------------------------
TypeOK ==
  /\ SamplingTypeOK
  /\ InferenceTypeOK
  /\ pipe \in Seq(Sampled)
  /\ receiver \in {"loading", "running", "ended"}
  /\ prediction \in {0, 1, 2}

(* What load_weights and forward make of the file that train.py wrote is   *)
(* the network that was trained, on every input with numbers in V, and so  *)
(* is the label unless both outputs are equal; a file cut short or missing *)
(* is refused.                                                             *)
RunsAsTrained(V) ==
  LoadWeights =>
    IF file = Saved(model)
    THEN \A x \in [1 .. INPUT_DIM -> V] :
           LET output == forward(net', x)
           IN  /\ output = DQN(model, x)
               /\ output[1] # output[2] => Prediction(output) = Argmax(output)
    ELSE receiver' = "ended"

(* That, for the numbers a row line can have.                              *)
NetworkIsTrained == [][RunsAsTrained(0 .. MODULUS - 1)]_classificationVars
=============================================================================
