---------------------------- MODULE MCInference ----------------------------
(* Small instances of Inference: a few requests over a TorchScript and an   *)
(* ONNX archive whose batches fit each other's weights.                     *)
EXTENDS Inference, TLC

CONSTANTS t1, t2, t3, ts, ox

MCModels == {ts, ox}
MCOnnxModels == {ox}
MCCompatible == MCModels \X MCModels

\* A job or a load of the console, a try, and another try (they share the event
\* loop), an unload or an activation beside them.
KindsAll ==
  (t1 :> {"infer", "load"}) @@ (t2 :> {"try"})
    @@ (t3 :> {"try", "unload", "activate"})
\* Bound: the third request names the TorchScript archive.
NamesAll == (t1 :> MCModels) @@ (t2 :> MCModels) @@ (t3 :> {ts})
\* Two jobs while an operator activates the other model.
KindsSwap == (t1 :> {"infer"}) @@ (t2 :> {"infer"}) @@ (t3 :> {"activate"})
NamesSwap == [t \in {t1, t2, t3} |-> MCModels]
=============================================================================
