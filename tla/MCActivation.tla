---------------------------- MODULE MCActivation ----------------------------
(* Concurrent activations over two rows of one task and one of another.     *)
EXTENDS Activation, TLC

CONSTANTS c1, c2, c3, a, b, d

MCIds == {a, b, d}
MCTasks == {"classification", "detection"}
MCTaskOf == [r \in MCIds |-> IF r = d THEN "detection" ELSE "classification"]
=============================================================================
