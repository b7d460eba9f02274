----------------------------- MODULE MCRegistry -----------------------------
(* Small instances of Registry: x, which may be sent twice; y of another     *)
(* name whose path is that of x all the same, as of a__b, c and a, b__c; z,  *)
(* sent as x is but rejected by read_metadata; w, on which that fails.       *)
EXTENDS Registry, TLC

CONSTANTS op, x, y, z, w

MCTaskOf == [s \in Ids |-> "classification"]
MCNameOf == [s \in Ids |-> IF s = z THEN x ELSE s]
MCFileOf == [s \in Ids |-> IF s \in {y, z} THEN x ELSE s]
\* The bound on resending.
MCMaxSends == [s \in Ids |-> IF s = x THEN 2 ELSE 1]
MCContentOf == [s \in Ids |-> s]
=============================================================================
