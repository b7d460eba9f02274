----------------------------- MODULE ModelSlot -----------------------------
(***************************************************************************)
(* What gateway/app/runner.py promises of the model slot, without locks,   *)
(* threads' program counters or manifests: at most one model is resident,  *)
(* another one takes its place only after it was evicted, and a prediction *)
(* is served by the model resident at that moment.                         *)
(***************************************************************************)
CONSTANTS Threads, Models, None

VARIABLES
  resident,  \* the model in the slot, or None
  served     \* the model that served each thread's last prediction, or None

Init == resident = None /\ served = [t \in Threads |-> None]

Fill(m) == resident = None /\ resident' = m /\ UNCHANGED served

Evict == resident' = None /\ UNCHANGED served

Ask(t) == served' = [served EXCEPT ![t] = None] /\ UNCHANGED resident

Serve(t) ==
  /\ resident # None
  /\ served' = [served EXCEPT ![t] = resident]
  /\ UNCHANGED resident

Next ==
  \/ \E m \in Models : Fill(m)
  \/ Evict
  \/ \E t \in Threads : Ask(t) \/ Serve(t)

Spec == Init /\ [][Next]_<<resident, served>>
=============================================================================
