---------------------------- MODULE ModelRunner ----------------------------
(***************************************************************************)
(* gateway/app/runner.py, class ModelRunner: the process-wide slot that    *)
(* holds the one model the gateway serves.  load, unload and the forward   *)
(* pass of predict run under self._lock; the rest of predict reads the     *)
(* fields of the slot without it.                                          *)
(*                                                                         *)
(* A model value stands for an archive and for everything derived from it: *)
(* its weights (self.model), its manifest (self.meta) and its row id       *)
(* (self.model_uuid).  None is Python's None and the empty manifest {}.    *)
(* A thread makes one call at a time; "returned" and "raised" are the two  *)
(* ways its last call ended.  Every assignment is a step of its own, since *)
(* all fields but one are also read without the lock: is_loaded and predict*)
(* read model, model_uuid and meta, the routes backend and provider.  Only *)
(* _onnx_inputs is not; it is set and cleared right after provider, and    *)
(* the variable provider stands for both.                                  *)
(***************************************************************************)
EXTENDS Naturals, FiniteSets

CONSTANTS
  Threads,     \* worker threads and the event loop: whoever calls the runner
  Models,      \* the registered archives
  OnnxModels,  \* those whose file name ends in .onnx
  Compatible,  \* <<p, m>>: a batch prepared, or an output decoded, with the
               \* manifest of p goes through the weights of m without raising
  None

ASSUME NoneAssumption == None \notin Models \cup Threads
ASSUME OnnxAssumption == OnnxModels \subseteq Models
ASSUME CompatibleAssumption == \A m \in Models : <<m, m>> \in Compatible

VARIABLES
  lock,         \* self._lock: the thread that holds it, or None
  model,        \* self.model
  meta,         \* self.meta
  model_uuid,   \* self.model_uuid
  backend,      \* self.backend
  provider,     \* self.provider and self._onnx_inputs: the archive whose
                \* session they come from, or None
  pc,           \* where each thread is inside the runner
  frame,        \* the locals of its call, gone when the call ends:
                \*   arg     the model a load names; None for an unload
                \*   built   `model` / `sess` of a load, not yet published
                \*   cap     `meta` of predict
                \*   seen    the manifests its preprocessing read in self.meta
                \*   fmeta, fbackend   what its forward pass started with
  out           \* what its last finished predict was computed from

slotVars == <<model, meta, model_uuid, backend, provider>>
runnerVars == <<lock, slotVars, pc, frame, out>>

ModelOrNone == Models \cup {None}

backend_of(m) == IF m \in OnnxModels THEN "onnx" ELSE "torchscript"
provider_of(m) == IF m \in OnnxModels THEN m ELSE None

Locked == {"evict_provider", "evict_meta", "evict_uuid", "build",
           "publish_backend", "publish_provider", "publish_meta", "publish_uuid",
           "forward"}
Unlocked == {"load", "unload", "check", "capture", "preprocess"}
AtRest == {"idle", "returned", "raised"}

NoOut == [weights |-> None, forward |-> None, backend |-> "none",
          inputs |-> None, manifest |-> None, seen |-> {}]
NoFrame == [arg |-> None, built |-> None, cap |-> None, seen |-> {},
            fmeta |-> None, fbackend |-> "none"]

Frame == [arg : ModelOrNone, built : ModelOrNone, cap : ModelOrNone,
          seen : SUBSET Models, fmeta : ModelOrNone,
          fbackend : {"onnx", "torchscript", "none"}]
Outcome == [weights : ModelOrNone, forward : ModelOrNone,
            backend : {"onnx", "torchscript", "none"},
            inputs : ModelOrNone, manifest : ModelOrNone, seen : SUBSET Models]

TypeOK ==
  /\ lock \in Threads \cup {None}
  /\ model \in ModelOrNone
  /\ meta \in ModelOrNone
  /\ model_uuid \in ModelOrNone
  /\ backend \in {"onnx", "torchscript"}
  /\ provider \in ModelOrNone
  /\ pc \in [Threads -> AtRest \cup Unlocked \cup Locked]
  /\ frame \in [Threads -> Frame]
  /\ out \in [Threads -> Outcome]

RunnerInit ==
  /\ lock = None
  /\ model = None
  /\ meta = None
  /\ model_uuid = None
  /\ backend = "torchscript"
  /\ provider = None
  /\ pc = [t \in Threads |-> "idle"]
  /\ frame = [t \in Threads |-> NoFrame]
  /\ out = [t \in Threads |-> NoOut]

Goto(t, label) == pc' = [pc EXCEPT ![t] = label]
Finish(t, how) == Goto(t, how) /\ frame' = [frame EXCEPT ![t] = NoFrame]

----------------------------------------------------------------------------
(* Calls.  The caller is at rest; what it names is its own business.       *)

CallLoad(t, m) ==
  /\ pc[t] \in AtRest
  /\ Goto(t, "load")
  /\ frame' = [frame EXCEPT ![t].arg = m]
  /\ UNCHANGED <<lock, slotVars, out>>

CallUnload(t) ==
  /\ pc[t] \in AtRest
  /\ Goto(t, "unload")
  /\ UNCHANGED <<lock, slotVars, frame, out>>

CallPredict(t) ==
  /\ pc[t] \in AtRest
  /\ Goto(t, "check")
  /\ out' = [out EXCEPT ![t] = NoOut]
  /\ UNCHANGED <<lock, slotVars, frame>>

----------------------------------------------------------------------------
(* load and unload.                                                        *)

LoadedAlready(m) == model_uuid = m /\ model # None

\* `with self._lock` and the early return of a load that finds its model.
LoadHit(t) ==
  /\ pc[t] = "load"
  /\ lock = None
  /\ LoadedAlready(frame[t].arg)
  /\ Finish(t, "returned")
  /\ UNCHANGED <<lock, slotVars, out>>

NeedsEviction(t) ==
  \/ pc[t] = "load" /\ ~LoadedAlready(frame[t].arg)
  \/ pc[t] = "unload"

\* Mutant: a load leaves the incumbent to be overwritten.
EvictUnloadsOnly(t) ==
  /\ NeedsEviction(t)
  /\ lock = None
  /\ lock' = t
  /\ IF pc[t] = "unload"
       THEN model' = None /\ Goto(t, "evict_provider")
       ELSE UNCHANGED model /\ Goto(t, "build")
  /\ UNCHANGED <<meta, model_uuid, backend, provider, frame, out>>

\* The lock is taken; _unload_locked drops the weights.
EvictModel(t) ==
  /\ NeedsEviction(t)
  /\ lock = None
  /\ lock' = t
  /\ model' = None
  /\ Goto(t, "evict_provider")
  /\ UNCHANGED <<meta, model_uuid, backend, provider, frame, out>>

\* ... the provider, the graph inputs ...
EvictProvider(t) ==
  /\ pc[t] = "evict_provider"
  /\ provider' = None
  /\ Goto(t, "evict_meta")
  /\ UNCHANGED <<lock, model, meta, model_uuid, backend, frame, out>>

\* ... the manifest ...
EvictMeta(t) ==
  /\ pc[t] = "evict_meta"
  /\ meta' = None
  /\ Goto(t, "evict_uuid")
  /\ UNCHANGED <<lock, model, model_uuid, backend, provider, frame, out>>

\* An unload is over after _unload_locked, a load goes on to build.
AfterEviction(t) ==
  IF frame[t].arg = None
    THEN lock' = None /\ Finish(t, "returned")
    ELSE Goto(t, "build") /\ UNCHANGED <<lock, frame>>

\* Mutant: _unload_locked forgets the id.
EvictKeepsUuid(t) ==
  /\ pc[t] = "evict_uuid"
  /\ AfterEviction(t)
  /\ UNCHANGED <<slotVars, out>>

\* Mutant: load sets the new id where it clears the old one.
EvictSetsNewUuid(t) ==
  /\ pc[t] = "evict_uuid"
  /\ model_uuid' = frame[t].arg
  /\ AfterEviction(t)
  /\ UNCHANGED <<model, meta, backend, provider, out>>

\* ... and the id.
EvictUuid(t) ==
  /\ pc[t] = "evict_uuid"
  /\ model_uuid' = None
  /\ AfterEviction(t)
  /\ UNCHANGED <<model, meta, backend, provider, out>>

\* torch.cuda.empty_cache raises: the slot is empty, and what called
\* _unload_locked is over.
EmptyCacheRaises(t) ==
  /\ pc[t] = "evict_uuid"
  /\ model_uuid' = None
  /\ lock' = None
  /\ Finish(t, "raised")
  /\ UNCHANGED <<model, meta, backend, provider, out>>

\* torch.jit.load / InferenceSession: the weights are in memory, in a local.
Build(t) ==
  /\ pc[t] = "build"
  /\ frame[t].built = None
  /\ frame' = [frame EXCEPT ![t].built = frame[t].arg]
  /\ UNCHANGED <<lock, slotVars, pc, out>>

\* Mutant: the lock is taken and released by hand, and not when a load raises.
BuildFailKeepsLock(t) ==
  /\ pc[t] = "build"
  /\ Finish(t, "raised")
  /\ UNCHANGED <<lock, slotVars, out>>

\* The archive does not load, or its manifest does not parse (which
\* _load_torchscript finds out with the weights in memory): the local dies
\* with the frame and the slot stays empty.
BuildFail(t) ==
  /\ pc[t] = "build"
  /\ lock' = None
  /\ Finish(t, "raised")
  /\ UNCHANGED <<slotVars, out>>

\* self.model = model; the local is not another copy any more.
PublishModel(t) ==
  /\ pc[t] = "build"
  /\ frame[t].built # None
  /\ model' = frame[t].built
  /\ frame' = [frame EXCEPT ![t].built = None]
  /\ Goto(t, "publish_backend")
  /\ UNCHANGED <<lock, meta, model_uuid, backend, provider, out>>

PublishBackend(t) ==
  /\ pc[t] = "publish_backend"
  /\ backend' = backend_of(frame[t].arg)
  /\ Goto(t, "publish_provider")
  /\ UNCHANGED <<lock, model, meta, model_uuid, provider, frame, out>>

\* The session's provider and inputs, or None for TorchScript.
PublishProvider(t) ==
  /\ pc[t] = "publish_provider"
  /\ provider' = provider_of(frame[t].arg)
  /\ Goto(t, "publish_meta")
  /\ UNCHANGED <<lock, model, meta, model_uuid, backend, frame, out>>

PublishMeta(t) ==
  /\ pc[t] = "publish_meta"
  /\ meta' = frame[t].arg
  /\ Goto(t, "publish_uuid")
  /\ UNCHANGED <<lock, model, model_uuid, backend, provider, frame, out>>

\* The id comes last, and the lock is released.
PublishUuid(t) ==
  /\ pc[t] = "publish_uuid"
  /\ model_uuid' = frame[t].arg
  /\ lock' = None
  /\ Finish(t, "returned")
  /\ UNCHANGED <<model, meta, backend, provider, out>>

----------------------------------------------------------------------------
(* predict.                                                                *)

\* if self.model is None: raise RuntimeError
PredictCheck(t) ==
  /\ pc[t] = "check"
  /\ Goto(t, IF model = None THEN "raised" ELSE "capture")
  /\ UNCHANGED <<lock, slotVars, frame, out>>

\* meta = self.meta; meta["max_views"] of an evicted manifest is a KeyError.
PredictCapture(t) ==
  /\ pc[t] = "capture"
  /\ IF meta = None
       THEN Finish(t, "raised")
       ELSE frame' = [frame EXCEPT ![t].cap = meta] /\ Goto(t, "preprocess")
  /\ UNCHANGED <<lock, slotVars, out>>

\* preprocess_view and _to_tensor read self.meta again, once and more per view
\* (another read of a manifest already seen changes nothing and is no step).
PreprocessRead(t) ==
  /\ pc[t] = "preprocess"
  /\ meta \notin frame[t].seen
  /\ IF meta = None
       THEN Finish(t, "raised")
       ELSE /\ frame' = [frame EXCEPT ![t].seen = frame[t].seen \cup {meta}]
            /\ UNCHANGED pc
  /\ UNCHANGED <<lock, slotVars, out>>

\* The number of views is refused, or a view does not decode.
PredictRaise(t) ==
  /\ pc[t] = "preprocess"
  /\ Finish(t, "raised")
  /\ UNCHANGED <<lock, slotVars, out>>

StartForward(t) ==
  /\ pc[t] = "preprocess"
  /\ frame[t].seen # {}
  /\ frame' = [frame EXCEPT ![t].fmeta = meta, ![t].fbackend = backend]
  /\ Goto(t, "forward")
  /\ UNCHANGED <<slotVars, out>>

\* Mutant: the forward pass does not take the lock.
ForwardBeginUnlocked(t) == StartForward(t) /\ UNCHANGED lock

\* `with self._lock`: _forward reads self.meta and self.backend first.
ForwardBegin(t) == lock = None /\ lock' = t /\ StartForward(t)

\* The batch, shaped by seen and cap, goes through the weights, and the output
\* is decoded with cap after the lock is released.
ForwardReturn(t) ==
  /\ pc[t] = "forward"
  /\ model # None
  /\ \A p \in frame[t].seen \cup {frame[t].cap} : <<p, model>> \in Compatible
  /\ out' = [out EXCEPT ![t] =
               [weights |-> model, forward |-> frame[t].fmeta,
                backend |-> frame[t].fbackend, inputs |-> provider,
                manifest |-> frame[t].cap, seen |-> frame[t].seen]]
  /\ lock' = None
  /\ Finish(t, "returned")
  /\ UNCHANGED slotVars

\* self.model is None by now, the batch does not fit, or the backend fails.
ForwardRaise(t) ==
  /\ pc[t] = "forward"
  /\ lock' = None
  /\ Finish(t, "raised")
  /\ UNCHANGED <<slotVars, out>>

----------------------------------------------------------------------------
LoadStep(t) ==
  \/ LoadHit(t)
  \/ EvictModel(t) \/ EvictProvider(t) \/ EvictMeta(t) \/ EvictUuid(t)
  \/ EmptyCacheRaises(t)
  \/ Build(t) \/ BuildFail(t)
  \/ PublishModel(t) \/ PublishBackend(t) \/ PublishProvider(t)
  \/ PublishMeta(t) \/ PublishUuid(t)
PredictStep(t) ==
  PredictCheck(t) \/ PredictCapture(t) \/ PreprocessRead(t) \/ PredictRaise(t)
    \/ ForwardBegin(t) \/ ForwardReturn(t) \/ ForwardRaise(t)

RunnerStep(t) == LoadStep(t) \/ PredictStep(t)

Call(t) == (\E m \in Models : CallLoad(t, m)) \/ CallUnload(t) \/ CallPredict(t)

RunnerNext == \E t \in Threads : Call(t) \/ RunnerStep(t)

RunnerSpec == RunnerInit /\ [][RunnerNext]_runnerVars

----------------------------------------------------------------------------
(* Properties.                                                             *)

\* Whoever takes the lock finds the five fields telling of one model, or of
\* none: no load, failed load or unload leaves them torn.
RunnerConsistent ==
  lock = None =>
    /\ meta = model
    /\ model_uuid = model
    /\ model # None => backend = backend_of(model)
    /\ provider = provider_of(model)

\* "One resident model at a time": the published weights and the copies that
\* loads are building never add up to two.
OneResident ==
  /\ \A t \in Threads : frame[t].built # None => model = None
  /\ \A t, u \in Threads :
       frame[t].built # None /\ frame[u].built # None => t = u

\* A prediction that returns came out of one model: the weights, the backend
\* that ran them, the graph inputs and the manifest _forward read belong
\* together, however loads and unloads overlapped the call.
ForwardCoherent ==
  \A t \in Threads : LET o == out[t] IN
    o.weights # None =>
      /\ o.forward = o.weights
      /\ o.backend = backend_of(o.weights)
      /\ o.weights \in OnnxModels => o.inputs = o.weights

\* The id a reader sees without the lock never runs ahead of the weights and
\* the manifest: once model_uuid names a model whose weights are in place, its
\* manifest is in place too (is_loaded followed by a read of runner.meta).
IdPublishedLast ==
  model_uuid # None /\ model # None => model = model_uuid /\ meta = model_uuid

\* The runner keeps the slot's promise: one model at a time, evicted before it
\* is replaced, and every prediction served by the model then resident.
Slot == INSTANCE ModelSlot WITH
  resident <- model, served <- [t \in Threads |-> out[t].weights]

ImplementsSlot == Slot!Spec
=============================================================================
