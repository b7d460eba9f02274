------------------------- MODULE ModelRunner_proofs -------------------------
(***************************************************************************)
(* Proofs about the model slot, for any threads, archives and formats.  The*)
(* inductive invariant IInv says, for every place the lock holder can be   *)
(* at, which of the slot's fields are already set or cleared; everyone     *)
(* else finds the slot whole.                                              *)
(***************************************************************************)
EXTENDS ModelRunner, TLAPS

\* The slot tells of one model or of none.
Whole ==
  /\ meta = model
  /\ model_uuid = model
  /\ model # None => backend = backend_of(model)
  /\ provider = provider_of(model)

\* The weights, their backend and inputs are those of m.
Installed(m) ==
  /\ m \in Models
  /\ model = m
  /\ backend = backend_of(m)
  /\ provider = provider_of(m)

\* How much of the slot is set when the lock holder is at label l, loading m.
SlotAt(l, m) ==
  /\ l = "evict_provider" => model = None
  /\ l = "evict_meta" => model = None /\ provider = None
  /\ l = "evict_uuid" => model = None /\ provider = None /\ meta = None
  /\ l = "build" => /\ model = None /\ provider = None /\ meta = None
                    /\ model_uuid = None /\ m \in Models
  /\ l = "publish_backend" => /\ m \in Models /\ model = m /\ provider = None
                              /\ meta = None /\ model_uuid = None
  /\ l = "publish_provider" => /\ m \in Models /\ model = m
                               /\ backend = backend_of(m)
                               /\ meta = None /\ model_uuid = None
  /\ l = "publish_meta" => Installed(m) /\ meta = None /\ model_uuid = None
  /\ l = "publish_uuid" => Installed(m) /\ meta = m /\ model_uuid = None
  /\ l = "forward" => Whole

\* Exactly the thread inside a locked region holds the lock.
Mutex == \A t \in Threads : pc[t] \in Locked <=> lock = t

\* What the locals of a call hold at each label.
FrameAt(t) ==
  /\ pc[t] # "build" => frame[t].built = None
  /\ frame[t].built # None => frame[t].built = frame[t].arg
  /\ pc[t] = "load" => frame[t].arg \in Models
  /\ pc[t] = "forward" => /\ frame[t].fmeta = meta
                          /\ frame[t].fbackend = backend

IInv ==
  /\ TypeOK
  /\ Mutex
  /\ RunnerConsistent
  /\ \A t \in Threads : SlotAt(pc[t], frame[t].arg)
  /\ \A t \in Threads : FrameAt(t)
  /\ ForwardCoherent

\* The invariant holds initially: the slot is empty and nobody is inside.
LEMMA InitIInv == RunnerInit => IInv
  BY NoneAssumption, OnnxAssumption
  DEF RunnerInit, IInv, TypeOK, Mutex, RunnerConsistent, SlotAt, FrameAt,
      ForwardCoherent, NoFrame, NoOut, Frame, Outcome, ModelOrNone, AtRest,
      Unlocked, Locked, provider_of

\* Writing a field of one thread's frame leaves every frame a Frame.
LEMMA FrameEdits ==
  ASSUME NEW f \in [Threads -> Frame], NEW t \in Threads
  PROVE  /\ \A m \in ModelOrNone :
              /\ [f EXCEPT ![t].arg = m] \in [Threads -> Frame]
              /\ [f EXCEPT ![t].built = m] \in [Threads -> Frame]
              /\ [f EXCEPT ![t].cap = m] \in [Threads -> Frame]
         /\ \A S \in SUBSET Models :
              [f EXCEPT ![t].seen = S] \in [Threads -> Frame]
         /\ \A m \in ModelOrNone : \A b \in {"onnx", "torchscript", "none"} :
              [f EXCEPT ![t].fmeta = m, ![t].fbackend = b] \in [Threads -> Frame]
  BY DEF Frame

\* The fields of a frame have their types.
LEMMA FrameFields ==
  ASSUME NEW f \in [Threads -> Frame], NEW t \in Threads
  PROVE  /\ f[t].arg \in ModelOrNone
         /\ f[t].built \in ModelOrNone
         /\ f[t].cap \in ModelOrNone
         /\ f[t].seen \in SUBSET Models
         /\ f[t].fmeta \in ModelOrNone
         /\ f[t].fbackend \in {"onnx", "torchscript", "none"}
  BY DEF Frame

LEMMA NoFrameType == NoFrame \in Frame
  BY DEF NoFrame, Frame, ModelOrNone

LEMMA NoOutType == NoOut \in Outcome
  BY DEF NoOut, Outcome, ModelOrNone

\* The shape of every state variable: no step writes a value of another type.
LEMMA NextTypeOK == IInv /\ [RunnerNext]_runnerVars => TypeOK'
<1> SUFFICES ASSUME IInv, [RunnerNext]_runnerVars PROVE TypeOK'
  OBVIOUS
<1> USE NoFrameType, NoOutType DEF TypeOK, AtRest, Unlocked, Locked, Goto, Finish,
          slotVars
<1>1. CASE UNCHANGED runnerVars
  BY <1>1 DEF IInv, runnerVars
<1>2. ASSUME NEW t \in Threads, Call(t) PROVE TypeOK'
  <2>1. ASSUME NEW m \in Models, CallLoad(t, m) PROVE TypeOK'
    BY <2>1, FrameEdits DEF IInv, ModelOrNone, CallLoad
  <2>2. CASE CallUnload(t)
    BY <2>2 DEF IInv, CallUnload
  <2>3. CASE CallPredict(t)
    BY <2>3 DEF IInv, CallPredict
  <2> QED
    BY <1>2, <2>1, <2>2, <2>3 DEF Call
<1>3. ASSUME NEW t \in Threads, LoadStep(t) PROVE TypeOK'
  <2>1. CASE LoadHit(t)
    BY <2>1 DEF IInv, LoadHit
  <2>2. CASE EvictModel(t)
    BY <2>2 DEF IInv, ModelOrNone, EvictModel
  <2>3. CASE EvictProvider(t) \/ EvictMeta(t)
    BY <2>3 DEF IInv, ModelOrNone, EvictProvider, EvictMeta
  <2>4. CASE EvictUuid(t) \/ EmptyCacheRaises(t)
    BY <2>4 DEF IInv, ModelOrNone, EvictUuid, EmptyCacheRaises, AfterEviction
  <2>5. CASE Build(t)
    BY <2>5, FrameEdits, FrameFields DEF IInv, Build
  <2>6. CASE BuildFail(t)
    BY <2>6 DEF IInv, BuildFail
  <2>7. CASE PublishModel(t)
    BY <2>7, FrameEdits, FrameFields DEF IInv, ModelOrNone, PublishModel
  <2>8. CASE PublishBackend(t) \/ PublishProvider(t) \/ PublishMeta(t)
    BY <2>8, FrameFields
    DEF IInv, ModelOrNone, PublishBackend, PublishProvider, PublishMeta, backend_of,
        provider_of
  <2>9. CASE PublishUuid(t)
    BY <2>9, FrameFields DEF IInv, PublishUuid
  <2> QED
    BY <1>3, <2>1, <2>2, <2>3, <2>4, <2>5, <2>6, <2>7, <2>8, <2>9 DEF LoadStep
<1>4. ASSUME NEW t \in Threads, PredictStep(t) PROVE TypeOK'
  <2>1. CASE PredictCheck(t)
    BY <2>1 DEF IInv, PredictCheck
  <2>2. CASE PredictCapture(t)
    <3>1. CASE meta = None
      BY <2>2, <3>1 DEF IInv, PredictCapture
    <3>2. CASE meta # None
      <4>1. [frame EXCEPT ![t].cap = meta] \in [Threads -> Frame]
        BY FrameEdits DEF IInv
      <4> QED
        BY <2>2, <3>2, <4>1 DEF IInv, PredictCapture
    <3> QED
      BY <3>1, <3>2
  <2>3. CASE PreprocessRead(t)
    <3>1. CASE meta = None
      BY <2>3, <3>1 DEF IInv, PreprocessRead
    <3>2. CASE meta # None
      <4>1. frame[t].seen \cup {meta} \in SUBSET Models
        BY <3>2, FrameFields DEF IInv, ModelOrNone
      <4>2. frame' = [frame EXCEPT ![t].seen = frame[t].seen \cup {meta}]
        BY <2>3, <3>2 DEF PreprocessRead
      <4>3. frame' \in [Threads -> Frame]
        BY <4>1, <4>2, FrameEdits DEF IInv
      <4> QED
        BY <2>3, <3>2, <4>3 DEF IInv, PreprocessRead
    <3> QED
      BY <3>1, <3>2
  <2>4. CASE PredictRaise(t)
    BY <2>4 DEF IInv, PredictRaise
  <2>5. CASE ForwardBegin(t)
    <3>1. frame' = [frame EXCEPT ![t].fmeta = meta, ![t].fbackend = backend]
      BY <2>5 DEF ForwardBegin, StartForward
    <3>2. frame' \in [Threads -> Frame]
      BY <3>1, FrameEdits DEF IInv
    <3> QED
      BY <2>5, <3>2 DEF IInv, ForwardBegin, StartForward
  <2>6. CASE ForwardReturn(t)
    <3>1. [weights |-> model, forward |-> frame[t].fmeta,
           backend |-> frame[t].fbackend, inputs |-> provider,
           manifest |-> frame[t].cap, seen |-> frame[t].seen] \in Outcome
      BY FrameFields DEF IInv, Outcome
    <3> QED
      BY <2>6, <3>1 DEF IInv, ForwardReturn
  <2>7. CASE ForwardRaise(t)
    BY <2>7 DEF IInv, ForwardRaise
  <2> QED
    BY <1>4, <2>1, <2>2, <2>3, <2>4, <2>5, <2>6, <2>7 DEF PredictStep
<1> QED
  BY <1>1, <1>2, <1>3, <1>4 DEF RunnerNext, RunnerStep
\* No step breaks the invariant.  A step of t concerns the slot only if t holds
\* or takes the lock, and then no other thread is inside a locked region.
LEMMA NextIInv == IInv /\ [RunnerNext]_runnerVars => IInv'
<1> SUFFICES ASSUME IInv, [RunnerNext]_runnerVars PROVE IInv'
  OBVIOUS
<1> USE DEF IInv
<1>t. TypeOK /\ TypeOK'
  BY NextTypeOK
<1>1. CASE UNCHANGED runnerVars
  BY <1>1, <1>t DEF runnerVars, slotVars, Mutex, RunnerConsistent, SlotAt, FrameAt,
    Whole, Installed, ForwardCoherent
<1> USE NoneAssumption DEF Goto, Finish, slotVars, provider_of
<1>2. ASSUME NEW t \in Threads, Call(t) PROVE IInv'
  <2>1. ASSUME NEW m \in Models, CallLoad(t, m) PROVE IInv'
    <3>1. Mutex'
      BY <2>1, <1>t DEF TypeOK, Mutex, AtRest, Unlocked, Locked, CallLoad
    <3>2. RunnerConsistent'
      BY <2>1, <1>t DEF TypeOK, Mutex, RunnerConsistent, SlotAt, Whole, Locked, CallLoad
    <3>3. ASSUME NEW u \in Threads PROVE SlotAt(pc[u], frame[u].arg)'
      <4>1. CASE u = t
        BY <2>1, <1>t, <4>1 DEF TypeOK, SlotAt, FrameAt, CallLoad
      <4>2. CASE u # t
        <5>1. pc'[u] = pc[u] /\ frame'[u] = frame[u]
          BY <2>1, <1>t, <4>2 DEF TypeOK, CallLoad
        <5> QED
          BY <2>1, <1>t, <4>2, <5>1 DEF TypeOK, Mutex, SlotAt, Whole, Installed, Locked, CallLoad
      <4> QED
        BY <4>1, <4>2
    <3>4. ASSUME NEW u \in Threads PROVE FrameAt(u)'
      BY <2>1, <1>t DEF TypeOK, Mutex, FrameAt, AtRest, Locked, NoFrame, Frame, CallLoad
    <3>5. ForwardCoherent'
      BY <2>1, <1>t DEF TypeOK, ForwardCoherent, NoOut, CallLoad
    <3> QED
      BY <1>t, <3>1, <3>2, <3>3, <3>4, <3>5
  <2>2. CASE CallUnload(t)
    <3>1. Mutex'
      BY <2>2, <1>t DEF TypeOK, Mutex, AtRest, Unlocked, Locked, CallUnload
    <3>2. RunnerConsistent'
      BY <2>2, <1>t DEF TypeOK, Mutex, RunnerConsistent, SlotAt, Whole, Locked, CallUnload
    <3>3. ASSUME NEW u \in Threads PROVE SlotAt(pc[u], frame[u].arg)'
      <4>1. CASE u = t
        BY <2>2, <1>t, <4>1 DEF TypeOK, SlotAt, FrameAt, CallUnload
      <4>2. CASE u # t
        <5>1. pc'[u] = pc[u] /\ frame'[u] = frame[u]
          BY <2>2, <1>t, <4>2 DEF TypeOK, CallUnload
        <5> QED
          BY <2>2, <1>t, <4>2, <5>1 DEF TypeOK, Mutex, SlotAt, Whole, Installed, Locked, CallUnload
      <4> QED
        BY <4>1, <4>2
    <3>4. ASSUME NEW u \in Threads PROVE FrameAt(u)'
      BY <2>2, <1>t DEF TypeOK, Mutex, FrameAt, AtRest, Locked, NoFrame, Frame, CallUnload
    <3>5. ForwardCoherent'
      BY <2>2, <1>t DEF TypeOK, ForwardCoherent, NoOut, CallUnload
    <3> QED
      BY <1>t, <3>1, <3>2, <3>3, <3>4, <3>5
  <2>3. CASE CallPredict(t)
    <3>1. Mutex'
      BY <2>3, <1>t DEF TypeOK, Mutex, AtRest, Unlocked, Locked, CallPredict
    <3>2. RunnerConsistent'
      BY <2>3, <1>t DEF TypeOK, Mutex, RunnerConsistent, SlotAt, Whole, Locked, CallPredict
    <3>3. ASSUME NEW u \in Threads PROVE SlotAt(pc[u], frame[u].arg)'
      <4>1. CASE u = t
        BY <2>3, <1>t, <4>1 DEF TypeOK, SlotAt, FrameAt, CallPredict
      <4>2. CASE u # t
        <5>1. pc'[u] = pc[u] /\ frame'[u] = frame[u]
          BY <2>3, <1>t, <4>2 DEF TypeOK, CallPredict
        <5> QED
          BY <2>3, <1>t, <4>2, <5>1 DEF TypeOK, Mutex, SlotAt, Whole, Installed, Locked, CallPredict
      <4> QED
        BY <4>1, <4>2
    <3>4. ASSUME NEW u \in Threads PROVE FrameAt(u)'
      BY <2>3, <1>t DEF TypeOK, Mutex, FrameAt, AtRest, Locked, NoFrame, Frame, CallPredict
    <3>5. ForwardCoherent'
      BY <2>3, <1>t DEF TypeOK, ForwardCoherent, NoOut, CallPredict
    <3> QED
      BY <1>t, <3>1, <3>2, <3>3, <3>4, <3>5
  <2> QED
    BY <1>2, <2>1, <2>2, <2>3 DEF Call
<1>3. ASSUME NEW t \in Threads, LoadStep(t) PROVE IInv'
  <2>1. CASE LoadHit(t)
    <3>1. Mutex'
      BY <2>1, <1>t DEF TypeOK, Mutex, AtRest, Unlocked, Locked, LoadHit
    <3>2. RunnerConsistent'
      BY <2>1, <1>t DEF TypeOK, Mutex, RunnerConsistent, SlotAt, Whole, Locked, LoadHit
    <3>3. ASSUME NEW u \in Threads PROVE SlotAt(pc[u], frame[u].arg)'
      BY <2>1, <1>t DEF TypeOK, Mutex, RunnerConsistent, SlotAt, FrameAt, Whole, Locked, NoFrame, LoadHit
    <3>4. ASSUME NEW u \in Threads PROVE FrameAt(u)'
      BY <2>1, <1>t DEF TypeOK, Mutex, FrameAt, AtRest, Locked, NoFrame, Frame, LoadHit
    <3>5. ForwardCoherent'
      BY <2>1, <1>t DEF TypeOK, ForwardCoherent, NoOut, LoadHit
    <3> QED
      BY <1>t, <3>1, <3>2, <3>3, <3>4, <3>5
  <2>2. CASE EvictModel(t)
    <3>1. Mutex'
      BY <2>2, <1>t DEF TypeOK, Mutex, AtRest, Unlocked, Locked, EvictModel, NeedsEviction
    <3>2. RunnerConsistent'
      BY <2>2, <1>t DEF TypeOK, Mutex, RunnerConsistent, SlotAt, Whole, Locked, EvictModel, NeedsEviction
    <3>3. ASSUME NEW u \in Threads PROVE SlotAt(pc[u], frame[u].arg)'
      BY <2>2, <1>t DEF TypeOK, Mutex, RunnerConsistent, SlotAt, FrameAt, Whole, Locked, NoFrame, EvictModel, NeedsEviction
    <3>4. ASSUME NEW u \in Threads PROVE FrameAt(u)'
      BY <2>2, <1>t DEF TypeOK, Mutex, FrameAt, AtRest, Locked, NoFrame, Frame, EvictModel, NeedsEviction
    <3>5. ForwardCoherent'
      BY <2>2, <1>t DEF TypeOK, ForwardCoherent, NoOut, EvictModel, NeedsEviction
    <3> QED
      BY <1>t, <3>1, <3>2, <3>3, <3>4, <3>5
  <2>3. CASE EvictMeta(t)
    <3>1. Mutex'
      BY <2>3, <1>t DEF TypeOK, Mutex, AtRest, Unlocked, Locked, EvictMeta
    <3>2. RunnerConsistent'
      BY <2>3, <1>t DEF TypeOK, Mutex, RunnerConsistent, SlotAt, Whole, Locked, EvictMeta
    <3>3. ASSUME NEW u \in Threads PROVE SlotAt(pc[u], frame[u].arg)'
      BY <2>3, <1>t DEF TypeOK, Mutex, RunnerConsistent, SlotAt, FrameAt, Whole, Locked, NoFrame, EvictMeta
    <3>4. ASSUME NEW u \in Threads PROVE FrameAt(u)'
      BY <2>3, <1>t DEF TypeOK, Mutex, FrameAt, AtRest, Locked, NoFrame, Frame, EvictMeta
    <3>5. ForwardCoherent'
      BY <2>3, <1>t DEF TypeOK, ForwardCoherent, NoOut, EvictMeta
    <3> QED
      BY <1>t, <3>1, <3>2, <3>3, <3>4, <3>5
  <2>4. CASE EvictUuid(t)
    <3>1. Mutex'
      BY <2>4, <1>t DEF TypeOK, Mutex, AtRest, Unlocked, Locked, EvictUuid, AfterEviction
    <3>2. RunnerConsistent'
      BY <2>4, <1>t DEF TypeOK, Mutex, RunnerConsistent, SlotAt, Whole, Locked, EvictUuid, AfterEviction
    <3>3. ASSUME NEW u \in Threads PROVE SlotAt(pc[u], frame[u].arg)'
      <4>1. CASE u = t
        BY <2>4, <1>t, <4>1, FrameFields
          DEF TypeOK, SlotAt, FrameAt, ModelOrNone, EvictUuid, AfterEviction
      <4>2. CASE u # t
        <5>1. pc'[u] = pc[u] /\ frame'[u] = frame[u]
          BY <2>4, <1>t, <4>2 DEF TypeOK, EvictUuid, AfterEviction
        <5> QED
          BY <2>4, <1>t, <4>2, <5>1 DEF TypeOK, Mutex, SlotAt, Whole, Installed, Locked, EvictUuid, AfterEviction
      <4> QED
        BY <4>1, <4>2
    <3>4. ASSUME NEW u \in Threads PROVE FrameAt(u)'
      BY <2>4, <1>t DEF TypeOK, Mutex, FrameAt, AtRest, Locked, NoFrame, Frame, EvictUuid, AfterEviction
    <3>5. ForwardCoherent'
      BY <2>4, <1>t DEF TypeOK, ForwardCoherent, NoOut, EvictUuid, AfterEviction
    <3> QED
      BY <1>t, <3>1, <3>2, <3>3, <3>4, <3>5
  <2>5. CASE Build(t)
    <3>1. Mutex'
      BY <2>5, <1>t DEF TypeOK, Mutex, AtRest, Unlocked, Locked, Build
    <3>2. RunnerConsistent'
      BY <2>5, <1>t DEF TypeOK, Mutex, RunnerConsistent, SlotAt, Whole, Locked, Build
    <3>3. ASSUME NEW u \in Threads PROVE SlotAt(pc[u], frame[u].arg)'
      BY <2>5, <1>t DEF TypeOK, Mutex, RunnerConsistent, SlotAt, FrameAt, Whole, Locked, NoFrame, Build
    <3>4. ASSUME NEW u \in Threads PROVE FrameAt(u)'
      BY <2>5, <1>t DEF TypeOK, Mutex, FrameAt, AtRest, Locked, NoFrame, Frame, Build
    <3>5. ForwardCoherent'
      BY <2>5, <1>t DEF TypeOK, ForwardCoherent, NoOut, Build
    <3> QED
      BY <1>t, <3>1, <3>2, <3>3, <3>4, <3>5
  <2>6. CASE BuildFail(t)
    <3>1. Mutex'
      BY <2>6, <1>t DEF TypeOK, Mutex, AtRest, Unlocked, Locked, BuildFail
    <3>2. RunnerConsistent'
      BY <2>6, <1>t DEF TypeOK, Mutex, RunnerConsistent, SlotAt, Whole, Locked, BuildFail
    <3>3. ASSUME NEW u \in Threads PROVE SlotAt(pc[u], frame[u].arg)'
      BY <2>6, <1>t DEF TypeOK, Mutex, RunnerConsistent, SlotAt, FrameAt, Whole, Locked, NoFrame, BuildFail
    <3>4. ASSUME NEW u \in Threads PROVE FrameAt(u)'
      BY <2>6, <1>t DEF TypeOK, Mutex, FrameAt, AtRest, Locked, NoFrame, Frame, BuildFail
    <3>5. ForwardCoherent'
      BY <2>6, <1>t DEF TypeOK, ForwardCoherent, NoOut, BuildFail
    <3> QED
      BY <1>t, <3>1, <3>2, <3>3, <3>4, <3>5
  <2>7. CASE PublishModel(t)
    <3>1. Mutex'
      BY <2>7, <1>t DEF TypeOK, Mutex, AtRest, Unlocked, Locked, PublishModel, Installed
    <3>2. RunnerConsistent'
      BY <2>7, <1>t DEF TypeOK, Mutex, RunnerConsistent, SlotAt, Whole, Locked, PublishModel, Installed
    <3>3. ASSUME NEW u \in Threads PROVE SlotAt(pc[u], frame[u].arg)'
      BY <2>7, <1>t DEF TypeOK, Mutex, RunnerConsistent, SlotAt, FrameAt, Whole, Locked, NoFrame, PublishModel, Installed
    <3>4. ASSUME NEW u \in Threads PROVE FrameAt(u)'
      BY <2>7, <1>t DEF TypeOK, Mutex, FrameAt, AtRest, Locked, NoFrame, Frame, PublishModel, Installed
    <3>5. ForwardCoherent'
      BY <2>7, <1>t DEF TypeOK, ForwardCoherent, NoOut, PublishModel, Installed
    <3> QED
      BY <1>t, <3>1, <3>2, <3>3, <3>4, <3>5
  <2>8. CASE PublishMeta(t)
    <3>1. Mutex'
      BY <2>8, <1>t DEF TypeOK, Mutex, AtRest, Unlocked, Locked, PublishMeta, Installed
    <3>2. RunnerConsistent'
      BY <2>8, <1>t DEF TypeOK, Mutex, RunnerConsistent, SlotAt, Whole, Locked, PublishMeta, Installed
    <3>3. ASSUME NEW u \in Threads PROVE SlotAt(pc[u], frame[u].arg)'
      BY <2>8, <1>t DEF TypeOK, Mutex, RunnerConsistent, SlotAt, FrameAt, Whole, Locked, NoFrame, PublishMeta, Installed
    <3>4. ASSUME NEW u \in Threads PROVE FrameAt(u)'
      BY <2>8, <1>t DEF TypeOK, Mutex, FrameAt, AtRest, Locked, NoFrame, Frame, PublishMeta, Installed
    <3>5. ForwardCoherent'
      BY <2>8, <1>t DEF TypeOK, ForwardCoherent, NoOut, PublishMeta, Installed
    <3> QED
      BY <1>t, <3>1, <3>2, <3>3, <3>4, <3>5
  <2>9. CASE PublishUuid(t)
    <3>1. Mutex'
      BY <2>9, <1>t DEF TypeOK, Mutex, AtRest, Unlocked, Locked, PublishUuid, Installed
    <3>2. RunnerConsistent'
      BY <2>9, <1>t DEF TypeOK, Mutex, RunnerConsistent, SlotAt, Whole, Locked, PublishUuid, Installed
    <3>3. ASSUME NEW u \in Threads PROVE SlotAt(pc[u], frame[u].arg)'
      BY <2>9, <1>t DEF TypeOK, Mutex, RunnerConsistent, SlotAt, FrameAt, Whole, Locked, NoFrame, PublishUuid, Installed
    <3>4. ASSUME NEW u \in Threads PROVE FrameAt(u)'
      BY <2>9, <1>t DEF TypeOK, Mutex, FrameAt, AtRest, Locked, NoFrame, Frame, PublishUuid, Installed
    <3>5. ForwardCoherent'
      BY <2>9, <1>t DEF TypeOK, ForwardCoherent, NoOut, PublishUuid, Installed
    <3> QED
      BY <1>t, <3>1, <3>2, <3>3, <3>4, <3>5
  <2>10. CASE EvictProvider(t)
    <3>1. Mutex'
      BY <2>10, <1>t DEF TypeOK, Mutex, AtRest, Unlocked, Locked, EvictProvider
    <3>2. RunnerConsistent'
      BY <2>10, <1>t DEF TypeOK, Mutex, RunnerConsistent, SlotAt, Whole, Locked, EvictProvider
    <3>3. ASSUME NEW u \in Threads PROVE SlotAt(pc[u], frame[u].arg)'
      BY <2>10, <1>t DEF TypeOK, Mutex, RunnerConsistent, SlotAt, FrameAt, Whole, Locked, NoFrame, EvictProvider
    <3>4. ASSUME NEW u \in Threads PROVE FrameAt(u)'
      BY <2>10, <1>t DEF TypeOK, Mutex, FrameAt, AtRest, Locked, NoFrame, Frame, EvictProvider
    <3>5. ForwardCoherent'
      BY <2>10, <1>t DEF TypeOK, ForwardCoherent, NoOut, EvictProvider
    <3> QED
      BY <1>t, <3>1, <3>2, <3>3, <3>4, <3>5
  <2>11. CASE EmptyCacheRaises(t)
    <3>1. Mutex'
      BY <2>11, <1>t DEF TypeOK, Mutex, AtRest, Unlocked, Locked, EmptyCacheRaises
    <3>2. RunnerConsistent'
      BY <2>11, <1>t DEF TypeOK, Mutex, RunnerConsistent, SlotAt, Whole, Locked, EmptyCacheRaises
    <3>3. ASSUME NEW u \in Threads PROVE SlotAt(pc[u], frame[u].arg)'
      BY <2>11, <1>t DEF TypeOK, Mutex, RunnerConsistent, SlotAt, FrameAt, Whole, Locked, NoFrame, EmptyCacheRaises
    <3>4. ASSUME NEW u \in Threads PROVE FrameAt(u)'
      BY <2>11, <1>t DEF TypeOK, Mutex, FrameAt, AtRest, Locked, NoFrame, Frame, EmptyCacheRaises
    <3>5. ForwardCoherent'
      BY <2>11, <1>t DEF TypeOK, ForwardCoherent, NoOut, EmptyCacheRaises
    <3> QED
      BY <1>t, <3>1, <3>2, <3>3, <3>4, <3>5
  <2>12. CASE PublishBackend(t)
    <3>1. Mutex'
      BY <2>12, <1>t DEF TypeOK, Mutex, AtRest, Unlocked, Locked, PublishBackend, Installed
    <3>2. RunnerConsistent'
      BY <2>12, <1>t DEF TypeOK, Mutex, RunnerConsistent, SlotAt, Whole, Locked, PublishBackend, Installed
    <3>3. ASSUME NEW u \in Threads PROVE SlotAt(pc[u], frame[u].arg)'
      BY <2>12, <1>t DEF TypeOK, Mutex, RunnerConsistent, SlotAt, FrameAt, Whole, Locked, NoFrame, PublishBackend, Installed
    <3>4. ASSUME NEW u \in Threads PROVE FrameAt(u)'
      BY <2>12, <1>t DEF TypeOK, Mutex, FrameAt, AtRest, Locked, NoFrame, Frame, PublishBackend, Installed
    <3>5. ForwardCoherent'
      BY <2>12, <1>t DEF TypeOK, ForwardCoherent, NoOut, PublishBackend, Installed
    <3> QED
      BY <1>t, <3>1, <3>2, <3>3, <3>4, <3>5
  <2>13. CASE PublishProvider(t)
    <3>1. Mutex'
      BY <2>13, <1>t DEF TypeOK, Mutex, AtRest, Unlocked, Locked, PublishProvider, Installed
    <3>2. RunnerConsistent'
      BY <2>13, <1>t DEF TypeOK, Mutex, RunnerConsistent, SlotAt, Whole, Locked, PublishProvider, Installed
    <3>3. ASSUME NEW u \in Threads PROVE SlotAt(pc[u], frame[u].arg)'
      BY <2>13, <1>t DEF TypeOK, Mutex, RunnerConsistent, SlotAt, FrameAt, Whole, Locked, NoFrame, PublishProvider, Installed
    <3>4. ASSUME NEW u \in Threads PROVE FrameAt(u)'
      BY <2>13, <1>t DEF TypeOK, Mutex, FrameAt, AtRest, Locked, NoFrame, Frame, PublishProvider, Installed
    <3>5. ForwardCoherent'
      BY <2>13, <1>t DEF TypeOK, ForwardCoherent, NoOut, PublishProvider, Installed
    <3> QED
      BY <1>t, <3>1, <3>2, <3>3, <3>4, <3>5
  <2> QED
    BY <1>3, <2>1, <2>2, <2>3, <2>4, <2>5, <2>6, <2>7, <2>8, <2>9, <2>10, <2>11, <2>12,
       <2>13 DEF LoadStep
<1>4. ASSUME NEW t \in Threads, PredictStep(t) PROVE IInv'
  <2>1. CASE PredictCheck(t)
    <3>1. Mutex'
      BY <2>1, <1>t DEF TypeOK, Mutex, AtRest, Unlocked, Locked, PredictCheck
    <3>2. RunnerConsistent'
      BY <2>1, <1>t DEF TypeOK, Mutex, RunnerConsistent, SlotAt, Whole, Locked, PredictCheck
    <3>3. ASSUME NEW u \in Threads PROVE SlotAt(pc[u], frame[u].arg)'
      <4>1. CASE u = t
        BY <2>1, <1>t, <4>1 DEF TypeOK, SlotAt, FrameAt, PredictCheck
      <4>2. CASE u # t
        <5>1. pc'[u] = pc[u] /\ frame'[u] = frame[u]
          BY <2>1, <1>t, <4>2 DEF TypeOK, PredictCheck
        <5> QED
          BY <2>1, <1>t, <4>2, <5>1 DEF TypeOK, Mutex, SlotAt, Whole, Installed, Locked, PredictCheck
      <4> QED
        BY <4>1, <4>2
    <3>4. ASSUME NEW u \in Threads PROVE FrameAt(u)'
      BY <2>1, <1>t DEF TypeOK, Mutex, FrameAt, AtRest, Locked, NoFrame, Frame, PredictCheck
    <3>5. ForwardCoherent'
      BY <2>1, <1>t DEF TypeOK, ForwardCoherent, NoOut, PredictCheck
    <3> QED
      BY <1>t, <3>1, <3>2, <3>3, <3>4, <3>5
  <2>2. CASE PredictCapture(t)
    <3>1. Mutex'
      BY <2>2, <1>t DEF TypeOK, Mutex, AtRest, Unlocked, Locked, PredictCapture
    <3>2. RunnerConsistent'
      BY <2>2, <1>t DEF TypeOK, Mutex, RunnerConsistent, SlotAt, Whole, Locked, PredictCapture
    <3>3. ASSUME NEW u \in Threads PROVE SlotAt(pc[u], frame[u].arg)'
      <4>1. CASE u = t
        BY <2>2, <1>t, <4>1 DEF TypeOK, SlotAt, FrameAt, PredictCapture
      <4>2. CASE u # t
        <5>1. pc'[u] = pc[u] /\ frame'[u] = frame[u]
          BY <2>2, <1>t, <4>2 DEF TypeOK, PredictCapture
        <5> QED
          BY <2>2, <1>t, <4>2, <5>1 DEF TypeOK, Mutex, SlotAt, Whole, Installed, Locked, PredictCapture
      <4> QED
        BY <4>1, <4>2
    <3>4. ASSUME NEW u \in Threads PROVE FrameAt(u)'
      BY <2>2, <1>t DEF TypeOK, Mutex, FrameAt, AtRest, Locked, NoFrame, Frame, PredictCapture
    <3>5. ForwardCoherent'
      BY <2>2, <1>t DEF TypeOK, ForwardCoherent, NoOut, PredictCapture
    <3> QED
      BY <1>t, <3>1, <3>2, <3>3, <3>4, <3>5
  <2>3. CASE PreprocessRead(t)
    <3>1. Mutex'
      BY <2>3, <1>t DEF TypeOK, Mutex, AtRest, Unlocked, Locked, PreprocessRead
    <3>2. RunnerConsistent'
      BY <2>3, <1>t DEF TypeOK, Mutex, RunnerConsistent, SlotAt, Whole, Locked, PreprocessRead
    <3>3. ASSUME NEW u \in Threads PROVE SlotAt(pc[u], frame[u].arg)'
      <4>1. CASE u = t
        BY <2>3, <1>t, <4>1 DEF TypeOK, SlotAt, FrameAt, PreprocessRead
      <4>2. CASE u # t
        <5>1. pc'[u] = pc[u] /\ frame'[u] = frame[u]
          BY <2>3, <1>t, <4>2 DEF TypeOK, PreprocessRead
        <5> QED
          BY <2>3, <1>t, <4>2, <5>1 DEF TypeOK, Mutex, SlotAt, Whole, Installed, Locked, PreprocessRead
      <4> QED
        BY <4>1, <4>2
    <3>4. ASSUME NEW u \in Threads PROVE FrameAt(u)'
      BY <2>3, <1>t DEF TypeOK, Mutex, FrameAt, AtRest, Locked, NoFrame, Frame, PreprocessRead
    <3>5. ForwardCoherent'
      BY <2>3, <1>t DEF TypeOK, ForwardCoherent, NoOut, PreprocessRead
    <3> QED
      BY <1>t, <3>1, <3>2, <3>3, <3>4, <3>5
  <2>4. CASE PredictRaise(t)
    <3>1. Mutex'
      BY <2>4, <1>t DEF TypeOK, Mutex, AtRest, Unlocked, Locked, PredictRaise
    <3>2. RunnerConsistent'
      BY <2>4, <1>t DEF TypeOK, Mutex, RunnerConsistent, SlotAt, Whole, Locked, PredictRaise
    <3>3. ASSUME NEW u \in Threads PROVE SlotAt(pc[u], frame[u].arg)'
      <4>1. CASE u = t
        BY <2>4, <1>t, <4>1 DEF TypeOK, SlotAt, FrameAt, PredictRaise
      <4>2. CASE u # t
        <5>1. pc'[u] = pc[u] /\ frame'[u] = frame[u]
          BY <2>4, <1>t, <4>2 DEF TypeOK, PredictRaise
        <5> QED
          BY <2>4, <1>t, <4>2, <5>1 DEF TypeOK, Mutex, SlotAt, Whole, Installed, Locked, PredictRaise
      <4> QED
        BY <4>1, <4>2
    <3>4. ASSUME NEW u \in Threads PROVE FrameAt(u)'
      BY <2>4, <1>t DEF TypeOK, Mutex, FrameAt, AtRest, Locked, NoFrame, Frame, PredictRaise
    <3>5. ForwardCoherent'
      BY <2>4, <1>t DEF TypeOK, ForwardCoherent, NoOut, PredictRaise
    <3> QED
      BY <1>t, <3>1, <3>2, <3>3, <3>4, <3>5
  <2>5. CASE ForwardBegin(t)
    <3>1. Mutex'
      BY <2>5, <1>t DEF TypeOK, Mutex, AtRest, Unlocked, Locked, ForwardBegin, StartForward
    <3>2. RunnerConsistent'
      BY <2>5, <1>t DEF TypeOK, Mutex, RunnerConsistent, SlotAt, Whole, Locked, ForwardBegin, StartForward
    <3>3. ASSUME NEW u \in Threads PROVE SlotAt(pc[u], frame[u].arg)'
      BY <2>5, <1>t DEF TypeOK, Mutex, RunnerConsistent, SlotAt, FrameAt, Whole, Locked, NoFrame, ForwardBegin, StartForward
    <3>4. ASSUME NEW u \in Threads PROVE FrameAt(u)'
      BY <2>5, <1>t DEF TypeOK, Mutex, FrameAt, AtRest, Locked, NoFrame, Frame, ForwardBegin, StartForward
    <3>5. ForwardCoherent'
      BY <2>5, <1>t DEF TypeOK, ForwardCoherent, NoOut, ForwardBegin, StartForward
    <3> QED
      BY <1>t, <3>1, <3>2, <3>3, <3>4, <3>5
  <2>6. CASE ForwardReturn(t)
    <3>1. Mutex'
      BY <2>6, <1>t DEF TypeOK, Mutex, AtRest, Unlocked, Locked, ForwardReturn
    <3>2. RunnerConsistent'
      BY <2>6, <1>t DEF TypeOK, Mutex, RunnerConsistent, SlotAt, Whole, Locked, ForwardReturn
    <3>3. ASSUME NEW u \in Threads PROVE SlotAt(pc[u], frame[u].arg)'
      BY <2>6, <1>t DEF TypeOK, Mutex, RunnerConsistent, SlotAt, FrameAt, Whole, Locked, NoFrame, ForwardReturn
    <3>4. ASSUME NEW u \in Threads PROVE FrameAt(u)'
      BY <2>6, <1>t DEF TypeOK, Mutex, FrameAt, AtRest, Locked, NoFrame, Frame, ForwardReturn
    <3>5. ForwardCoherent'
      <4>1. /\ Whole
            /\ frame[t].fmeta = meta
            /\ frame[t].fbackend = backend
        BY <2>6 DEF ForwardReturn, SlotAt, FrameAt
      <4>2. /\ out'[t].weights = model
            /\ out'[t].forward = meta
            /\ out'[t].backend = backend
            /\ out'[t].inputs = provider
        BY <2>6, <1>t, <4>1 DEF ForwardReturn, TypeOK
      <4>3. \A u \in Threads : u # t => out'[u] = out[u]
        BY <2>6, <1>t DEF ForwardReturn, TypeOK
      <4> QED
        BY <2>6, <4>1, <4>2, <4>3 DEF ForwardReturn, ForwardCoherent, Whole
    <3> QED
      BY <1>t, <3>1, <3>2, <3>3, <3>4, <3>5
  <2>7. CASE ForwardRaise(t)
    <3>1. Mutex'
      BY <2>7, <1>t DEF TypeOK, Mutex, AtRest, Unlocked, Locked, ForwardRaise
    <3>2. RunnerConsistent'
      BY <2>7, <1>t DEF TypeOK, Mutex, RunnerConsistent, SlotAt, Whole, Locked, ForwardRaise
    <3>3. ASSUME NEW u \in Threads PROVE SlotAt(pc[u], frame[u].arg)'
      BY <2>7, <1>t DEF TypeOK, Mutex, RunnerConsistent, SlotAt, FrameAt, Whole, Locked, NoFrame, ForwardRaise
    <3>4. ASSUME NEW u \in Threads PROVE FrameAt(u)'
      BY <2>7, <1>t DEF TypeOK, Mutex, FrameAt, AtRest, Locked, NoFrame, Frame, ForwardRaise
    <3>5. ForwardCoherent'
      BY <2>7, <1>t DEF TypeOK, ForwardCoherent, NoOut, ForwardRaise
    <3> QED
      BY <1>t, <3>1, <3>2, <3>3, <3>4, <3>5
  <2> QED
    BY <1>4, <2>1, <2>2, <2>3, <2>4, <2>5, <2>6, <2>7 DEF PredictStep
<1> QED
  BY <1>1, <1>2, <1>3, <1>4 DEF RunnerNext, RunnerStep

----------------------------------------------------------------------------
\* The inductive invariant holds of every behaviour.
LEMMA Invariance == RunnerSpec => []IInv
<1>1. RunnerInit => IInv
  BY InitIInv
<1>2. IInv /\ [RunnerNext]_runnerVars => IInv'
  BY NextIInv
<1> QED
  BY <1>1, <1>2, PTL DEF RunnerSpec

\* Every field of the slot and every local keeps its type.
THEOREM TypeCorrect == RunnerSpec => []TypeOK
<1>1. IInv => TypeOK
  BY DEF IInv
<1> QED
  BY <1>1, Invariance, PTL

\* runner.py 276-334: whenever nobody holds the lock, the weights, the manifest,
\* the id, the backend and the graph inputs agree, after failed loads too.
THEOREM SlotConsistent == RunnerSpec => []RunnerConsistent
<1>1. IInv => RunnerConsistent
  BY DEF IInv
<1> QED
  BY <1>1, Invariance, PTL

\* runner.py 252: the published weights and those a load has built so far are
\* never two models at once.
THEOREM AtMostOneResident == RunnerSpec => []OneResident
<1>1. IInv => OneResident
  <2> SUFFICES ASSUME IInv PROVE OneResident
    OBVIOUS
  <2>1. ASSUME NEW t \in Threads, frame[t].built # None
        PROVE lock = t /\ model = None
    BY <2>1 DEF IInv, FrameAt, Mutex, SlotAt, Locked
  <2> QED
    BY <2>1 DEF OneResident
<1> QED
  BY <1>1, Invariance, PTL

\* runner.py 379-418, 462-500: a prediction that returns came out of one model,
\* whatever loads and unloads overlapped it.
THEOREM PredictionsCoherent == RunnerSpec => []ForwardCoherent
<1>1. IInv => ForwardCoherent
  BY DEF IInv
<1> QED
  BY <1>1, Invariance, PTL

\* An id is seen beside weights only by the holder of the lock that forwards,
\* or when nobody holds it.
LEMMA IdInOrder == IInv => IdPublishedLast
<1> SUFFICES ASSUME IInv, model_uuid # None, model # None
             PROVE  model = model_uuid /\ meta = model_uuid
  BY DEF IdPublishedLast
<1>1. CASE lock = None
  BY <1>1 DEF IInv, RunnerConsistent
<1>2. CASE lock # None
  <2>1. PICK t \in Threads : lock = t
    BY <1>2 DEF IInv, TypeOK
  <2>2. pc[t] \in Locked /\ SlotAt(pc[t], frame[t].arg)
    BY <2>1 DEF IInv, Mutex
  <2> QED
    BY <2>2 DEF SlotAt, Whole, Locked
<1> QED
  BY <1>1, <1>2

\* runner.py 286-287, 328-332: a reader without the lock that sees an id and
\* weights sees those of one model, with its manifest.
THEOREM IdLast == RunnerSpec => []IdPublishedLast
  BY IdInOrder, Invariance, PTL

----------------------------------------------------------------------------
\* The runner implements the slot: weights are only ever published into an
\* empty slot, and a prediction is served by the weights then resident.
THEOREM RefinesSlot == RunnerSpec => ImplementsSlot
<1>1. RunnerInit => Slot!Init
  BY DEF RunnerInit, Slot!Init, NoOut
<1>2. IInv /\ [RunnerNext]_runnerVars
        => [Slot!Next]_<<model, [t \in Threads |-> out[t].weights]>>
  <2> SUFFICES ASSUME IInv, [RunnerNext]_runnerVars
               PROVE  [Slot!Next]_<<model, [t \in Threads |-> out[t].weights]>>
    OBVIOUS
  <2> DEFINE served == [t \in Threads |-> out[t].weights]
  <2>t. TypeOK
    BY DEF IInv
  <2>1. ASSUME UNCHANGED <<model, out>> PROVE UNCHANGED <<model, served>>
    BY <2>1
  <2>2. ASSUME NEW t \in Threads, EvictModel(t) PROVE Slot!Evict
    BY <2>2 DEF EvictModel, Slot!Evict
  <2>3. ASSUME NEW t \in Threads, PublishModel(t)
        PROVE  \E m \in Models : Slot!Fill(m)
    <3>1. /\ model = None
          /\ frame[t].built = frame[t].arg
          /\ frame[t].arg \in Models
      BY <2>3 DEF IInv, SlotAt, FrameAt, PublishModel
    <3>2. Slot!Fill(frame[t].built)
      BY <2>3, <3>1 DEF PublishModel, Slot!Fill
    <3> QED
      BY <3>1, <3>2
  <2>4. ASSUME NEW t \in Threads, CallPredict(t) PROVE Slot!Ask(t)
    <3>1. out' = [out EXCEPT ![t] = NoOut] /\ model' = model
      BY <2>4 DEF CallPredict, slotVars
    <3>2. served' = [served EXCEPT ![t] = None]
      BY <2>t, <3>1 DEF TypeOK, NoOut
    <3> QED
      BY <3>1, <3>2 DEF Slot!Ask
  <2>5. ASSUME NEW t \in Threads, ForwardReturn(t) PROVE Slot!Serve(t)
    <3>1. model # None /\ model' = model
      BY <2>5 DEF ForwardReturn, slotVars
    <3>2. served' = [served EXCEPT ![t] = model]
      BY <2>5, <2>t DEF ForwardReturn, TypeOK
    <3> QED
      BY <3>1, <3>2 DEF Slot!Serve
  <2>6. CASE UNCHANGED runnerVars
    BY <2>6, <2>1 DEF runnerVars, slotVars
  <2>7. ASSUME NEW t \in Threads, Call(t), ~CallPredict(t)
        PROVE  UNCHANGED <<model, out>>
    BY <2>7 DEF Call, CallLoad, CallUnload, slotVars
  <2>8. ASSUME NEW t \in Threads, LoadStep(t), ~EvictModel(t), ~PublishModel(t)
        PROVE  UNCHANGED <<model, out>>
    BY <2>8 DEF LoadStep, LoadHit, EvictProvider, EvictMeta, EvictUuid,
                EmptyCacheRaises, Build, BuildFail, PublishBackend, PublishProvider,
                PublishMeta, PublishUuid, slotVars
  <2>9. ASSUME NEW t \in Threads, PredictStep(t), ~ForwardReturn(t)
        PROVE  UNCHANGED <<model, out>>
    BY <2>9 DEF PredictStep, PredictCheck, PredictCapture, PreprocessRead,
                PredictRaise, ForwardBegin, StartForward, ForwardRaise, slotVars
  <2> QED
    BY <2>1, <2>2, <2>3, <2>4, <2>5, <2>6, <2>7, <2>8, <2>9
    DEF RunnerNext, RunnerStep, Slot!Next
<1> QED
  BY <1>1, <1>2, Invariance, PTL DEF RunnerSpec, ImplementsSlot, Slot!Spec
=============================================================================
