-------------------------- MODULE Inference_proofs --------------------------
(***************************************************************************)
(* Proofs about the requests that use the slot, for any requests, threads, *)
(* archives and formats.  They use the runner only through its calls, so   *)
(* IInv holds here too; RouteInv adds where a request stands in its call   *)
(* and what it may count on, as long as nobody overtakes it, between its   *)
(* check of the slot and its forward pass, and up to its answer.           *)
(***************************************************************************)
EXTENDS Inference, ModelRunner_proofs, FiniteSetTheorems

KindNames == {"infer", "try", "load", "unload", "activate"}

\* The requests' own variables have their types, and a request that looks at
\* the slot, or is in it, names an archive.
RouteShape ==
  /\ kind \in [Threads -> KindNames \cup {"none"}]
  /\ \A t \in Threads : kind[t] \in Kinds[t] \cup {"none"}
  /\ at \in [Threads -> Labels]
  /\ tgt \in [Threads -> ModelOrNone]
  /\ active \in ModelOrNone
  /\ loop \in Threads \cup {None}
  /\ errors \subseteq Threads
  /\ unrecorded \subseteq Threads
  /\ overtaken \in [Threads -> BOOLEAN]
  /\ gone \in [Threads -> BOOLEAN]
  /\ \A t \in Threads : at[t] \notin {"new", "done"} => tgt[t] \in Models

AnswerLabels == {"answer_backend", "answer_provider", "answer_again"}

\* Where the handler is tells where its call is.
CallAt(t) ==
  /\ at[t] \in {"new", "is_loaded", "is_loaded_uuid", "max_views", "suspended", "done"}
               \cup AnswerLabels
       => pc[t] \in AtRest
  /\ at[t] = "loading" => pc[t] \in {"load", "evict_provider", "evict_meta", "evict_uuid",
                                     "build", "publish_backend", "publish_provider",
                                     "publish_meta", "publish_uuid", "returned", "raised"}
  /\ at[t] = "predicting" => pc[t] \in {"check", "capture", "preprocess", "forward",
                                        "returned", "raised"}
  /\ at[t] = "unloading" => pc[t] \in {"unload", "evict_provider", "evict_meta",
                                       "evict_uuid", "returned", "raised"}
  /\ at[t] = "new" => kind[t] = "none" /\ tgt[t] = None
  /\ at[t] \in {"is_loaded", "is_loaded_uuid"} => kind[t] \in {"infer", "try", "unload"}
  /\ at[t] = "max_views" => kind[t] = "infer"
  /\ at[t] = "suspended" => kind[t] = "try"
  /\ at[t] = "loading" => kind[t] \in {"infer", "try", "load"}
  /\ at[t] = "predicting" => kind[t] \in {"infer", "try"}
  /\ at[t] = "unloading" => kind[t] = "unload"
  /\ at[t] \in AnswerLabels => kind[t] \in {"try", "load"}

\* What the locals of the call hold then.
LocalsAt(t) ==
  /\ pc[t] \in AtRest \cup {"unload", "check", "capture"} => frame[t] = NoFrame
  /\ at[t] = "loading" /\ pc[t] \notin AtRest => frame[t].arg = tgt[t]
  /\ at[t] # "loading" => frame[t].arg = None
  /\ at[t] = "predicting" /\ pc[t] \in {"preprocess", "forward"}
       => frame[t].cap \in Models
  /\ at[t] = "predicting" /\ pc[t] = "returned"
       => out[t].weights \in Models /\ out[t].manifest \in Models
  /\ at[t] \notin {"predicting", "done"} \cup AnswerLabels => out[t].weights = None

\* A job that ended left a prediction or an error, unless it is one of those
\* that leave neither; nobody else leaves any.
TraceAt(t) ==
  /\ t \in errors => at[t] = "done" /\ kind[t] = "infer" /\ t \notin unrecorded
  /\ t \in unrecorded => at[t] = "done" /\ kind[t] = "infer"
  /\ \A r \in predictions :
       r.job = t => /\ at[t] = "done" /\ kind[t] = "infer"
                    /\ t \notin errors /\ t \notin unrecorded
  /\ at[t] = "done" /\ kind[t] = "infer" /\ t \notin errors /\ t \notin unrecorded
       => \E r \in predictions : r.job = t

OneRow == \A r, s \in predictions : r.job = s.job => r = s

\* What a request may count on while nobody has overtaken it: from the second
\* read of is_loaded on the slot is its model's, and what it reads there is.
HeldAt(t) ==
  ~overtaken[t] =>
    /\ at[t] = "is_loaded_uuid" => model # None
    /\ Exposed(t) /\ at[t] # "is_loaded_uuid"
         => model = tgt[t] /\ meta = tgt[t] /\ model_uuid = tgt[t]
    /\ at[t] = "predicting" /\ pc[t] = "preprocess"
         => frame[t].cap = tgt[t] /\ frame[t].seen \subseteq {tgt[t]}
    /\ at[t] = "predicting" /\ pc[t] = "forward"
         => /\ model = tgt[t]
            /\ frame[t].cap = tgt[t] /\ frame[t].seen = {tgt[t]}
    /\ out[t].weights # None => Right(out[t], tgt[t])

\* What the slot says of m.
RightAnswer(m) == [backend |-> backend_of(m), provider |-> provider_of(m)]

\* ... and up to the last read of its answer, while the model stays.
AnswerAt(t) ==
  /\ at[t] \notin {"answer_provider", "answer_again", "done"} => told[t] = NoAnswer
  /\ ~overtaken[t] /\ ~gone[t] =>
       /\ Answering(t) => model = tgt[t] /\ meta = tgt[t] /\ model_uuid = tgt[t]
       /\ at[t] = "answer_provider" => told[t].backend = backend_of(tgt[t])
       /\ at[t] = "answer_again" \/ (at[t] = "done" /\ told[t] # NoAnswer)
            => told[t] = RightAnswer(tgt[t])

RowsSound == \A r \in predictions : ~overtaken[r.job] => Right(r, r.model)

\* What is known of the place of t, and of its locals.
Placed(t) == CallAt(t) /\ LocalsAt(t)

Traces ==
  /\ predictions \subseteq Row
  /\ OneRow
  /\ \A t \in Threads : TraceAt(t)

RouteInv ==
  /\ RouteShape
  /\ \A t \in Threads : Placed(t)
  /\ Traces
  /\ \A t \in Threads : HeldAt(t)
  /\ told \in [Threads -> Answer]
  /\ \A t \in Threads : AnswerAt(t)
  /\ RowsSound

----------------------------------------------------------------------------
(* The requests use the runner as it may be used.                          *)

LEMMA InitShape == Init => RouteShape
  BY ActiveAssumption
  DEF Init, RouteShape, KindNames, Labels, ModelOrNone


\* The ways on after a look at the slot.
LEMMA WaysOn ==
  ASSUME RouteShape, NEW t \in Threads, at[t] \notin {"new", "done"},
         NotLoaded(t) \/ Loaded(t) \/ (Done(t) /\ UNCHANGED runnerVars)
  PROVE  /\ \E l \in Labels \ {"new"} : at' = [at EXCEPT ![t] = l]
         /\ loop' \in {None, loop}
         /\ [RunnerNext]_runnerVars
<1>1. tgt[t] \in Models
  BY DEF RouteShape
<1>2. CASE NotLoaded(t) \/ Loaded(t)
  BY <1>1, <1>2
  DEF NotLoaded, Loaded, Done, Move, LeaveLoop, Labels, RunnerNext, Call
<1>3. CASE Done(t) /\ UNCHANGED runnerVars
  BY <1>3 DEF Done, Move, LeaveLoop, Labels
<1> QED
  BY <1>2, <1>3

\* The shape is kept by whatever moves a request and leaves its target alone.
LEMMA MoveKeepsShape ==
  ASSUME RouteShape, NEW t \in Threads, at[t] \notin {"new", "done"},
         \E l \in Labels \ {"new"} : at' = [at EXCEPT ![t] = l],
         loop' \in {None, loop, t}, errors' \in {errors, errors \cup {t}},
         unrecorded' \in {unrecorded, unrecorded \cup {t}},
         UNCHANGED <<kind, tgt, active, history>>
  PROVE  RouteShape'
  BY DEF RouteShape, history

\* One step of a request that has arrived: the shape, and the runner's part.
LEMMA HandleShape ==
  ASSUME RouteShape, NEW t \in Threads, Handle(t)
  PROVE  RouteShape' /\ [RunnerNext]_runnerVars
<1>1. CASE IsLoadedModel(t)
  <2>1. /\ \E l \in Labels \ {"new"} : at' = [at EXCEPT ![t] = l]
        /\ loop' \in {None, loop}
        /\ [RunnerNext]_runnerVars
    BY <1>1, WaysOn DEF IsLoadedModel, Move, Labels
  <2> QED
    BY <1>1, <2>1, MoveKeepsShape DEF IsLoadedModel
<1>2. CASE IsLoadedUuid(t)
  <2>1. /\ \E l \in Labels \ {"new"} : at' = [at EXCEPT ![t] = l]
        /\ loop' \in {None, loop}
        /\ [RunnerNext]_runnerVars
    BY <1>2, WaysOn DEF IsLoadedUuid
  <2> QED
    BY <1>2, <2>1, MoveKeepsShape DEF IsLoadedUuid
<1>3. CASE LoadReturned(t)
  <2>1. at[t] \notin {"new", "done"}
    BY <1>3 DEF LoadReturned
  <2>2. /\ \E l \in Labels \ {"new"} : at' = [at EXCEPT ![t] = l]
        /\ loop' \in {None, loop}
        /\ [RunnerNext]_runnerVars
    <3>1. CASE kind[t] = "load"
      BY <1>3, <3>1 DEF LoadReturned, Move, Labels
    <3>2. CASE kind[t] # "load"
      BY <1>3, <2>1, <3>2, WaysOn DEF LoadReturned
    <3> QED
      BY <3>1, <3>2
  <2> QED
    BY <1>3, <2>1, <2>2, MoveKeepsShape DEF LoadReturned
<1>4. CASE CallRaised(t) \/ NoViews(t) \/ MaxViewsRaises(t) \/ PredictReturned(t)
             \/ RecordRaises(t) \/ UnloadReturned(t)
  <2>1. at[t] \notin {"new", "done"} /\ Done(t) /\ UNCHANGED runnerVars
    BY <1>4
    DEF CallRaised, NoViews, MaxViewsRaises, PredictReturned, RecordRaises, UnloadReturned,
        Fails
  <2>2. /\ errors' \in {errors, errors \cup {t}}
        /\ unrecorded' \in {unrecorded, unrecorded \cup {t}}
        /\ UNCHANGED <<kind, tgt, active, history>>
    BY <1>4
    DEF CallRaised, NoViews, MaxViewsRaises, PredictReturned, RecordRaises, UnloadReturned,
        Fails, LogError
  <2> QED
    BY <2>1, <2>2, WaysOn, MoveKeepsShape
<1>7. CASE TryReturned(t) \/ AnswerBackend(t) \/ AnswerProvider(t) \/ AnswerAgain(t)
  <2>1. AnswerFrame /\ at[t] \notin {"new", "done"}
    BY <1>7 DEF TryReturned, AnswerBackend, AnswerProvider, AnswerAgain
  <2>2. /\ \E l \in Labels \ {"new"} : at' = [at EXCEPT ![t] = l]
        /\ loop' \in {None, loop}
    BY <1>7 DEF TryReturned, AnswerBackend, AnswerProvider, AnswerAgain, Done, Move,
                LeaveLoop, Labels
  <2> QED
    BY <2>1, <2>2, MoveKeepsShape DEF AnswerFrame
<1>5. CASE MaxViews(t) \/ TryResume(t)
  <2>1. at[t] \notin {"new", "done"} /\ at' = [at EXCEPT ![t] = "predicting"]
    BY <1>5 DEF MaxViews, TryResume, Move
  <2>2. /\ CallPredict(t) /\ loop' \in {loop, t}
        /\ UNCHANGED <<kind, tgt, active, errors, unrecorded, history>>
    BY <1>5 DEF MaxViews, TryResume
  <2> QED
    BY <2>1, <2>2, MoveKeepsShape DEF Labels, RunnerNext, Call
<1>6. CASE InRunner(t)
  <2>1. \A u \in Threads : overtaken[u] \in BOOLEAN /\ gone[u] \in BOOLEAN
    BY DEF RouteShape
  <2>2. overtaken' \in [Threads -> BOOLEAN] /\ gone' \in [Threads -> BOOLEAN]
    BY <1>6 DEF InRunner
  <2>3. RouteShape'
    BY <1>6, <2>2 DEF InRunner, RouteShape, routeVars
  <2> QED
    BY <1>6, <2>3 DEF InRunner, RunnerNext
<1> QED
  BY <1>1, <1>2, <1>3, <1>4, <1>5, <1>6, <1>7 DEF Handle

\* The same of an arrival, which names the active model or one there is.
LEMMA ArriveShape ==
  ASSUME RouteShape, NEW t \in Threads, Arrive(t)
  PROVE  RouteShape' /\ [RunnerNext]_runnerVars
<1>1. \A w \in KindNames \cup {"none"} :
        w \in Kinds[t] => [kind EXCEPT ![t] = w] \in [Threads -> KindNames \cup {"none"}]
  BY DEF RouteShape
<1>2. CASE InferBegin(t) \/ InferLookupRaises(t)
  BY <1>2 DEF InferBegin, InferLookupRaises, Begin, Done, Move, LeaveLoop, LogError,
               RouteShape, history, KindNames, Labels, ModelOrNone
<1>3. ASSUME NEW m \in Models, TryBegin(t, m) PROVE RouteShape' /\ UNCHANGED runnerVars
  BY <1>3 DEF TryBegin, Begin, Move, RouteShape, history, KindNames, Labels, ModelOrNone
<1>4. ASSUME NEW m \in Models, LoadBegin(t, m) PROVE RouteShape' /\ CallLoad(t, m)
  BY <1>4 DEF LoadBegin, Begin, Move, RouteShape, history, KindNames, Labels, ModelOrNone
<1>5. ASSUME NEW m \in Models, UnloadBegin(t, m) PROVE RouteShape' /\ UNCHANGED runnerVars
  BY <1>5 DEF UnloadBegin, Begin, Move, RouteShape, history, KindNames, Labels, ModelOrNone
<1>6. ASSUME NEW m \in Models, Activate(t, m) PROVE RouteShape' /\ UNCHANGED runnerVars
  BY <1>6 DEF Activate, Begin, Done, Move, LeaveLoop, RouteShape, history, KindNames, Labels, ModelOrNone
<1>7. Names[t] \subseteq Models
  BY NamesAssumption
<1> QED
  BY <1>2, <1>3, <1>4, <1>5, <1>6, <1>7 DEF Arrive, RunnerNext, Call

\* Every step of the gateway is one of the runner or leaves it alone.
LEMMA StepMapsRunner ==
  RouteShape /\ [Next]_vars => RouteShape' /\ [RunnerNext]_runnerVars
<1> SUFFICES ASSUME RouteShape, [Next]_vars PROVE RouteShape' /\ [RunnerNext]_runnerVars
  OBVIOUS
<1>1. CASE UNCHANGED vars
  BY <1>1 DEF vars, routeVars, history, RouteShape
<1> QED
  BY <1>1, HandleShape, ArriveShape DEF Next, Quiet

\* routes.py and web.py use the runner only through load, unload and predict,
\* one call per thread at a time: what is proved of ModelRunner holds of the
\* gateway.
THEOREM RefinesRunner == Spec => ImplementsRunner
<1>1. Init => RunnerInit
  BY DEF Init
<1> QED
  BY <1>1, InitShape, StepMapsRunner, PTL DEF Spec, ImplementsRunner, RunnerSpec

\* So the runner's invariant and the shape hold of every behaviour.
LEMMA RunnerInvariance == Spec => [](IInv /\ RouteShape)
  BY RefinesRunner, Invariance, InitShape, StepMapsRunner, PTL DEF Spec, ImplementsRunner

----------------------------------------------------------------------------
(* Where a request stands.                                                 *)

\* A step of t leaves the place and the locals of the others alone.
LEMMA Others ==
  ASSUME TypeOK, RouteShape, NEW t \in Threads, Arrive(t) \/ Handle(t),
         NEW u \in Threads, u # t
  PROVE  /\ kind'[u] = kind[u] /\ at'[u] = at[u] /\ tgt'[u] = tgt[u]
         /\ pc'[u] = pc[u] /\ frame'[u] = frame[u] /\ out'[u] = out[u]
<1> USE DEF TypeOK, RouteShape, Goto, Finish, Move, Done, Begin
<1>1. CASE Arrive(t)
  BY <1>1 DEF Arrive, InferBegin, InferLookupRaises, TryBegin, LoadBegin, UnloadBegin, Activate, CallLoad,
              runnerVars
<1>2. CASE InRunner(t)
  <2>1. CASE LoadStep(t)
    BY <1>2, <2>1
    DEF InRunner, routeVars, LoadStep, LoadHit, EvictModel, EvictProvider, EvictMeta,
        EvictUuid, EmptyCacheRaises, AfterEviction, Build, BuildFail, PublishModel,
        PublishBackend, PublishProvider, PublishMeta, PublishUuid
  <2>2. CASE PredictStep(t)
    BY <1>2, <2>2
    DEF InRunner, routeVars, PredictStep, PredictCheck, PredictCapture, PreprocessRead,
        PredictRaise, ForwardBegin, StartForward, ForwardReturn, ForwardRaise
  <2> QED
    BY <1>2, <2>1, <2>2 DEF InRunner, RunnerStep
<1>3. CASE IsLoadedModel(t) \/ IsLoadedUuid(t) \/ LoadReturned(t)
  BY <1>3 DEF IsLoadedModel, IsLoadedUuid, LoadReturned, NotLoaded, Loaded, CallLoad,
              CallUnload, runnerVars
<1>4. CASE CallRaised(t) \/ NoViews(t) \/ MaxViews(t) \/ MaxViewsRaises(t) \/ TryResume(t)
             \/ PredictReturned(t) \/ RecordRaises(t) \/ UnloadReturned(t)
  BY <1>4 DEF CallRaised, NoViews, MaxViews, MaxViewsRaises, TryResume, PredictReturned,
              RecordRaises, UnloadReturned, Fails, CallPredict, runnerVars
<1>5. CASE TryReturned(t) \/ AnswerBackend(t) \/ AnswerProvider(t) \/ AnswerAgain(t)
  BY <1>5 DEF TryReturned, AnswerBackend, AnswerProvider, AnswerAgain, AnswerFrame, runnerVars
<1> QED
  BY <1>1, <1>2, <1>3, <1>4, <1>5 DEF Handle

LEMMA PlacedArrive ==
  ASSUME TypeOK, RouteShape, NEW t \in Threads, Placed(t), Arrive(t)
  PROVE  Placed(t)'
<1> USE DEF Placed, CallAt, LocalsAt, AnswerLabels, Begin, Move, Done, Goto, TypeOK, RouteShape, AtRest
<1>1. CASE InferBegin(t) \/ InferLookupRaises(t)
  BY <1>1 DEF InferBegin, InferLookupRaises, runnerVars
<1>2. ASSUME NEW m \in Models, TryBegin(t, m) PROVE Placed(t)'
  BY <1>2 DEF TryBegin, runnerVars
<1>3. ASSUME NEW m \in Models, LoadBegin(t, m) PROVE Placed(t)'
  BY <1>3 DEF LoadBegin, CallLoad, NoFrame
<1>4. ASSUME NEW m \in Models, UnloadBegin(t, m) PROVE Placed(t)'
  BY <1>4 DEF UnloadBegin, runnerVars
<1>5. ASSUME NEW m \in Models, Activate(t, m) PROVE Placed(t)'
  BY <1>5 DEF Activate, runnerVars
<1>6. Names[t] \subseteq Models
  BY NamesAssumption
<1> QED
  BY <1>1, <1>2, <1>3, <1>4, <1>5, <1>6 DEF Arrive

LEMMA PlacedHandle ==
  ASSUME TypeOK, RouteShape, NEW t \in Threads, Placed(t), Handle(t), ~InRunner(t)
  PROVE  Placed(t)'
<1>f. NoFrame.arg = None /\ frame[t] \in Frame
  BY DEF NoFrame, TypeOK
<1> USE <1>f DEF Placed, CallAt, LocalsAt, AnswerLabels, Move, Done, Goto, TypeOK, RouteShape, AtRest
<1>a. ASSUME at[t] \notin {"new", "done"}, NotLoaded(t), at[t] # "loading",
             kind[t] \in {"infer", "try", "unload"}, kind' = kind, tgt' = tgt,
             pc[t] \in AtRest, out[t].weights = None
      PROVE  Placed(t)'
  <2>1. CASE kind[t] = "unload"
    <3>1. /\ at' = [at EXCEPT ![t] = "done"]
          /\ UNCHANGED <<kind, tgt, pc, frame, out>>
      BY <1>a, <2>1 DEF NotLoaded, runnerVars
    <3> QED
      BY <1>a, <3>1
  <2>2. CASE kind[t] \in {"infer", "try"}
    <3>1. /\ at' = [at EXCEPT ![t] = "loading"] /\ pc' = [pc EXCEPT ![t] = "load"]
          /\ frame' = [frame EXCEPT ![t].arg = tgt[t]]
          /\ UNCHANGED <<kind, tgt, out>>
      BY <1>a, <2>2 DEF NotLoaded, CallLoad
    <3>2. frame'[t].arg = tgt[t]
      BY <3>1 DEF Frame
    <3> QED
      BY <1>a, <2>2, <3>1, <3>2
  <2> QED
    BY <1>a, <2>1, <2>2
<1>b. ASSUME at[t] \notin {"new", "done"}, Loaded(t),
              kind[t] \in {"infer", "try", "unload"}, kind' = kind, tgt' = tgt,
              pc[t] \in AtRest, out[t].weights = None
       PROVE  Placed(t)'
  <2>1. CASE kind[t] \in {"infer", "try"}
    BY <1>b, <2>1 DEF Loaded, runnerVars
  <2>2. CASE kind[t] = "unload"
    <3>1. /\ at' = [at EXCEPT ![t] = "unloading"] /\ pc' = [pc EXCEPT ![t] = "unload"]
          /\ UNCHANGED <<kind, tgt, frame, out>>
      BY <1>b, <2>2 DEF Loaded, CallUnload
    <3> QED
      BY <1>b, <2>2, <3>1
  <2> QED
    BY <1>b, <2>1, <2>2
<1>1. CASE IsLoadedModel(t)
  BY <1>a, <1>1 DEF IsLoadedModel, runnerVars
<1>2. CASE IsLoadedUuid(t)
  BY <1>a, <1>b, <1>2 DEF IsLoadedUuid
<1>3. CASE LoadReturned(t)
  <2>1. CASE kind[t] = "load"
    BY <1>3, <2>1 DEF LoadReturned, runnerVars
  <2>2. CASE kind[t] # "load"
    BY <1>b, <1>3, <2>2 DEF LoadReturned, runnerVars
  <2> QED
    BY <2>1, <2>2
<1>6. CASE TryReturned(t) \/ AnswerBackend(t) \/ AnswerProvider(t) \/ AnswerAgain(t)
  <2>1. /\ at[t] \in {"predicting"} \cup AnswerLabels /\ pc[t] \in AtRest
        /\ at[t] = "predicting" => kind[t] = "try"
        /\ \E l \in AnswerLabels \cup {"done"} : at' = [at EXCEPT ![t] = l]
        /\ UNCHANGED <<kind, tgt, pc, frame, out>>
    BY <1>6 DEF TryReturned, AnswerBackend, AnswerProvider, AnswerAgain, AnswerFrame,
                runnerVars
  <2> QED
    BY <2>1
<1>4. CASE CallRaised(t) \/ NoViews(t) \/ MaxViewsRaises(t) \/ PredictReturned(t)
             \/ RecordRaises(t) \/ UnloadReturned(t)
  <2>1. /\ at[t] \notin {"new", "done"} /\ pc[t] \in AtRest
        /\ at' = [at EXCEPT ![t] = "done"]
        /\ UNCHANGED <<kind, tgt, pc, frame, out>>
    BY <1>4 DEF CallRaised, NoViews, MaxViewsRaises, PredictReturned, RecordRaises,
                UnloadReturned, Fails, runnerVars
  <2> QED
    BY <2>1
<1>5. CASE MaxViews(t) \/ TryResume(t)
  BY <1>5 DEF MaxViews, TryResume, CallPredict, NoOut
<1> QED
  BY <1>1, <1>2, <1>3, <1>4, <1>5, <1>6 DEF Handle

\* Inside the runner.
LEMMA PlacedInRunner ==
  ASSUME IInv, RouteShape, NEW t \in Threads, Placed(t), InRunner(t)
  PROVE  Placed(t)'
<1>t. TypeOK /\ FrameAt(t)
  BY DEF IInv
<1>l. UNCHANGED <<kind, at, tgt>>
  BY DEF InRunner, routeVars
<1>f. frame[t] \in Frame /\ out[t] \in Outcome /\ NoFrame.arg = None
  BY <1>t DEF TypeOK, NoFrame
<1>n. at[t] \in Labels /\ pc[t] \in DOMAIN [l \in AtRest \cup Unlocked \cup Locked |-> l]
  BY <1>t DEF TypeOK, RouteShape
<1> USE <1>t, <1>l, <1>f, <1>n, NoneAssumption
  DEF Placed, CallAt, LocalsAt, AnswerLabels, Goto, Finish, TypeOK, AtRest, Unlocked, Locked, Labels
<1>1. CASE LoadStep(t)
  <2>1. CASE LoadHit(t)
    BY <2>1 DEF LoadHit
  <2>2. CASE EvictModel(t)
    BY <2>2 DEF EvictModel, NeedsEviction, NoFrame
  <2>3. CASE EvictProvider(t) \/ EvictMeta(t)
    BY <2>3 DEF EvictProvider, EvictMeta
  <2>7. CASE EmptyCacheRaises(t)
    BY <2>7 DEF EmptyCacheRaises, RouteShape
  <2>8. CASE PublishBackend(t) \/ PublishProvider(t)
    BY <2>8 DEF PublishBackend, PublishProvider
  <2>4. CASE EvictUuid(t)
    BY <2>4 DEF EvictUuid, AfterEviction, RouteShape
  <2>5. CASE Build(t) \/ PublishModel(t)
    BY <2>5 DEF Build, PublishModel, Frame
  <2>6. CASE BuildFail(t) \/ PublishMeta(t) \/ PublishUuid(t)
    BY <2>6 DEF BuildFail, PublishMeta, PublishUuid
  <2> QED
    BY <1>1, <2>1, <2>2, <2>3, <2>4, <2>5, <2>6, <2>7, <2>8 DEF LoadStep
<1>2. CASE PredictStep(t)
  <2>1. CASE PredictCheck(t)
    BY <2>1 DEF PredictCheck
  <2>2. CASE PredictCapture(t)
    BY <2>2 DEF PredictCapture, ModelOrNone, NoFrame
  <2>3. CASE PreprocessRead(t)
    BY <2>3 DEF PreprocessRead, Frame
  <2>4. CASE PredictRaise(t) \/ ForwardRaise(t)
    BY <2>4 DEF PredictRaise, ForwardRaise
  <2>5. CASE ForwardBegin(t)
    BY <2>5 DEF ForwardBegin, StartForward, Frame
  <2>6. CASE ForwardReturn(t)
    BY <2>6 DEF ForwardReturn, ModelOrNone
  <2> QED
    BY <1>2, <2>1, <2>2, <2>3, <2>4, <2>5, <2>6 DEF PredictStep
<1> QED
  BY <1>1, <1>2 DEF InRunner, RunnerStep

----------------------------------------------------------------------------
(* What a job leaves.                                                      *)

\* A step of t that leaves no row, and does not end a job.
LEMMA NoTrace ==
  ASSUME Traces, NEW t \in Threads, UNCHANGED <<predictions, errors, unrecorded>>,
         \A u \in Threads \ {t} : at'[u] = at[u] /\ kind'[u] = kind[u],
         \/ at'[t] = at[t] /\ kind'[t] = kind[t]
         \/ at[t] # "done" /\ ~(at'[t] = "done" /\ kind'[t] = "infer")
  PROVE  Traces'
<1>1. ASSUME NEW u \in Threads PROVE TraceAt(u)'
  BY DEF Traces, TraceAt
<1> QED
  BY <1>1 DEF Traces, OneRow

\* A job that ends with an errors row, or is one of those that leave none.
LEMMA ErrorTrace ==
  ASSUME Traces, NEW t \in Threads, at[t] # "done", at'[t] = "done",
         kind'[t] = "infer", UNCHANGED predictions,
         \/ LogError(t)
         \/ unrecorded' = unrecorded \cup {t} /\ UNCHANGED errors,
         \A u \in Threads \ {t} : at'[u] = at[u] /\ kind'[u] = kind[u]
  PROVE  Traces'
<1>1. ASSUME NEW u \in Threads PROVE TraceAt(u)'
  BY DEF Traces, TraceAt, LogError
<1> QED
  BY <1>1 DEF Traces, OneRow

\* A request that ends with a prediction, which is a row if it was a job.
LEMMA RowTrace ==
  ASSUME Traces, TypeOK, RouteShape, NEW t \in Threads, Placed(t), PredictReturned(t)
  PROVE  Traces'
<1>1. /\ at[t] = "predicting" /\ pc[t] = "returned"
      /\ at' = [at EXCEPT ![t] = "done"]
      /\ kind[t] = "infer"
      /\ predictions' = predictions \cup {RowOf(t)}
      /\ UNCHANGED <<kind, errors, unrecorded, tgt>>
  BY DEF PredictReturned, Done, Move
<1>2. \A r \in predictions : r.job # t
  BY <1>1 DEF Traces, TraceAt
<1>3. RowOf(t) \in Row /\ RowOf(t).job = t
  <2>1. out[t] \in Outcome /\ tgt[t] \in Models
    BY <1>1 DEF TypeOK, RouteShape
  <2>2. out[t].seen \in SUBSET Models
    BY <2>1 DEF Outcome
  <2> QED
    BY <1>1, <2>1, <2>2 DEF RowOf, Row, Placed, LocalsAt
<1>4. at'[t] = "done" /\ tgt[t] # None /\ \A u \in Threads \ {t} : at'[u] = at[u]
  BY <1>1, NoneAssumption DEF RouteShape
<1>5. ASSUME NEW u \in Threads PROVE TraceAt(u)'
  BY <1>1, <1>2, <1>3, <1>4 DEF Traces, TraceAt
<1>6. OneRow'
  BY <1>1, <1>2, <1>3 DEF Traces, OneRow
<1>7. predictions' \subseteq Row
  BY <1>1, <1>3 DEF Traces
<1> QED
  BY <1>5, <1>6, <1>7 DEF Traces

LEMMA TraceStep ==
  ASSUME Traces, TypeOK, RouteShape, NEW t \in Threads, Placed(t), Arrive(t) \/ Handle(t)
  PROVE  Traces'
<1>1. \A u \in Threads \ {t} : at'[u] = at[u] /\ kind'[u] = kind[u] /\ tgt'[u] = tgt[u]
  BY Others
<1>2. CASE PredictReturned(t)
  BY <1>2, RowTrace
<1>3. CASE CallRaised(t) \/ MaxViewsRaises(t) \/ RecordRaises(t)
  <2>1. at[t] # "done" /\ at'[t] = "done" /\ UNCHANGED <<kind, predictions>>
    BY <1>3 DEF CallRaised, MaxViewsRaises, RecordRaises, Fails, Done, Move, RouteShape
  <2>2. CASE kind[t] = "infer"
    <3>1. LogError(t)
      BY <1>3, <2>2 DEF CallRaised, MaxViewsRaises, RecordRaises, Fails
    <3> QED
      BY <1>1, <2>1, <2>2, <3>1, ErrorTrace
  <2>3. CASE kind[t] # "infer"
    <3>1. UNCHANGED <<errors, unrecorded>>
      BY <1>3, <2>3 DEF CallRaised, MaxViewsRaises, RecordRaises, Fails
    <3> QED
      BY <1>1, <2>1, <2>3, <3>1, NoTrace
  <2> QED
    BY <2>2, <2>3
<1>4. CASE InferBegin(t)
  <2>1. at[t] = "new" /\ kind'[t] = "infer" /\ UNCHANGED predictions
    BY <1>4 DEF InferBegin, Begin, RouteShape
  <2>2. CASE active = None
    <3>1. at'[t] = "done" /\ LogError(t)
      BY <1>4, <2>2 DEF InferBegin, Done, Move, RouteShape
    <3> QED
      BY <1>1, <2>1, <3>1, ErrorTrace
  <2>3. CASE active # None
    <3>1. at'[t] = "is_loaded" /\ UNCHANGED <<errors, unrecorded>>
      BY <1>4, <2>3 DEF InferBegin, Move, RouteShape
    <3> QED
      BY <1>1, <2>1, <3>1, NoTrace
  <2> QED
    BY <2>2, <2>3
<1>9. CASE InferLookupRaises(t) \/ NoViews(t)
  <2>1. /\ at[t] \in {"new", "max_views"} /\ at'[t] = "done" /\ kind'[t] = "infer"
        /\ unrecorded' = unrecorded \cup {t} /\ UNCHANGED <<predictions, errors>>
    BY <1>9 DEF InferLookupRaises, NoViews, Begin, Done, Move, Placed, CallAt, RouteShape
  <2> QED
    BY <1>1, <2>1, ErrorTrace
<1>5. CASE Arrive(t) /\ ~InferBegin(t) /\ ~InferLookupRaises(t)
  <2>1. /\ at[t] = "new" /\ kind'[t] \in {"try", "load", "unload", "activate"}
        /\ UNCHANGED <<predictions, errors, unrecorded>>
    BY <1>5 DEF Arrive, TryBegin, LoadBegin, UnloadBegin, Activate, Begin, RouteShape
  <2> QED
    BY <1>1, <2>1, NoTrace
<1>6. CASE InRunner(t)
  BY <1>1, <1>6, NoTrace DEF InRunner, routeVars
<1>7. CASE IsLoadedModel(t) \/ IsLoadedUuid(t) \/ LoadReturned(t) \/ UnloadReturned(t)
  <2>1. at[t] # "done" /\ UNCHANGED <<kind, predictions, errors, unrecorded>>
    BY <1>7 DEF IsLoadedModel, IsLoadedUuid, LoadReturned, UnloadReturned
  <2>2. at'[t] = "done" => kind[t] # "infer"
    BY <1>7 DEF IsLoadedModel, IsLoadedUuid, LoadReturned, UnloadReturned, NotLoaded,
                Loaded, Done, Move, RouteShape, Placed, CallAt
  <2> QED
    BY <1>1, <2>1, <2>2, NoTrace
<1>10. CASE TryReturned(t) \/ AnswerBackend(t) \/ AnswerProvider(t) \/ AnswerAgain(t)
  <2>1. /\ at[t] # "done" /\ kind[t] # "infer"
        /\ UNCHANGED <<kind, predictions, errors, unrecorded>>
    BY <1>10 DEF TryReturned, AnswerBackend, AnswerProvider, AnswerAgain, AnswerFrame,
                 Placed, CallAt, AnswerLabels
  <2> QED
    BY <1>1, <2>1, NoTrace
<1>8. CASE MaxViews(t) \/ TryResume(t)
  <2>1. /\ at[t] # "done" /\ at'[t] = "predicting"
        /\ UNCHANGED <<predictions, errors, unrecorded>>
    BY <1>8 DEF MaxViews, TryResume, Move, RouteShape
  <2> QED
    BY <1>1, <2>1, NoTrace
<1> QED
  BY <1>2, <1>3, <1>4, <1>5, <1>6, <1>7, <1>8, <1>9, <1>10 DEF Handle

----------------------------------------------------------------------------
(* What a request may count on.                                            *)

\* While there are weights in the slot, a step either evicts them or leaves
\* them, and what has been published beside them, alone.
LEMMA OnlyEviction ==
  ASSUME IInv, NEW t \in Threads, RunnerStep(t), model # None, model' # None
  PROVE  /\ model' = model
         /\ meta # None => meta' = meta
         /\ model_uuid # None => model_uuid' = model_uuid
<1>1. SlotAt(pc[t], frame[t].arg)
  BY DEF IInv
<1>2. CASE LoadStep(t)
  BY <1>1, <1>2
  DEF LoadStep, LoadHit, EvictModel, EvictMeta, EvictUuid, Build, BuildFail, PublishModel,
      PublishMeta, PublishUuid, EvictProvider, EmptyCacheRaises, PublishBackend,
      PublishProvider, SlotAt, slotVars
<1>3. CASE PredictStep(t)
  BY <1>3
  DEF PredictStep, PredictCheck, PredictCapture, PreprocessRead, PredictRaise,
      ForwardBegin, StartForward, ForwardReturn, ForwardRaise, slotVars
<1> QED
  BY <1>2, <1>3 DEF RunnerStep

\* While another thread holds the lock, a step leaves the slot alone.
LEMMA LockedOut ==
  ASSUME IInv, NEW t \in Threads, RunnerStep(t), lock # None, lock # t
  PROVE  UNCHANGED slotVars
<1>1. pc[t] \notin Locked
  BY DEF IInv, Mutex
<1>2. CASE LoadStep(t)
  BY <1>1, <1>2
  DEF LoadStep, LoadHit, EvictModel, EvictMeta, EvictUuid, Build, BuildFail, PublishModel,
      PublishMeta, PublishUuid, EvictProvider, EmptyCacheRaises, PublishBackend,
      PublishProvider, Locked
<1>3. CASE PredictStep(t)
  BY <1>3
  DEF PredictStep, PredictCheck, PredictCapture, PreprocessRead, PredictRaise,
      ForwardBegin, StartForward, ForwardReturn, ForwardRaise
<1> QED
  BY <1>2, <1>3 DEF RunnerStep

\* A step outside the runner neither touches the slot nor overtakes anybody.
LEMMA OutsideKeepsSlot ==
  ASSUME NEW t \in Threads, Arrive(t) \/ Handle(t), ~InRunner(t)
  PROVE  UNCHANGED <<slotVars, history>>
<1>1. CASE Arrive(t)
  BY <1>1 DEF Arrive, InferBegin, InferLookupRaises, TryBegin, LoadBegin, UnloadBegin, Activate, CallLoad,
              runnerVars
<1>2. CASE Handle(t)
  BY <1>2
  DEF Handle, IsLoadedModel, IsLoadedUuid, LoadReturned, NotLoaded, Loaded, CallLoad,
      CallUnload, CallRaised, NoViews, MaxViews, MaxViewsRaises, TryResume,
      PredictReturned, RecordRaises, UnloadReturned, TryReturned, AnswerBackend,
      AnswerProvider, AnswerAgain, AnswerFrame, CallPredict, runnerVars
<1> QED
  BY <1>1, <1>2

\* A request keeps what it counts on through the steps of the others.
LEMMA HeldByOthers ==
  ASSUME IInv, RouteShape, NEW t \in Threads, Arrive(t) \/ Handle(t),
         NEW u \in Threads, u # t, HeldAt(u)
  PROVE  HeldAt(u)'
<1>1. /\ kind'[u] = kind[u] /\ at'[u] = at[u] /\ tgt'[u] = tgt[u]
      /\ pc'[u] = pc[u] /\ frame'[u] = frame[u] /\ out'[u] = out[u]
  BY Others DEF IInv
<1>2. Exposed(u)' = Exposed(u)
  BY <1>1 DEF Exposed
<1>3. CASE ~InRunner(t)
  <2>1. UNCHANGED <<slotVars, overtaken>>
    BY <1>3, OutsideKeepsSlot DEF history
  <2> QED
    BY <1>1, <1>2, <2>1 DEF HeldAt, slotVars, Right
<1>4. CASE InRunner(t)
  <2> SUFFICES ASSUME ~overtaken'[u] PROVE HeldAt(u)'
    BY DEF HeldAt
  <2>1. ~overtaken[u] /\ ~(model # None /\ model' = None /\ Exposed(u))
    BY <1>4 DEF InRunner
  <2>2. Exposed(u) => tgt[u] # None
    BY NoneAssumption DEF Exposed, RouteShape
  <2>3. Exposed(u) => model # None
    BY <2>1, <2>2 DEF HeldAt, Exposed
  <2>4. Exposed(u) => /\ model' = model
                      /\ meta # None => meta' = meta
                      /\ model_uuid # None => model_uuid' = model_uuid
    BY <1>4, <2>1, <2>3, OnlyEviction DEF InRunner
  <2>5. pc[u] = "forward" => model' = model
    <3> SUFFICES ASSUME pc[u] = "forward" PROVE model' = model
      OBVIOUS
    <3>1. lock = u
      BY DEF IInv, Mutex, Locked
    <3>2. u # None
      BY NoneAssumption
    <3> QED
      BY <1>4, <3>1, <3>2, LockedOut DEF InRunner, slotVars
  <2> QED
    BY <1>1, <1>2, <2>1, <2>2, <2>3, <2>4, <2>5 DEF HeldAt, Exposed, Right
<1> QED
  BY <1>3, <1>4

\* Outside the runner: the two reads of is_loaded find the slot's model, a
\* load that returned has left it there, and predict is called.
LEMMA HeldOutside ==
  ASSUME IInv, RouteShape, NEW t \in Threads, Placed(t), HeldAt(t),
         Arrive(t) \/ Handle(t), ~InRunner(t)
  PROVE  HeldAt(t)'
<1>1. UNCHANGED <<model, meta, model_uuid, overtaken>>
  BY OutsideKeepsSlot DEF slotVars, history
<1>2. tgt[t] # None \/ at[t] \in {"new", "done"}
  BY NoneAssumption DEF RouteShape
<1> SUFFICES ASSUME ~overtaken[t] PROVE HeldAt(t)'
  BY <1>1 DEF HeldAt
<1> USE DEF TypeOK, RouteShape, Move, Done, Goto
<1>t. TypeOK
  BY DEF IInv
<1>3. CASE Arrive(t)
  <2>1. at'[t] \in {"is_loaded", "loading", "done"} /\ out'[t] = out[t] /\ at[t] = "new"
    BY <1>3, <1>t DEF Arrive, InferBegin, InferLookupRaises, TryBegin, LoadBegin, UnloadBegin, Activate, Begin,
                      CallLoad, runnerVars
  <2>2. at'[t] = "loading" => pc'[t] = "load"
    BY <1>3, <1>t DEF Arrive, InferBegin, InferLookupRaises, TryBegin, LoadBegin, UnloadBegin, Activate, Begin,
                      CallLoad, runnerVars
  <2> QED
    BY <2>1, <2>2 DEF HeldAt, Exposed, AnswerLabels, Placed, LocalsAt
<1>4. CASE IsLoadedModel(t)
  <2>1. out'[t].weights = None
    BY <1>4 DEF IsLoadedModel, NotLoaded, CallLoad, AnswerLabels, Placed, LocalsAt,
                runnerVars
  <2>2. CASE model # None
    BY <1>1, <1>4, <2>1, <2>2 DEF IsLoadedModel, HeldAt, Exposed
  <2>3. CASE model = None
    BY <1>t, <1>4, <2>1, <2>3 DEF IsLoadedModel, NotLoaded, CallLoad, HeldAt, Exposed
  <2> QED
    BY <2>2, <2>3
<1>5. CASE IsLoadedUuid(t)
  <2>1. out'[t].weights = None
    BY <1>5 DEF IsLoadedUuid, NotLoaded, Loaded, CallLoad, CallUnload, Placed, LocalsAt,
                AnswerLabels, runnerVars
  <2>2. CASE model_uuid = tgt[t]
    <3>1. model = tgt[t] /\ meta = tgt[t]
      BY <1>2, <1>5, <2>2, IdInOrder DEF IsLoadedUuid, HeldAt, IdPublishedLast
    <3>2. tgt' = tgt /\ at'[t] \in {"max_views", "suspended", "unloading"}
      BY <1>5, <2>2 DEF IsLoadedUuid, Loaded, Labels
    <3> QED
      BY <1>1, <2>1, <2>2, <3>1, <3>2 DEF HeldAt
  <2>3. CASE model_uuid # tgt[t]
    BY <1>t, <1>5, <2>1, <2>3 DEF IsLoadedUuid, NotLoaded, CallLoad, HeldAt, Exposed
  <2> QED
    BY <2>2, <2>3
<1>6. CASE LoadReturned(t)
  <2>1. Exposed(t) /\ at[t] # "is_loaded_uuid" /\ tgt' = tgt
    BY <1>6 DEF LoadReturned, Exposed
  <2>2. model = tgt[t] /\ meta = tgt[t] /\ model_uuid = tgt[t]
    BY <2>1 DEF HeldAt
  <2>3. /\ at'[t] \in {"answer_backend", "max_views", "suspended", "unloading"}
        /\ out'[t].weights = None
    BY <1>6 DEF LoadReturned, Loaded, Placed, LocalsAt, AnswerLabels, CallUnload, runnerVars,
                Labels
  <2> QED
    BY <1>1, <2>1, <2>2, <2>3 DEF HeldAt
<1>7. CASE MaxViews(t) \/ TryResume(t)
  <2>1. Exposed(t) /\ at[t] # "is_loaded_uuid" /\ tgt' = tgt
    BY <1>7 DEF MaxViews, TryResume, Exposed
  <2>2. model = tgt[t] /\ meta = tgt[t] /\ model_uuid = tgt[t]
    BY <2>1 DEF HeldAt
  <2>3. at'[t] = "predicting" /\ pc'[t] = "check" /\ out'[t].weights = None
    BY <1>7, <1>t DEF MaxViews, TryResume, CallPredict, NoOut
  <2> QED
    BY <1>1, <2>1, <2>2, <2>3 DEF HeldAt
<1>8. CASE CallRaised(t) \/ NoViews(t) \/ MaxViewsRaises(t) \/ PredictReturned(t)
             \/ RecordRaises(t) \/ UnloadReturned(t)
  <2>1. at'[t] = "done" /\ UNCHANGED <<tgt, out>>
    BY <1>8 DEF CallRaised, NoViews, MaxViewsRaises, PredictReturned, RecordRaises,
                UnloadReturned, Fails, runnerVars
  <2> QED
    BY <2>1 DEF HeldAt, Exposed, Right
<1>9. CASE TryReturned(t) \/ AnswerBackend(t) \/ AnswerProvider(t) \/ AnswerAgain(t)
  <2>1. at'[t] \in AnswerLabels \cup {"done"} /\ UNCHANGED <<tgt, out>>
    BY <1>9 DEF TryReturned, AnswerBackend, AnswerProvider, AnswerAgain, AnswerFrame,
                AnswerLabels, runnerVars
  <2> QED
    BY <2>1 DEF HeldAt, Exposed, Right, AnswerLabels
<1> QED
  BY <1>3, <1>4, <1>5, <1>6, <1>7, <1>8, <1>9 DEF Handle

\* Inside the runner: a load ends with its model in the slot, and a predict
\* reads no other manifest and no other weights than those it counted on.
LEMMA HeldInside ==
  ASSUME IInv, RouteShape, NEW t \in Threads, Placed(t), HeldAt(t), InRunner(t)
  PROVE  HeldAt(t)'
<1>t. TypeOK /\ FrameAt(t) /\ SlotAt(pc[t], frame[t].arg)
  BY DEF IInv
<1>1. UNCHANGED <<kind, at, tgt>> /\ overtaken'[t] = overtaken[t]
  BY DEF InRunner, routeVars, RouteShape
<1> SUFFICES ASSUME ~overtaken[t] PROVE HeldAt(t)'
  BY <1>1 DEF HeldAt
<1>2. at[t] \notin {"new", "done"} => tgt[t] \in Models /\ tgt[t] # None
  BY NoneAssumption DEF RouteShape
<1> USE DEF TypeOK, Goto, Finish
<1>3. CASE LoadStep(t)
  <2>1. at[t] \in {"loading", "unloading"} /\ out'[t].weights = None
    <3>1. pc[t] \in (Locked \cup {"load", "unload"}) \ {"forward"} /\ out' = out
      BY <1>3 DEF LoadStep, LoadHit, EvictModel, NeedsEviction, EvictProvider, EvictMeta,
                  EvictUuid, EmptyCacheRaises, Build, BuildFail, PublishModel,
                  PublishBackend, PublishProvider, PublishMeta, PublishUuid, Locked
    <3>2. at[t] \in {"loading", "unloading"}
      BY <3>1 DEF Placed, CallAt, RouteShape, Labels, AnswerLabels, AtRest, Locked
    <3> QED
      BY <3>1, <3>2 DEF Placed, LocalsAt, AnswerLabels
  <2>2. CASE LoadHit(t)
    <3>1. at[t] = "loading" /\ frame[t].arg = tgt[t]
      BY <2>1, <2>2 DEF LoadHit, Placed, CallAt, LocalsAt, AtRest
    <3>2. model_uuid = tgt[t] /\ model = tgt[t] /\ meta = tgt[t]
      BY <2>2, <3>1 DEF LoadHit, LoadedAlready, IInv, RunnerConsistent
    <3>3. UNCHANGED <<model, meta, model_uuid>>
      BY <2>2 DEF LoadHit, slotVars
    <3> QED
      BY <1>1, <2>1, <3>1, <3>2, <3>3 DEF HeldAt
  <2>3. CASE PublishUuid(t)
    <3>1. at[t] = "loading" /\ frame[t].arg = tgt[t]
      BY <2>1, <2>3 DEF PublishUuid, Placed, CallAt, LocalsAt, AtRest
    <3>2. model' = tgt[t] /\ meta' = tgt[t] /\ model_uuid' = tgt[t]
      BY <1>t, <2>3, <3>1 DEF PublishUuid, SlotAt, Installed
    <3> QED
      BY <1>1, <2>1, <3>1, <3>2 DEF HeldAt
  <2>4. CASE LoadStep(t) /\ ~LoadHit(t) /\ ~PublishUuid(t)
    <3>1. at[t] = "loading" => frame[t].arg # None \/ pc[t] \notin {"evict_uuid"}
      BY <1>2 DEF Placed, LocalsAt, AtRest
    <3>2. /\ at[t] = "loading" => pc'[t] # "returned"
          /\ pc'[t] # "unload"
      BY <1>t, <2>4, <3>1
      DEF LoadStep, EvictModel, EvictProvider, EvictMeta, EvictUuid, EmptyCacheRaises,
          AfterEviction, Build, BuildFail, PublishModel, PublishBackend, PublishProvider,
          PublishMeta
    <3> QED
      BY <1>1, <2>1, <3>2 DEF HeldAt, Exposed
  <2> QED
    BY <1>3, <2>2, <2>3, <2>4
<1>4. CASE PredictStep(t)
  <2>1. at[t] = "predicting" /\ UNCHANGED <<model, meta, model_uuid>>
    <3>1. pc[t] \in {"check", "capture", "preprocess", "forward"}
      BY <1>4 DEF PredictStep, PredictCheck, PredictCapture, PreprocessRead, PredictRaise,
                  ForwardBegin, StartForward, ForwardReturn, ForwardRaise
    <3>2. UNCHANGED <<model, meta, model_uuid>>
      BY <1>4 DEF PredictStep, PredictCheck, PredictCapture, PreprocessRead, PredictRaise,
                  ForwardBegin, StartForward, ForwardReturn, ForwardRaise, slotVars
    <3> QED
      BY <3>1, <3>2 DEF Placed, CallAt, RouteShape, Labels, AnswerLabels, AtRest
  <2>2. pc[t] # "forward" => model = tgt[t] /\ meta = tgt[t] /\ model_uuid = tgt[t]
    <3>1. pc[t] # "forward" => Exposed(t)
      BY <1>4, <2>1 DEF Exposed, PredictStep, PredictCheck, PredictCapture, PreprocessRead,
                  PredictRaise, ForwardBegin, StartForward, ForwardReturn, ForwardRaise
    <3> QED
      BY <2>1, <3>1 DEF HeldAt
  <2>3. CASE PredictCheck(t)
    BY <1>t, <1>1, <2>1, <2>2, <2>3 DEF PredictCheck, HeldAt, Exposed, Right
  <2>4. CASE PredictCapture(t)
    <3>1. frame[t].seen = {} /\ frame[t] \in Frame
      BY <1>t, <2>4 DEF PredictCapture, Placed, LocalsAt, NoFrame
    <3>2. /\ meta # None
          /\ pc'[t] = "preprocess" /\ frame'[t].cap = meta /\ frame'[t].seen = {}
          /\ out' = out
      BY <1>t, <1>2, <2>1, <2>2, <2>4, <3>1 DEF PredictCapture, Frame
    <3> QED
      BY <1>1, <2>1, <2>2, <2>4, <3>2 DEF PredictCapture, HeldAt, Exposed, Right
  <2>5. CASE PreprocessRead(t)
    <3>1. /\ pc'[t] = "preprocess" /\ frame'[t].cap = frame[t].cap
          /\ frame'[t].seen = frame[t].seen \cup {meta}
          /\ out' = out
      BY <1>t, <1>2, <2>1, <2>2, <2>5 DEF PreprocessRead, Frame
    <3> QED
      BY <1>1, <2>1, <2>2, <2>5, <3>1 DEF PreprocessRead, HeldAt, Exposed, Right
  <2>6. CASE PredictRaise(t) \/ ForwardRaise(t)
    BY <1>t, <1>1, <2>1, <2>6 DEF PredictRaise, ForwardRaise, HeldAt, Exposed, Right
  <2>7. CASE ForwardBegin(t)
    <3>1. /\ pc[t] = "preprocess" /\ pc'[t] = "forward"
          /\ frame'[t].cap = frame[t].cap /\ frame'[t].seen = frame[t].seen
          /\ frame[t].seen # {} /\ out' = out
      BY <1>t, <2>7 DEF ForwardBegin, StartForward, Frame
    <3>2. frame[t].cap = tgt[t] /\ frame[t].seen = {tgt[t]}
      BY <2>1, <3>1 DEF HeldAt
    <3> QED
      BY <1>1, <2>1, <2>2, <3>1, <3>2 DEF HeldAt, Exposed, Right
  <2>8. CASE ForwardReturn(t)
    <3>1. model = tgt[t] /\ frame[t].cap = tgt[t] /\ frame[t].seen = {tgt[t]}
      BY <2>1, <2>8 DEF ForwardReturn, HeldAt
    <3>2. /\ out'[t].weights = model /\ out'[t].manifest = frame[t].cap
          /\ out'[t].seen = frame[t].seen /\ pc'[t] = "returned"
      BY <1>t, <2>8 DEF ForwardReturn
    <3> QED
      BY <1>1, <2>1, <3>1, <3>2 DEF HeldAt, Exposed, Right
  <2> QED
    BY <1>4, <2>3, <2>4, <2>5, <2>6, <2>7, <2>8 DEF PredictStep
<1> QED
  BY <1>3, <1>4 DEF InRunner, RunnerStep

----------------------------------------------------------------------------
(* What an answer says.                                                    *)

\* A step of t writes no answer but its own.
LEMMA ToldStep ==
  ASSUME TypeOK, told \in [Threads -> Answer], NEW t \in Threads, Arrive(t) \/ Handle(t)
  PROVE  /\ told' \in [Threads -> Answer]
         /\ \A u \in Threads \ {t} : told'[u] = told[u]
<1>1. CASE AnswerBackend(t) \/ AnswerProvider(t) \/ AnswerAgain(t)
  <2>1. \/ told' = [told EXCEPT ![t].backend = backend]
        \/ told' = [told EXCEPT ![t].provider = provider]
    BY <1>1 DEF AnswerBackend, AnswerProvider, AnswerAgain
  <2>2. told[t] \in Answer /\ backend \in {"onnx", "torchscript"} /\ provider \in ModelOrNone
    BY DEF TypeOK
  <2>3. /\ [told[t] EXCEPT !.backend = backend] \in Answer
        /\ [told[t] EXCEPT !.provider = provider] \in Answer
    BY <2>2 DEF Answer
  <2>4. \/ told' = [told EXCEPT ![t] = [told[t] EXCEPT !.backend = backend]]
        \/ told' = [told EXCEPT ![t] = [told[t] EXCEPT !.provider = provider]]
    BY <2>1
  <2> QED
    BY <2>3, <2>4
<1>2. CASE ~(AnswerBackend(t) \/ AnswerProvider(t) \/ AnswerAgain(t))
  <2>1. told' = told
    BY <1>2 DEF Arrive, InferBegin, InferLookupRaises, TryBegin, LoadBegin, UnloadBegin,
           Activate, Handle, IsLoadedModel, IsLoadedUuid, LoadReturned, CallRaised, NoViews,
           MaxViews, MaxViewsRaises, TryResume, PredictReturned, RecordRaises,
           UnloadReturned, TryReturned, InRunner, routeVars
  <2> QED
    BY <2>1
<1> QED
  BY <1>1, <1>2

\* Once all three names of the slot agree, the backend and the provider are
\* that model's: whoever holds the lock is at most running it.
LEMMA SlotWhole ==
  ASSUME IInv, NEW m \in Models, model = m, meta = m, model_uuid = m
  PROVE  backend = backend_of(m) /\ provider = provider_of(m)
<1>0. m # None
  BY NoneAssumption
<1>1. CASE lock = None
  BY <1>0, <1>1 DEF IInv, RunnerConsistent
<1>2. CASE lock # None
  <2>1. lock \in Threads /\ pc[lock] \in Locked
    BY <1>2 DEF IInv, TypeOK, Mutex
  <2>2. SlotAt(pc[lock], frame[lock].arg)
    BY <2>1 DEF IInv
  <2>3. pc[lock] = "forward"
    BY <1>0, <2>1, <2>2 DEF SlotAt, Locked
  <2>4. Whole
    BY <2>2, <2>3 DEF SlotAt
  <2> QED
    BY <1>0, <2>4 DEF Whole
<1> QED
  BY <1>1, <1>2

\* The slot stays what an answer counts on through the steps of the others.
LEMMA AnswerByOthers ==
  ASSUME IInv, RouteShape, told \in [Threads -> Answer],
         NEW t \in Threads, Arrive(t) \/ Handle(t),
         NEW u \in Threads, u # t, Placed(u), AnswerAt(u)
  PROVE  AnswerAt(u)'
<1>1. /\ kind'[u] = kind[u] /\ at'[u] = at[u] /\ tgt'[u] = tgt[u]
      /\ pc'[u] = pc[u] /\ told'[u] = told[u]
  BY Others, ToldStep DEF IInv
<1>2. Answering(u)' = Answering(u)
  BY <1>1 DEF Answering
<1>3. CASE ~InRunner(t)
  <2>1. UNCHANGED <<slotVars, overtaken, gone>>
    BY <1>3, OutsideKeepsSlot DEF history
  <2> QED
    BY <1>1, <1>2, <2>1 DEF AnswerAt, slotVars, RightAnswer
<1>4. CASE InRunner(t)
  <2>1. /\ overtaken[u] => overtaken'[u]
        /\ gone[u] => gone'[u]
        /\ ~gone'[u] => ~(model # None /\ model' = None /\ Answering(u))
    BY <1>4 DEF InRunner
  <2> SUFFICES ASSUME ~overtaken'[u], ~gone'[u], ~overtaken[u], ~gone[u]
               PROVE  Answering(u) => model' = tgt[u] /\ meta' = tgt[u] /\ model_uuid' = tgt[u]
    BY <1>1, <1>2, <2>1 DEF AnswerAt, RightAnswer
  <2> SUFFICES ASSUME Answering(u)
               PROVE  model' = tgt[u] /\ meta' = tgt[u] /\ model_uuid' = tgt[u]
    OBVIOUS
  <2>2. tgt[u] # None
    BY NoneAssumption DEF Answering, RouteShape
  <2>3. model = tgt[u] /\ meta = tgt[u] /\ model_uuid = tgt[u]
    BY DEF AnswerAt
  <2> QED
    BY <1>4, <2>1, <2>2, <2>3, OnlyEviction DEF InRunner
<1> QED
  BY <1>3, <1>4

\* A forward pass that returns leaves its model in the slot.
LEMMA AnswerInside ==
  ASSUME IInv, RouteShape, NEW t \in Threads, Placed(t), HeldAt(t), AnswerAt(t), InRunner(t)
  PROVE  AnswerAt(t)'
<1>1. /\ UNCHANGED <<kind, at, tgt, told>>
      /\ overtaken'[t] = overtaken[t] /\ gone'[t] = gone[t]
  BY DEF InRunner, routeVars, RouteShape
<1>2. ASSUME Answering(t)', ~overtaken[t]
      PROVE  model' = tgt[t] /\ meta' = tgt[t] /\ model_uuid' = tgt[t]
  <2>1. pc[t] \notin AtRest
    BY DEF InRunner, RunnerStep, LoadStep, LoadHit, EvictModel, NeedsEviction,
           EvictProvider, EvictMeta, EvictUuid, EmptyCacheRaises, Build, BuildFail,
           PublishModel, PublishBackend, PublishProvider, PublishMeta, PublishUuid,
           PredictStep, PredictCheck, PredictCapture, PreprocessRead, PredictRaise,
           ForwardBegin, StartForward, ForwardReturn, ForwardRaise, AtRest
  <2>2. at[t] = "predicting" /\ pc'[t] = "returned"
    BY <1>1, <1>2, <2>1 DEF Answering, Placed, CallAt, AnswerLabels
  <2>3. pc[t] \in {"check", "capture", "preprocess", "forward"}
    BY <2>1, <2>2 DEF Placed, CallAt, AtRest
  <2>4. ForwardReturn(t)
    BY <2>2, <2>3
    DEF InRunner, RunnerStep, LoadStep, LoadHit, EvictModel, NeedsEviction,
        EvictProvider, EvictMeta, EvictUuid, EmptyCacheRaises, Build, BuildFail,
        PublishModel, PublishBackend, PublishProvider, PublishMeta, PublishUuid,
        PredictStep, PredictCheck, PredictCapture, PreprocessRead, PredictRaise,
        ForwardBegin, StartForward, ForwardRaise, Goto, Finish, IInv, TypeOK
  <2>5. pc[t] = "forward" /\ UNCHANGED slotVars
    BY <2>4 DEF ForwardReturn
  <2>6. Whole
    BY <2>5 DEF IInv, SlotAt
  <2>7. model = tgt[t]
    BY <1>2, <2>2, <2>5 DEF HeldAt
  <2> QED
    BY <2>5, <2>6, <2>7 DEF Whole, slotVars
<1> QED
  BY <1>1, <1>2 DEF AnswerAt, RightAnswer

\* Outside the runner: what a load or a forward pass left in the slot is read.
LEMMA AnswerOutside ==
  ASSUME IInv, RouteShape, told \in [Threads -> Answer], NEW t \in Threads,
         Placed(t), HeldAt(t), AnswerAt(t), Arrive(t) \/ Handle(t), ~InRunner(t)
  PROVE  AnswerAt(t)'
<1>1. UNCHANGED <<model, meta, model_uuid, backend, provider, overtaken, gone>>
  BY OutsideKeepsSlot DEF slotVars, history
<1>2. told[t] \in Answer
  OBVIOUS
<1> USE DEF RouteShape, Move, Done
<1>3. CASE Arrive(t)
  <2>1. /\ at[t] = "new" /\ at'[t] \in {"is_loaded", "loading", "done"}
        /\ told' = told
    BY <1>3 DEF Arrive, InferBegin, InferLookupRaises, TryBegin, LoadBegin, UnloadBegin,
                Activate, Begin
  <2> QED
    BY <2>1 DEF AnswerAt, Answering
<1>4. CASE \/ IsLoadedModel(t) \/ IsLoadedUuid(t) \/ CallRaised(t) \/ NoViews(t)
           \/ MaxViewsRaises(t) \/ PredictReturned(t) \/ RecordRaises(t)
           \/ UnloadReturned(t)
           \/ LoadReturned(t) /\ kind[t] # "load"
  <2>1. /\ at[t] \notin {"answer_provider", "answer_again", "done"}
        /\ at'[t] \in {"is_loaded_uuid", "loading", "max_views", "suspended", "unloading",
                       "done"}
        /\ told' = told
    BY <1>4 DEF IsLoadedModel, IsLoadedUuid, NotLoaded, Loaded, CallRaised, NoViews,
                MaxViewsRaises, PredictReturned, RecordRaises, UnloadReturned, LoadReturned,
                Fails
  <2> QED
    BY <2>1 DEF AnswerAt, Answering
<1>5. CASE MaxViews(t) \/ TryResume(t)
  <2>1. /\ at[t] \in {"max_views", "suspended"}
        /\ at'[t] = "predicting" /\ pc'[t] = "check" /\ told' = told
    BY <1>5 DEF MaxViews, TryResume, CallPredict, Goto, IInv, TypeOK
  <2> QED
    BY <2>1 DEF AnswerAt, Answering
<1>6. CASE LoadReturned(t) /\ kind[t] = "load"
  <2>1. /\ at[t] = "loading" /\ pc[t] = "returned"
        /\ at'[t] = "answer_backend" /\ UNCHANGED <<tgt, told>>
    BY <1>6 DEF LoadReturned
  <2> QED
    BY <1>1, <2>1 DEF AnswerAt, Answering, HeldAt, Exposed
<1>7. CASE TryReturned(t)
  <2>1. /\ at[t] = "predicting" /\ Answering(t)
        /\ at'[t] = "answer_backend" /\ UNCHANGED <<tgt, told>>
    BY <1>7 DEF TryReturned, Answering, AnswerFrame
  <2> QED
    BY <1>1, <2>1 DEF AnswerAt, Answering
<1>8. CASE AnswerBackend(t) \/ AnswerProvider(t) \/ AnswerAgain(t)
  <2>1. Answering(t) /\ tgt' = tgt /\ tgt[t] \in Models
    BY <1>8 DEF AnswerBackend, AnswerProvider, AnswerAgain, AnswerFrame, Answering
  <2>2. ~overtaken[t] /\ ~gone[t] =>
          /\ model = tgt[t] /\ meta = tgt[t] /\ model_uuid = tgt[t]
          /\ backend = backend_of(tgt[t]) /\ provider = provider_of(tgt[t])
    BY <2>1, SlotWhole DEF AnswerAt
  <2>3. CASE AnswerBackend(t)
    <3>1. /\ at'[t] = "answer_provider" /\ told'[t].backend = backend
      BY <1>2, <2>3 DEF AnswerBackend, Answer
    <3> QED
      BY <1>1, <2>1, <2>2, <3>1 DEF AnswerAt, Answering
  <2>4. CASE AnswerProvider(t) \/ AnswerAgain(t)
    <3>1. /\ at'[t] \in {"answer_again", "done"}
          /\ told'[t] = [told[t] EXCEPT !.provider = provider]
          /\ at[t] \in {"answer_provider", "answer_again"}
      BY <1>2, <2>4 DEF AnswerProvider, AnswerAgain
    <3>2. told'[t] = [backend |-> told[t].backend, provider |-> provider]
      BY <1>2, <3>1 DEF Answer
    <3>3. ~overtaken[t] /\ ~gone[t] => told[t].backend = backend_of(tgt[t])
      BY <3>1 DEF AnswerAt, RightAnswer
    <3> QED
      BY <1>1, <2>1, <2>2, <3>1, <3>2, <3>3 DEF AnswerAt, Answering, RightAnswer
  <2> QED
    BY <1>8, <2>3, <2>4
<1> QED
  BY <1>3, <1>4, <1>5, <1>6, <1>7, <1>8 DEF Handle

----------------------------------------------------------------------------
\* A new row is its job's answer, and nobody who was overtaken ceases to be.
LEMMA RowsStep ==
  ASSUME IInv, RouteShape, RowsSound, NEW t \in Threads, Placed(t), HeldAt(t), Traces,
         Arrive(t) \/ Handle(t)
  PROVE  RowsSound'
<1>1. \A u \in Threads : overtaken[u] => overtaken'[u]
  <2>1. CASE InRunner(t)
    BY <2>1 DEF InRunner
  <2>2. CASE ~InRunner(t)
    BY <2>2, OutsideKeepsSlot DEF history
  <2> QED
    BY <2>1, <2>2
<1>2. \A r \in predictions : r.job \in Threads
  BY DEF Traces, Row
<1>3. CASE UNCHANGED predictions
  BY <1>1, <1>2, <1>3 DEF RowsSound, Right
<1>4. CASE PredictReturned(t)
  <2>1. /\ at[t] = "predicting" /\ pc[t] = "returned"
        /\ predictions' \subseteq predictions \cup {RowOf(t)}
    BY <1>4 DEF PredictReturned
  <2>2. out[t].weights # None
    BY <2>1, NoneAssumption DEF Placed, LocalsAt
  <2>3. ~overtaken[t] => Right(out[t], tgt[t])
    BY <2>2 DEF HeldAt
  <2>4. /\ RowOf(t).job = t /\ RowOf(t).model = tgt[t]
        /\ ~overtaken[t] => Right(RowOf(t), tgt[t])
    BY <2>3 DEF RowOf, Right
  <2> QED
    BY <1>1, <1>2, <2>1, <2>4 DEF RowsSound, Right
<1>5. UNCHANGED predictions \/ PredictReturned(t)
  BY DEF Arrive, InferBegin, InferLookupRaises, TryBegin, LoadBegin, UnloadBegin, Activate, Handle,
         IsLoadedModel, IsLoadedUuid, LoadReturned, CallRaised, NoViews, MaxViews,
         MaxViewsRaises, TryResume, RecordRaises, UnloadReturned, TryReturned, AnswerBackend,
         AnswerProvider, AnswerAgain, AnswerFrame, InRunner, routeVars
<1> QED
  BY <1>3, <1>4, <1>5

LEMMA InitRouteInv == Init => RouteInv
<1> SUFFICES ASSUME Init PROVE RouteInv
  OBVIOUS
<1>1. RouteShape
  BY InitShape
<1>2. ASSUME NEW t \in Threads PROVE Placed(t) /\ TraceAt(t) /\ HeldAt(t)
  BY DEF Init, RunnerInit, Placed, CallAt, LocalsAt, TraceAt, HeldAt, Exposed, AtRest,
         AnswerLabels, NoFrame, NoOut
<1>3. told \in [Threads -> Answer] /\ \A t \in Threads : AnswerAt(t)
  BY DEF Init, AnswerAt, Answering, NoAnswer, Answer, ModelOrNone
<1> QED
  BY <1>1, <1>2, <1>3 DEF Init, RouteInv, Traces, OneRow, RowsSound

LEMMA NextRouteInv == IInv /\ RouteInv /\ [Next]_vars => RouteInv'
<1> SUFFICES ASSUME IInv, RouteInv, [Next]_vars PROVE RouteInv'
  OBVIOUS
<1>1. CASE UNCHANGED vars
  BY <1>1 DEF vars, routeVars, runnerVars, slotVars, RouteInv, RouteShape, Placed, CallAt,
              LocalsAt, Traces, OneRow, TraceAt, HeldAt, Exposed, RowsSound, Right,
              AnswerAt, Answering, RightAnswer, history
<1>2. ASSUME NEW t \in Threads, Arrive(t) \/ Handle(t) PROVE RouteInv'
  <2>1. RouteShape'
    BY StepMapsRunner DEF RouteInv
  <2>2. TypeOK
    BY DEF IInv
  <2>3. ASSUME NEW u \in Threads PROVE Placed(u)'
    <3>1. CASE u = t
      BY <1>2, <2>2, <3>1, PlacedArrive, PlacedHandle, PlacedInRunner DEF RouteInv
    <3>2. CASE u # t
      BY <1>2, <2>2, <3>2, Others DEF RouteInv, Placed, CallAt, LocalsAt
    <3> QED
      BY <3>1, <3>2
  <2>4. Traces'
    BY <1>2, <2>2, TraceStep DEF RouteInv
  <2>5. ASSUME NEW u \in Threads PROVE HeldAt(u)'
    <3>1. CASE u = t
      BY <1>2, <3>1, HeldOutside, HeldInside DEF RouteInv
    <3>2. CASE u # t
      BY <1>2, <3>2, HeldByOthers DEF RouteInv
    <3> QED
      BY <3>1, <3>2
  <2>6. RowsSound'
    BY <1>2, RowsStep DEF RouteInv
  <2>7. told' \in [Threads -> Answer]
    BY <1>2, <2>2, ToldStep DEF RouteInv
  <2>8. ASSUME NEW u \in Threads PROVE AnswerAt(u)'
    <3>1. CASE u = t
      BY <1>2, <3>1, AnswerOutside, AnswerInside DEF RouteInv
    <3>2. CASE u # t
      BY <1>2, <3>2, AnswerByOthers DEF RouteInv
    <3> QED
      BY <3>1, <3>2
  <2> QED
    BY <2>1, <2>3, <2>4, <2>5, <2>6, <2>7, <2>8 DEF RouteInv
<1> QED
  BY <1>1, <1>2 DEF Next, Quiet

LEMMA RouteInvariance == Spec => [](IInv /\ RouteInv)
  BY RunnerInvariance, InitRouteInv, NextRouteInv, PTL DEF Spec

----------------------------------------------------------------------------
\* Every variable of the requests has its type.
THEOREM RouteTypeCorrect == Spec => []RouteTypeOK
<1>1. IInv /\ RouteInv => RouteTypeOK
  BY DEF IInv, RouteInv, RouteShape, Traces, RouteTypeOK
<1> QED
  BY <1>1, RouteInvariance, PTL

\* routes.py 279-320, 326-383: a row, and what a try's predict returned, was
\* computed by the model it is credited to, unless another request evicted that
\* model between the check of the slot and the forward pass; and the backend and
\* the provider a try or a load tells, read without the lock (134, 372-373,
\* web.py 300, 322-323), are that model's unless it was evicted by then.
THEOREM UndisturbedIsSound == Spec => []UndisturbedSound
<1>1. RouteInv => UndisturbedSound
  <2>1. RouteInv => \A r \in predictions : ~overtaken[r.job] => Right(r, r.model)
    BY DEF RouteInv, RowsSound
  <2>2. RouteInv => \A t \in Threads : ~overtaken[t] /\ out[t].weights # None
                                        => Right(out[t], tgt[t])
    BY DEF RouteInv, HeldAt
  <2>3. RouteInv => \A t \in Threads :
                      at[t] = "done" /\ told[t] # NoAnswer /\ ~overtaken[t] /\ ~gone[t]
                        => told[t] = RightAnswer(tgt[t])
    BY DEF RouteInv, AnswerAt
  <2> QED
    BY <2>1, <2>2, <2>3 DEF UndisturbedSound, RightAnswer
<1> QED
  BY <1>1, RouteInvariance, PTL

\* routes.py 279-323: a job that ended left exactly one row, of one kind, and is
\* otherwise one of those in unrecorded; "no active model" leaves its row too.
THEOREM EveryOutcomeRecorded == Spec => []OutcomeRecorded
<1>1. RouteInv => OutcomeRecorded
  <2> SUFFICES ASSUME RouteInv, NEW t \in Threads
               PROVE  LET rows == {r \in predictions : r.job = t} IN
                        IF kind[t] = "infer" /\ at[t] = "done" /\ t \notin unrecorded
                          THEN IF t \in errors THEN rows = {} ELSE Cardinality(rows) = 1
                          ELSE rows = {} /\ t \notin errors
    BY DEF OutcomeRecorded
  <2> DEFINE rows == {r \in predictions : r.job = t}
  <2>1. TraceAt(t) /\ OneRow
    BY DEF RouteInv, Traces
  <2>2. CASE kind[t] = "infer" /\ at[t] = "done" /\ t \notin unrecorded /\ t \notin errors
    <3>1. PICK r \in predictions : r.job = t
      BY <2>1, <2>2 DEF TraceAt
    <3>2. rows = {r}
      BY <2>1, <3>1 DEF OneRow
    <3>3. Cardinality(rows) = 1
      BY <3>2, FS_Singleton
    <3> QED
      BY <2>2, <3>3
  <2>3. CASE kind[t] = "infer" /\ at[t] = "done" /\ t \notin unrecorded /\ t \in errors
    BY <2>1, <2>3 DEF TraceAt
  <2>4. CASE ~(kind[t] = "infer" /\ at[t] = "done" /\ t \notin unrecorded)
    BY <2>1, <2>4 DEF TraceAt
  <2> QED
    BY <2>2, <2>3, <2>4
<1> QED
  BY <1>1, RouteInvariance, PTL

\* routes.py 145-149: an unload that nobody overtook evicts the model it names.
THEOREM UnloadsItsOwn == Spec => UndisturbedUnload
<1>1. RouteInv /\ [Next]_vars
        => [\A t \in Threads :
              kind[t] = "unload" /\ pc[t] = "unload" /\ lock' = t /\ ~overtaken[t]
                => model \in {None, tgt[t]}]_vars
  <2> SUFFICES ASSUME RouteInv, NEW t \in Threads, kind[t] = "unload", pc[t] = "unload",
                      ~overtaken[t]
               PROVE  model = tgt[t]
    OBVIOUS
  <2>1. at[t] = "unloading"
    BY DEF RouteInv, RouteShape, Placed, CallAt, Labels, AnswerLabels, AtRest
  <2> QED
    BY <2>1 DEF RouteInv, HeldAt, Exposed
<1> QED
  BY <1>1, RouteInvariance, PTL DEF Spec, UndisturbedUnload
=============================================================================
