----------------------------- MODULE Inference -----------------------------
(***************************************************************************)
(* The requests that use the model slot, gateway/app/routes.py and web.py: *)
(*   infer     run_server_inference, a background task in the thread pool  *)
(*   try       POST /v1/predict and /ui/models/try: async handlers on the  *)
(*             event loop, with an await between the load and the predict  *)
(*   load, unload, activate   the model endpoints, in the thread pool      *)
(* composed with ModelRunner, whose threads they are.  Each request checks *)
(* the slot, perhaps loads, and only then predicts; a try and a load then  *)
(* tell the client the backend and provider they read in the slot.  Between*)
(* these steps the others run.                                             *)
(*                                                                         *)
(* One task: the rows of another task name other models and meet these     *)
(* only in the slot.  The database and the object store answer or raise,   *)
(* the INSERT of an errors row included.                                   *)
(***************************************************************************)
EXTENDS ModelRunner

CONSTANTS
  Kinds,         \* what the request of each thread may be
  Names,         \* the models it may name
  ActiveAtStart  \* the active model there may be before, or None

ASSUME KindsAssumption ==
  Kinds \in [Threads -> SUBSET {"infer", "try", "load", "unload", "activate"}]
ASSUME NamesAssumption == Names \in [Threads -> SUBSET Models]
ASSUME ActiveAssumption == ActiveAtStart \subseteq Models \cup {None}

VARIABLES
  kind,         \* what each thread's request is, "none" before it arrives
  at,           \* where the handler is
  tgt,          \* the model row it works for (model["id"], model_uuid)
  active,       \* the active model of the task, or None
  loop,         \* the try handler that occupies the event loop, or None
  predictions,  \* the rows of table predictions
  errors,       \* the jobs with a row in table errors
  told,         \* what an answer says of the slot: backend and provider
  unrecorded,   \* history: the jobs that ended where the code writes no row, or
                \* whose errors row was refused
  overtaken,    \* history: requests whose model was evicted by another one after
                \* they had found or loaded it and before they used the slot
  gone          \* history: ... after they had used it and before their answer
                \* was made up

routeVars == <<kind, at, tgt, active, loop, predictions, errors, told, unrecorded>>
history == <<overtaken, gone>>
vars == <<runnerVars, routeVars, history>>

Labels == {"new", "is_loaded", "is_loaded_uuid", "loading", "max_views",
           "suspended", "predicting", "unloading", "answer_backend",
           "answer_provider", "answer_again", "done"}

Row == [job : Threads, model : Models, weights : Models, manifest : Models,
        seen : SUBSET Models]

Answer == [backend : {"onnx", "torchscript", "none"}, provider : ModelOrNone]
NoAnswer == [backend |-> "none", provider |-> None]

RouteTypeOK ==
  /\ TypeOK
  /\ \A t \in Threads : kind[t] \in Kinds[t] \cup {"none"}
  /\ at \in [Threads -> Labels]
  /\ tgt \in [Threads -> ModelOrNone]
  /\ active \in ModelOrNone
  /\ loop \in Threads \cup {None}
  /\ predictions \subseteq Row
  /\ errors \subseteq Threads
  /\ told \in [Threads -> Answer]
  /\ unrecorded \subseteq Threads
  /\ overtaken \in [Threads -> BOOLEAN]
  /\ gone \in [Threads -> BOOLEAN]

Init ==
  /\ RunnerInit
  /\ kind = [t \in Threads |-> "none"]
  /\ at = [t \in Threads |-> "new"]
  /\ tgt = [t \in Threads |-> None]
  /\ active \in ActiveAtStart
  /\ loop = None
  /\ predictions = {}
  /\ errors = {}
  /\ told = [t \in Threads |-> NoAnswer]
  /\ unrecorded = {}
  /\ overtaken = [t \in Threads |-> FALSE]
  /\ gone = [t \in Threads |-> FALSE]

Move(t, label) == at' = [at EXCEPT ![t] = label]

\* The model t counts on is in the slot or was, and t has not yet run it.
Exposed(t) ==
  \/ at[t] \in {"is_loaded_uuid", "max_views", "suspended"}
  \/ at[t] = "loading" /\ pc[t] = "returned"
  \/ at[t] = "predicting" /\ pc[t] \in {"check", "capture", "preprocess"}
  \/ at[t] = "unloading" /\ pc[t] = "unload"

\* t has used the slot and has yet to read there what it will answer.
Answering(t) ==
  \/ at[t] = "predicting" /\ pc[t] = "returned" /\ kind[t] = "try"
  \/ at[t] \in {"answer_backend", "answer_provider", "answer_again"}

LeaveLoop(t) == loop' = IF loop = t THEN None ELSE loop

Done(t) == Move(t, "done") /\ LeaveLoop(t)

\* _log_error: the failure becomes a row of table errors, unless the INSERT
\* raises too.
LogError(t) ==
  \/ errors' = errors \cup {t} /\ UNCHANGED unrecorded
  \/ unrecorded' = unrecorded \cup {t} /\ UNCHANGED errors

\* A job's failure is logged, the others' are answered.
Fails(t) ==
  /\ Done(t)
  /\ IF kind[t] = "infer" THEN LogError(t) ELSE UNCHANGED <<errors, unrecorded>>

----------------------------------------------------------------------------
(* Arrivals.                                                               *)

Begin(t, what) ==
  /\ at[t] = "new"
  /\ what \in Kinds[t]
  /\ kind' = [kind EXCEPT ![t] = what]

\* active_model(task); without one the job logs and gives up.
InferBegin(t) ==
  /\ Begin(t, "infer")
  /\ IF active = None
       THEN Done(t) /\ LogError(t) /\ UNCHANGED tgt
       ELSE /\ Move(t, "is_loaded")
            /\ tgt' = [tgt EXCEPT ![t] = active]
            /\ UNCHANGED <<loop, errors, unrecorded>>
  /\ UNCHANGED <<runnerVars, active, predictions, told, history>>

\* active_model is called before the try: what it raises ends the job, and
\* nothing writes it down.
InferLookupRaises(t) ==
  /\ Begin(t, "infer")
  /\ Done(t)
  /\ unrecorded' = unrecorded \cup {t}
  /\ UNCHANGED <<runnerVars, tgt, active, predictions, errors, told, history>>

\* The row is found by id, by version or as the active one.
TryBegin(t, m) ==
  /\ Begin(t, "try")
  /\ loop = None
  /\ loop' = t
  /\ tgt' = [tgt EXCEPT ![t] = m]
  /\ Move(t, "is_loaded")
  /\ UNCHANGED <<runnerVars, active, predictions, errors, told, unrecorded,
                 history>>

LoadBegin(t, m) ==
  /\ Begin(t, "load")
  /\ tgt' = [tgt EXCEPT ![t] = m]
  /\ CallLoad(t, m)
  /\ Move(t, "loading")
  /\ UNCHANGED <<active, loop, predictions, errors, told, unrecorded,
                 history>>

UnloadBegin(t, m) ==
  /\ Begin(t, "unload")
  /\ tgt' = [tgt EXCEPT ![t] = m]
  /\ Move(t, "is_loaded")
  /\ UNCHANGED <<runnerVars, active, loop, predictions, errors, told, unrecorded,
                 history>>

Activate(t, m) ==
  /\ Begin(t, "activate")
  /\ active' = m
  /\ Done(t)
  /\ UNCHANGED <<runnerVars, tgt, predictions, errors, told, unrecorded, history>>

----------------------------------------------------------------------------
(* runner.is_loaded(id): two reads of the slot, then the two ways on.      *)

NotLoaded(t) ==
  IF kind[t] = "unload"
    THEN Done(t) /\ UNCHANGED runnerVars
    ELSE Move(t, "loading") /\ CallLoad(t, tgt[t]) /\ UNCHANGED loop

\* Mutant: unload_model clears the slot's weights itself.
LoadedUnloadsByHand(t) ==
  CASE kind[t] = "infer" ->
         Move(t, "max_views") /\ UNCHANGED <<runnerVars, loop>>
    [] kind[t] = "try" ->
         Move(t, "suspended") /\ loop' = None /\ UNCHANGED runnerVars
    [] OTHER ->
         /\ Done(t)
         /\ model' = None
         /\ UNCHANGED <<lock, meta, model_uuid, backend, provider, pc, frame,
                        out>>

Loaded(t) ==
  CASE kind[t] = "infer" ->
         Move(t, "max_views") /\ UNCHANGED <<runnerVars, loop>>
    [] kind[t] = "try" ->
         Move(t, "suspended") /\ loop' = None /\ UNCHANGED runnerVars
    [] OTHER ->
         Move(t, "unloading") /\ CallUnload(t) /\ UNCHANGED loop

\* self.model is None -> False
IsLoadedModel(t) ==
  /\ at[t] = "is_loaded"
  /\ IF model = None
       THEN NotLoaded(t)
       ELSE Move(t, "is_loaded_uuid") /\ UNCHANGED <<runnerVars, loop>>
  /\ UNCHANGED <<kind, tgt, active, predictions, errors, told, unrecorded,
                 history>>

\* Mutant: is_loaded() without the id, true of whatever model is resident.
IsLoadedAny(t) ==
  /\ at[t] = "is_loaded_uuid"
  /\ Loaded(t)
  /\ UNCHANGED <<kind, tgt, active, predictions, errors, told, unrecorded,
                 history>>

\* self.model_uuid == model_uuid
IsLoadedUuid(t) ==
  /\ at[t] = "is_loaded_uuid"
  /\ IF model_uuid = tgt[t] THEN Loaded(t) ELSE NotLoaded(t)
  /\ UNCHANGED <<kind, tgt, active, predictions, errors, told, unrecorded,
                 history>>

----------------------------------------------------------------------------
(* Returns from the runner, and the prediction.                            *)

\* load_model_row returned.  The try handler goes on to await its uploads,
\* and the event loop serves others in between.
LoadReturned(t) ==
  /\ at[t] = "loading"
  /\ pc[t] = "returned"
  /\ IF kind[t] = "load"
       THEN Move(t, "answer_backend") /\ UNCHANGED <<runnerVars, loop>>
       ELSE Loaded(t)
  /\ UNCHANGED <<kind, tgt, active, predictions, errors, told, unrecorded, history>>

\* Mutant: the job's handler lets a failed load pass without a record.
CallRaisedLoadUnlogged(t) ==
  /\ at[t] \in {"loading", "predicting", "unloading"}
  /\ pc[t] = "raised"
  /\ IF at[t] = "predicting"
       THEN Fails(t)
       ELSE Done(t) /\ UNCHANGED <<errors, unrecorded>>
  /\ UNCHANGED <<runnerVars, kind, tgt, active, predictions, told, history>>

\* The call raised: an errors row for a job, an error answer otherwise.
CallRaised(t) ==
  /\ at[t] \in {"loading", "predicting", "unloading"}
  /\ pc[t] = "raised"
  /\ Fails(t)
  /\ UNCHANGED <<runnerVars, kind, tgt, active, predictions, told, history>>

\* The board has no view: the job is over, and has nothing to say.
NoViews(t) ==
  /\ at[t] = "max_views"
  /\ Done(t)
  /\ unrecorded' = unrecorded \cup {t}
  /\ UNCHANGED <<runnerVars, kind, tgt, active, predictions, errors, told, history>>

\* The views are listed; then runner.meta["max_views"], a KeyError on an empty
\* manifest, and predict is called with as many as that manifest takes.
MaxViews(t) ==
  /\ at[t] = "max_views"
  /\ meta # None
  /\ CallPredict(t)
  /\ Move(t, "predicting")
  /\ UNCHANGED <<kind, tgt, active, loop, predictions, errors, told, unrecorded,
                 history>>

\* The query or storage.get raises, or the manifest is gone.
MaxViewsRaises(t) ==
  /\ at[t] = "max_views"
  /\ Fails(t)
  /\ UNCHANGED <<runnerVars, kind, tgt, active, predictions, told, history>>

\* The awaited uploads are read: the handler is back on the loop and predicts.
TryResume(t) ==
  /\ at[t] = "suspended"
  /\ loop = None
  /\ loop' = t
  /\ CallPredict(t)
  /\ Move(t, "predicting")
  /\ UNCHANGED <<kind, tgt, active, predictions, errors, told, unrecorded, history>>

RowOf(t) == [job |-> t, model |-> tgt[t], weights |-> out[t].weights,
             manifest |-> out[t].manifest, seen |-> out[t].seen]

\* The job's row, under model["id"].
PredictReturned(t) ==
  /\ at[t] = "predicting"
  /\ pc[t] = "returned"
  /\ kind[t] = "infer"
  /\ predictions' = predictions \cup {RowOf(t)}
  /\ Done(t)
  /\ UNCHANGED <<runnerVars, kind, tgt, active, errors, told, unrecorded, history>>

\* _compare_to_edge or the INSERT raises.
RecordRaises(t) ==
  /\ at[t] = "predicting"
  /\ pc[t] = "returned"
  /\ kind[t] = "infer"
  /\ Fails(t)
  /\ UNCHANGED <<runnerVars, kind, tgt, active, predictions, told, history>>

UnloadReturned(t) ==
  /\ at[t] = "unloading"
  /\ pc[t] = "returned"
  /\ Done(t)
  /\ UNCHANGED <<runnerVars, kind, tgt, active, predictions, errors, told, unrecorded,
                 history>>

----------------------------------------------------------------------------
(* The answers of a try and of a load: what predict returned, and what the *)
(* slot says of its backend and provider now, read without the lock.       *)

AnswerFrame ==
  UNCHANGED <<runnerVars, kind, tgt, active, predictions, errors, unrecorded, history>>

\* The try's predict returned.
TryReturned(t) ==
  /\ at[t] = "predicting"
  /\ pc[t] = "returned"
  /\ kind[t] = "try"
  /\ Move(t, "answer_backend")
  /\ AnswerFrame
  /\ UNCHANGED <<loop, told>>

\* runner.backend
AnswerBackend(t) ==
  /\ at[t] = "answer_backend"
  /\ told' = [told EXCEPT ![t].backend = backend]
  /\ Move(t, "answer_provider")
  /\ AnswerFrame
  /\ UNCHANGED loop

\* runner.provider; the console's load reads it again if there was one.
AnswerProvider(t) ==
  /\ at[t] = "answer_provider"
  /\ told' = [told EXCEPT ![t].provider = provider]
  /\ \/ Done(t)
     \/ /\ kind[t] = "load" /\ provider # None
        /\ Move(t, "answer_again")
        /\ UNCHANGED loop
  /\ AnswerFrame

\* ", " + runner.provider: if it is None by now the load, which succeeded, is
\* reported as failed.
AnswerAgain(t) ==
  /\ at[t] = "answer_again"
  /\ told' = [told EXCEPT ![t].provider = provider]
  /\ Done(t)
  /\ AnswerFrame

\* A step inside the runner; an eviction overtakes the others it concerns.
InRunner(t) ==
  /\ RunnerStep(t)
  /\ LET evicts == model # None /\ model' = None IN
       /\ overtaken' = [u \in Threads |->
                          overtaken[u] \/ (u # t /\ evicts /\ Exposed(u))]
       /\ gone' = [u \in Threads |->
                     gone[u] \/ (u # t /\ evicts /\ Answering(u))]
  /\ UNCHANGED routeVars

----------------------------------------------------------------------------
Arrive(t) ==
  \/ InferBegin(t) \/ InferLookupRaises(t)
  \/ \E m \in Names[t] :
       TryBegin(t, m) \/ LoadBegin(t, m) \/ UnloadBegin(t, m) \/ Activate(t, m)

Handle(t) ==
  \/ IsLoadedModel(t) \/ IsLoadedUuid(t)
  \/ LoadReturned(t) \/ CallRaised(t)
  \/ NoViews(t) \/ MaxViews(t) \/ MaxViewsRaises(t)
  \/ TryResume(t) \/ PredictReturned(t) \/ RecordRaises(t)
  \/ UnloadReturned(t)
  \/ TryReturned(t) \/ AnswerBackend(t) \/ AnswerProvider(t) \/ AnswerAgain(t)
  \/ InRunner(t)

\* Every request has been answered.
Quiet == (\A t \in Threads : at[t] = "done") /\ UNCHANGED vars

Next == (\E t \in Threads : Arrive(t) \/ Handle(t)) \/ Quiet

Spec == Init /\ [][Next]_vars

\* A request that has arrived is not abandoned: its thread is scheduled, its
\* uploads arrive, and a free lock or event loop is taken.  Weak fairness is
\* enough since each lock or loop is contended by finitely many requests.
FairSpec == Spec /\ \A t \in Threads : WF_vars(Handle(t))
----------------------------------------------------------------------------
(* Properties.                                                             *)

Right(r, m) == r.weights = m /\ r.manifest = m /\ r.seen = {m}

\* A prediction row, and what a try's predict returned, was computed by the
\* model it is credited to: weights, preprocessing and postprocessing (routes.py
\* 281, 284).
AttributionSound ==
  /\ \A r \in predictions : Right(r, r.model)
  /\ \A t \in Threads :
       kind[t] = "try" /\ out[t].weights # None => Right(out[t], tgt[t])

\* ... and it is, for every request whose model nobody evicted between its
\* check of the slot and its forward pass: is_loaded's two unlocked reads and
\* the unlocked part of predict mislead nobody by themselves.  If nobody evicted
\* it before the answer was made up either, a try and a load (routes.py 134,
\* 372-373, web.py 300, 322-323) also tell that model's backend and provider.
UndisturbedSound ==
  /\ \A r \in predictions : ~overtaken[r.job] => Right(r, r.model)
  /\ \A t \in Threads : kind[t] = "try" /\ ~overtaken[t] /\ out[t].weights # None
                          => Right(out[t], tgt[t])
  /\ \A t \in Threads :
       at[t] = "done" /\ told[t] # NoAnswer /\ ~overtaken[t] /\ ~gone[t]
         => told[t] = [backend |-> backend_of(tgt[t]), provider |-> provider_of(tgt[t])]

\* web.py 135-136: a background job that ended left exactly one trace, a
\* prediction or an error (that no model is active is one too), and no other
\* request left any.  Left out are the jobs in unrecorded, which leave neither:
\* the lookup of the model raised before the try (routes.py 286), the board has
\* no view (298-299), or the errors row was itself refused (288, 322).
OutcomeRecorded ==
  \A t \in Threads :
    LET rows == {r \in predictions : r.job = t} IN
      IF kind[t] = "infer" /\ at[t] = "done" /\ t \notin unrecorded
        THEN IF t \in errors THEN rows = {} ELSE Cardinality(rows) = 1
        ELSE rows = {} /\ t \notin errors

\* An unload evicts the model it names and no other, unless another request
\* evicted that model between its check and its turn (routes.py 147): then it
\* may well evict the one that was loaded since.
UndisturbedUnload ==
  [][\A t \in Threads :
       kind[t] = "unload" /\ pc[t] = "unload" /\ lock' = t /\ ~overtaken[t]
         => model \in {None, tgt[t]}]_vars

\* Every request is answered and every job ends.
RequestsEnd == \A t \in Threads : at[t] # "new" ~> at[t] = "done"

\* The requests use the runner as it may be used: every behaviour of the
\* gateway is one of ModelRunner, so what is proved there holds here.
ImplementsRunner == RunnerSpec
=============================================================================
