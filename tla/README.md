# Verification of the JetsonAPI gateway

TLA+ models of the gateway (`gateway/app`) and of the script that installs it
(`setup-jetson.sh`), the TLC configurations that check them, and proofs that
TLAPS checks. Paths and line numbers below are those of the repository.

    tlc -workers 2 -config inference.cfg MCInference.tla    # one run
    tlapm ModelRunner_proofs.tla                            # the proofs of one module

`PROJECT.json` lists the runs, which definition models which lines (`map`), a
plausible bug for every property that its run then refutes (`mutants`), the
disagreements found between code and documents (`findings`), and what is hard
to test in this code (`hazards`). Operators whose comment says *Mutant* are the
bodies those bugs put in place of the correct ones; no specification uses them.

## 1. The system

One uvicorn process serves the HTTP API, the admin pages and the background
jobs. `async` handlers run on its one event loop and give it up only where they
`await`; plain handlers and `BackgroundTasks` run in a thread pool beside it.
Postgres and an object store (MinIO) hold what must survive the process. The
process keeps four things in memory: the model slot, the queued jobs, the login
tokens and the log buffer.

| Component | Source | State | Operations |
|---|---|---|---|
| Model slot | `runner.py` `ModelRunner` | lock, model, meta, model_uuid, backend, provider and ONNX inputs | load, unload, predict, is_loaded |
| Inference requests | `routes.py` 127-160, 279-383, 493-514; `web.py` 276-332 | the handlers' locals, `predictions`, `errors` | run_server_inference, /v1/predict, /ui/models/try, load, unload |
| Model activation | `routes.py` 109-124; unique index in `001_init.sql` | `models.active` | _activate: lookup, two UPDATEs in one transaction |
| Model registration | `routes.py` 35-94; `runner.py` 54-152; `web.py` 256-274 | model directory, `models` | save_and_register: write, validate, insert, activate |
| Board ingest | `routes.py` 163-274 | `boards`, `views`, `predictions`, object store, job queue | ingest_board, _store_edge_prediction, the queued job |
| Board reads | `routes.py` 386-490 | none of their own | list_boards, get_board with its long poll |
| Pre- and postprocessing | `runner.py` 155-248, 338-418 | none: pure functions | grid_boxes, crops, postprocess, attention per view |
| Keys, sessions, login tokens | `auth.py`; `web.py` 26-112, 337-393 | `api_keys`, `_login_tokens`, cookie | create, revoke, require, mint and consume a token |
| Schema migrations | `db.py` | `schema_migrations`, the schema | migrate |
| Object storage client | `storage.py` | objects | put, get, make_preview, ensure_bucket |
| Log buffer | `logbuffer.py` | ring of lines | emit, read since an index |
| Metrics | `metrics.py` | none | reads /proc, /sys and two aggregates |
| Web pages | `web.py`, `templates/` | none | rendering; changes go through the routes above |
| Start-up and health | `main.py`, `config.py` | none | migrate, ensure_bucket, install; health |
| Provisioning | `setup-jetson.sh` | disk, fstab, swap, daemon.json, .env, data directories, unit | nvme, swap, docker, deploy, service and others |
| Command-line scripts | `gateway/scripts`, `scripts` | none | create_key, seed models, stamp metadata, smoke test |

How they meet. A registration writes a file, inserts a row and may activate it;
an activation changes which model the next job asks for; a job asks for the
active model, loads it into the slot if it is not there, and predicts; ingest
stores a board and queues such a job; a read of the board waits for what the
job writes; an operator's load, unload or try uses the same slot at the same
time. Every request is let in by its key, which another request may revoke
meanwhile, and none before the schema is that of the image. None of these holds the slot's lock for longer
than one load, unload or forward pass.

What is hard here, and what makes each part correct:

* **Slot.** `predict` captures the manifest, preprocesses with *further* reads
  of `self.meta`, and takes the lock only for the forward pass; loads publish
  five fields one after the other. Correct: no reader that takes the lock finds
  fields of two models; two models are never in memory; a result comes out of
  one model.
* **Requests.** Check of the slot, load, awaited uploads, predict and INSERT
  are separate steps, and the answer is made up from the slot once more. Correct:
  a row is credited to the model that computed it, and an answer tells of that
  model; a job that fails or succeeds leaves one row of one kind; every request
  ends.
* **Activation.** Two UPDATEs race with those of other requests for row locks
  and for an index entry. Correct: one active model per task, none lost, no
  request left waiting.
* **Registration.** A file, a row and an activation, with a crash or a second
  upload of the same name between them. Correct: a registered row has its
  archive, and its archive is the one its row describes.
* **Ingest.** Attempts are retried, overlap, fail half-way or meet a restart.
  Correct: rows have objects; what was acknowledged is stored; inference runs
  and the edge prediction is kept, whichever attempt got how far.
* **Provisioning.** The script can stop after any command; running it again is
  the recovery. Correct: credentials, keys and settings survive, and a full run
  ends with a board that serves after a reboot.
* **Board reads.** `get_board` gives up the event loop between two polls and
  reads views and predictions in two transactions while jobs write. Correct:
  the answer lists every view its predictions looked at; a wait ends, and
  brings a prediction unless its time was up.
* **Keys, sessions, login links.** All handlers run side by side in the thread
  pool, and every query is a transaction of its own. Correct: a link opens one
  session in its time; a revoked key does nothing; an admin is left.
* **Migrations.** A file and its record, with a failure between any two
  statements, and images with other files. Correct: the schema is what it says
  it is, and the gateway never serves on less than its image needs.
* **Pre- and postprocessing.** Rounding and slicing by computed counts. Correct:
  every view gives the promised crops inside the photo, and what is reported
  for a photo is that photo's.

## 2. The modules

| Module | Models | Builds on |
|---|---|---|
| `ModelSlot` | what the slot promises (abstract) | |
| `ModelRunner` | `runner.py` `ModelRunner`, every assignment a step | refines `ModelSlot` |
| `ModelRunner_proofs` | theorems about `ModelRunner` | `ModelRunner`, TLAPS |
| `Inference` | the requests that use the slot | extends `ModelRunner`, implements it |
| `ActiveRegister` | what activation promises (abstract) | |
| `Activation` | `_activate` on Postgres | refines `ActiveRegister` |
| `Registry` | `save_and_register` | extends `Activation`, implements it |
| `Ingest` | `ingest_board` and the job it queues | |
| `Boards` | `get_board` beside ingest | extends `Ingest` |
| `Migrate` | `migrate` and the start-up around it | |
| `Access` | keys, sessions, login links | |
| `Gateway` | the process: start-up, then keys and logins | composes `Migrate` and `Access` |
| `Vision` | preprocessing, postprocessing and attention of `predict` | |
| `Setup` | five steps of `setup-jetson.sh` | |
| `Inference_proofs`, `Activation_proofs`, `Registry_proofs`, `Ingest_proofs` (with `Boards`), `Gateway_proofs`, `Vision_proofs`, `Setup_proofs` | theorems about the module of that name | that module, TLAPS |
| `MC*` | the small instances TLC checks | the module they name |

### ModelRunner

The variables are the fields of the class under their own names, the lock, and
per thread a place (`pc`) and the locals of its call (`frame`). A *model value*
stands for an archive and for everything read from it, so "`meta` is the
manifest of the model in `model`" is `meta = model`. Each assignment that a
reader without the lock can see is a step: `EvictModel`, `EvictProvider`,
`EvictMeta`, `EvictUuid`, `Build`, `PublishModel`, `PublishBackend`,
`PublishProvider`, `PublishMeta`, `PublishUuid`. `is_loaded` and `predict` read
`model`, `model_uuid` and `meta` without the lock, the routes `backend` and
`provider`. Only `_onnx_inputs` is read under it alone; it is set and cleared
right after `provider`, and one variable stands for both. `predict` is `PredictCheck` (line 381), `PredictCapture`, any number of
`PreprocessRead` (preprocessing and `_to_tensor` read `self.meta` again),
`ForwardBegin` and `ForwardReturn`. Whatever can raise does so in an action of
its own (`EmptyCacheRaises`, `BuildFail`, `PredictRaise`, `ForwardRaise`). `Compatible` says which
batches pass through which weights without raising: with all pairs compatible,
as in the instances, no error hides a mix-up.

`ModelSlot` has two variables, the resident model and the model that served
each thread's last prediction, and four actions: fill an empty slot, evict,
ask, serve. That is the whole promise: *one resident at a time, evicted before
it is replaced, and every answer from the model resident at that moment*.

### Inference

Each runner thread gets a request: `infer` (the background job), `try`
(/v1/predict and /ui/models/try, `async`, with an `await` between load and
predict), `load`, `unload`, `activate`. `is_loaded` is two actions because it
reads two fields without the lock. `loop` is the `try` handler that occupies
the event loop: it is held from arrival to the awaited uploads and again from
`TryResume` to the answer, runner calls included, since the handlers call the
runner synchronously. A row of `predictions` carries the model it is credited
to (`model["id"]`) beside the weights, manifest and preprocessing it came from.
After its call a try and a load read `runner.backend` and `runner.provider`
without the lock (`AnswerBackend`, `AnswerProvider`; the console's load reads
the provider a second time, `AnswerAgain`), and `told` is what they answer.

Three ways of ending a job write no row, or try to and cannot: the lookup of the
active model raises, outside the `try` (`InferLookupRaises`); the board has no
view (`NoViews`); the INSERT of the errors row raises (`LogError`, which is also
what a job without an active model comes to). `unrecorded` is the history of
these. `overtaken` marks a request whose model another one evicted between the
request's check of the slot and its use of it, `gone` one whose model was evicted
after its use and before its answer was made up.

### Activation

`QueryTask` is the lookup, `Deactivate`/`AwaitOff` the first UPDATE,
`ActivateRow`/`IndexCheck` the second, `Commit` the end of the `with` block.
Postgres is external, modelled as far as the code relies on it: READ COMMITTED
(the default; the code sets none), a row lock to the end of the transaction, a
row that had to be waited for is re-read and skipped when it no longer
qualifies, the partial unique index `models_one_active_per_task` (001_init.sql)
that waits for an undecided conflicting entry and raises on a committed one,
and a deadlock detector (`DeadlockVictim`). `ActiveRegister` is a register per
task with one atomic write: each "activated" is one write, each refusal none.

### Registry

`Submit`, `WriteBytes`, `CloseFile`, `Validate`, `Insert`, `CallActivate`,
`ActivateDone` are `save_and_register` line by line. `WriteFails` is an OSError
of `write_bytes`, which no handler catches: what was written stays.
`InsertFails` is an INSERT that raises and has no effect, `InsertAnswerLost` one
that raises and has: the connection is lost under the COMMIT. Line 69 unlinks
the file in both. The
handler is `async` and never awaits after the upload is read, so `loop` admits
one registration at a time; activations of others run in the thread pool.
`ValidateRaises` is `parse_metadata` on JSON of a shape it does not foresee. A
submission may be sent again, and `Crash` takes handlers and open transactions
and leaves files and committed rows.

### Ingest

One `board_id`; `Attempts` are the requests that name it. `OpenBoard` finds or
inserts the board; per view there is `Resume` (the awaited read),
`CheckDuplicate`, `PutOriginal`, `PutPreview`, `InsertView`; then `StoreEdge`
and `QueueAndAnswer`. `CallFails` is any failing call to database or object
store, from the lookup of the board on, and one that took effect while its
answer was lost; `PreviewRaises` is an image PIL refuses, `EdgeRaises` the
`meta` or `edge` field when it is JSON of another shape than the lines after the
views expect, `Crash` the end of the process and of its queue.

`order` is the table of views in order of `created_at`. The job lists all of them
(`found`) and fetches and predicts on the first `max_views` (`read`), by the
manifest then in the slot: any of the set `MaxViews` (`JobReads`). Then it
compares and leaves a row of what it looked at (`JobCompares`, `JobRecords`) or
an error, which looked at nothing (`JobFails`); what happens in the slot
meanwhile is `Inference`'s.

### Boards

Readers join `Ingest` on the event loop (`reading`), which they hold from the
poll that ends their loop to the answer; between two polls they do not. A poll
that finds nothing is a stutter, so there is one action for the last one
(`Poll`), and one for the deadline (`Expire`). `ReadViews` and
`ReadPredictions` are the two queries; jobs write between them from the thread
pool, uploads cannot.

### Migrate, Access, Gateway

A migration is its place in filename order. `Execute`, `Record` and `Commit`
are the three calls of the loop; what the connection has open and not committed
is `ran` and `named`. `Fail` is an error or a crash during start-up: everything
open is rolled back, without `lifespan` the process ends, and docker starts it
again. `Deploy` replaces the image by one with other files, older names
included, at any moment: while it serves, or while its boot fails, whose open
transaction is rolled back.

`Access` gives each request its place (`at`), the key it acts by, and what it is
about. The check of the key (`Check`, `Verify`) and the statement that acts
(`Revoke`, `InsertKey`, `Mint`) are separate steps. A login link is popped by
`FollowLink`, timed by `Fresh` and turned into a cookie by `Verify`, which looks
the key up again. `stale`, `minted`, `granted` and `late` are history variables:
the key was revoked on arrival; the links there were; the logins by link; the
revocations by a key that was itself revoked meanwhile. `Gateway` lets requests
in while the process serves, and takes links and requests with it when it stops.

### Vision

One call of `predict` on one model, for TorchScript archives without tta: views
are cut one by one (`Preprocess`), the batch goes through the model, and the
output is read by the function of the task. Arithmetic is Python's: a quotient
of integers rounds half to even; a product with a quotient, as `round(img.width
* scale)`, may fall to either side of a half, and `int(size * 1.15)` may be one
less where 1.15 * size is an integer. Sums of attention weights are the
sequences of instances they are of, so that whose attention it is stays visible.

### Setup

`pc` is the next command of the current step and `todo` the steps after it. A
plan is what one call of the script runs: the full run, or steps by name (`step_nvme`
also at the end of `nvme-format`).
Variables are split into what is on disk and what goes with the power. A
redirection is two commands (`OpenEnv`/`WriteEnv`, `OpenConf`/`DumpConf`,
`OpenMarker`/`WriteMarker`): create or truncate, then fill. `Abort` ends the
script before any command (`set -e`, Ctrl-C); `Reboot` loses the memory, at any
moment; `PassOver` is a command whose failure only warns. `DATA_DIR` lies below
the mount point *on whatever is mounted there*, hence the data directories
"nvme" and "boot"; "repo" is docker-compose.yml's default when `.env` sets
nothing. Containers keep the password they were made with (`given`) until
`docker compose up` finds that `.env` has changed; those of the unit without an
`.env` start with compose's defaults.

## 3. What the runs show

Sizes are distinct states; each run takes seconds to two minutes. `ModelRunner` has
no run of its own: `Inference` extends it, so `inference` takes its every action.

| Run | Instance | Shows |
|---|---|---|
| `inference` (298 k) | 3 requests: job or try, try, one of load, unload, activate; a TorchScript and an ONNX archive; an active model before or not | `RunnerConsistent`, `OneResident`, `ForwardCoherent`, `IdPublishedLast`, `UndisturbedSound`, `OutcomeRecorded`; `UndisturbedUnload`, `ImplementsRunner`, `ImplementsSlot`, `RequestsEnd` |
| `attribution` | 2 jobs around an activation | `AttributionSound` fails (section 4) |
| `activation` (33 k) | 3 clients, two rows of one task and one of another, rows inserted and process killed at any time | `OneActivePerTask`; `ActiveNeverLost`, `ImplementsRegister`, `ActivationAnswered` |
| `registry` (707 k) | uploads x (sent twice), y of another name and the same path, z of the same name and rejected, w on which `read_metadata` fails; an operator; one crash, one INSERT that raises after it took effect, any number that have none, and failed writes | `ArchiveKept`, `RowDescribesUpload`, `RegisteredActive`, `NoOrphanFile`; `ImplementsActivation` |
| `archive_lost` | x, sent up to twice, no crash | `ArchiveIntact` fails |
| `ingest` (627 k) | 3 overlapping attempts over one board, one with an undecodable view, one with JSON that may raise; manifests that take 1 view or 2; a reader that waits; 1 fault | `RowsHaveObjects`, `AckedViewsStored`, `InsertNeverConflicts`, `OneEdge`, `OwnEdgeCompared`, `InferredWithoutFaults`, `ReadCoherent`, `WaitBringsPrediction`; `Settles`, `WaitEnds` |
| `inference_lost` | an attempt and its retry, one fault | `AckedInferred` fails |
| `edge_lost` | the same | `EdgeKept` fails |
| `gateway` (1 008 k) | 2 admins with a browser each, 3 requests, 3 keys, a link that lives one tick; an upgrade that adds an older and a newer file; one fault | `SchemaFollowsRecord`, `LinkOnce`, `RevokedActsNoMore`, `AdminStays`; `Boots` |
| `vision` (4 k) | 1 or 2 photos of five shapes, input sizes 3 and 20, grids of 0 to 7 patches, whole faces, all three tasks | `InstancesInside`, `AttentionIsOwn` |
| `setup` (839 k) | full runs, each step by name, `nvme deploy`; 2 passwords, 2 faults, reboots between runs without bound | `CleanRunInstalls`, `RunServes`, `DbPasswordKept`, `KeysFiled` |
| `rerun_recovers` | the same, one fault | `RerunRecovers` fails |

The type invariants are proved (section 5), so no run repeats them; `SetupTypeOK`
and `BoardsTypeOK`, which is part of the invariant of section 5, are there for the
reader. Some of the properties
say less than one would like, because the stronger one does not hold of this
code; both are stated, the stronger one in a run of its own:

* `UndisturbedSound` and `AttributionSound`: attribution is right for whoever
  is not overtaken by an eviction, and so is what an answer tells of backend and
  provider if the model was not evicted before the answer was made up either
  (`gone`). So the *only* causes of a wrong row or answer are evictions: one
  between check and use, or one between use and answer. The unlocked reads of
  `is_loaded` (two fields) and of `predict` (the manifest, many times) add no
  other, while those of `backend` and `provider` (routes.py:134, 372-373,
  web.py:300, 322-323) are where the second one bites.
* `ArchiveKept` and `ArchiveIntact`: the archive of a row stays the one its row
  describes until somebody opens its path again, whatever crashes, is refused or
  fails; not so the row of an INSERT that raised after it had taken effect,
  whose archive line 69 removes.
* `InferredWithoutFaults` and `AckedInferred`: overlap and order alone lose no
  inference. If nothing fails, the attempt that stored the last of an attempt's
  views brings, if it asked for inference (the default of the form field,
  routes.py:173) and was acknowledged, a row of a job that listed all those views:
  a prediction on the first `max_views` of the board, or an error. A failing call
  or a crash loses that job, and so does, without either, an attempt that stores
  the last view and then meets an image that does not decode or JSON it does
  not foresee: `AckedInferred`, which has no such hypotheses, fails.
* `CleanRunInstalls`, `RunServes` and `RerunRecovers`: without faults every full
  run installs everything, among steps run by name too; after faults a re-run
  recovers the settings of docker and a stack that serves, not everything it
  promises.
* `CleanRunInstalls` and `KeysFiled` on the admin key: "Re-runs must not mint
  duplicates" (setup-jetson.sh:692) holds per marker, not per database. Without
  a fault every key has its marker, so there are two at most, one for each
  directory `$DATA_DIR` may be. But `deploy` before the disk is mounted
  and `nvme deploy` after it mint both keys in the one database on the boot disk,
  and the full run that moves the stack finds the disk's marker and leaves the
  new database without a key. `CleanRunInstalls` says that this is the only
  way to a full run without a key.
* `OutcomeRecorded`: a job that finds no active model leaves an errors row like
  any other that fails. Excepted are the jobs in `unrecorded`: those whose lookup
  of the active model raised (routes.py:286, before the `try`), whose board
  had no view (298-299), or whose errors row was refused (288, 322).
* `NoOrphanFile` excepts what a write that raised got done (routes.py:52), and
  the archives on whose manifest `read_metadata` raises something else than
  `ManifestError`: no `except` sees either, and the file stays. What is left is
  that a 422, a 409 and a failed INSERT leave nothing, unless the process died.
* `WaitBringsPrediction` does not say that the prediction is of the *last*
  upload: a wait after a second upload is content with the prediction of the
  first (routes.py:457). Nor does it say that every view was looked at: the job
  listed them all and predicts on the first `max_views`.
* `AdminStays`: web.py 389 keeps an admin from revoking the key he uses, but two
  who revoke each other at once are both let through. The property says that
  this race is the only way to lose the last admin.
* `UndisturbedUnload`: an unload evicts its own model or, when that one was
  evicted meanwhile, whatever came after it (lines 147 to 149). The code accepts
  this, and the property bounds it.

Properties that hold because of something easy to change without noticing:
`InsertNeverConflicts` and `RowDescribesUpload` hold only because the handlers
do not `await` between check and insert (their mutants put an `await` there, or
make the handler a plain function); `ActiveNeverLost` only because both UPDATEs
share one transaction; `ReadCoherent` only because `get_board`, which reads
the views first, does not await between its queries; `LinkOnce` only because `pop` both
finds and removes; `OneActivePerTask` only because of the index: under READ
COMMITTED the two UPDATEs alone let two requests activate two rows.

**Bounds.** Two requests suffice to disturb the slot, as only one holds the lock
and readers do not disturb each other; two archives of different formats
distinguish every field. Three requests are a victim, its disturber, and another
victim contending for event loop and lock. In `Activation` two rows of a task
give every conflict; the third client makes chains of waits and a row of another
task shows that tasks do not meet. One fault in `Ingest` strands an
attempt or its job, anywhere; the two other attempts are its retries, or overlap
it. A manifest that takes one view looks at part of the board, one that takes
two at all that decode. In `Registry` one lost answer and one crash meet
each other and the second upload of x. In `Setup` two faults interrupt a run and
the run that was to recover it; every step is also run by name, and `nvme
deploy` is the pair that mounts the disk under running containers. `Inference`'s requests are one per thread, and
a request that ended is not followed by another: the slot they start from is
empty, or whatever the others left in it. In `Gateway` three
requests are the two who revoke each other, or a link and its two followers; a
third key is there to be made; clock 0 to 2 with a lifetime of 1 has a link in
time, at its limit and too late. In `Vision` the shapes are smaller than the
input, square, oblong, and so long that a crop and a half fits; a grid of 5 or 7
has a last row that is not full, a grid of 0 no instance; two views are the fewest
that can be mixed up. `MaxSends`, `MaxCrashes`, `MaxLost`, `MaxFaults`, `MaxTime` and
`MaxUpload` are the bounds on what is unbounded in reality. No symmetry is
declared: the archives differ in format, the clients and attempts in role, and
the liveness runs exclude it.

**Deadlock** is checked except in the two runs of `Registry`, where every
submission ends by its bound on sending, in `gateway`, where the clock, the
requests and the images run out, and in `vision`, which is one call.
`Inference` and `Ingest` have an explicit step `Quiet` (`Boards`: `AllSettled`)
for the state in which everything was answered, so that any other stop is an
error.

**Fairness** is weak and only on work that was started: a thread inside the
runner (`RunnerFairSpec`), a request that arrived (`FairSpec` of `Inference`),
a request in the database (`ActivationFairSpec`), a handler and a queued job
(`FairSpec` of `Ingest`), those and the readers, whose deadline passes
(`BoardsFairSpec`), a boot (`FairSpec` of `Gateway`: docker's restart policy).
The code justifies it: the interpreter schedules every thread, `with self._lock` and `with pool.connection()` end on every path, the
event loop resumes a handler whose upload is read, Postgres wakes a waiter and
aborts one of a cycle. Calls, arrivals, uploads not yet begun, failures and
crashes are never owed. In `Ingest` an attempt is taken to have arrived when the
run starts, in any order, so `Handle` includes its first step. Weak fairness is
enough where a lock is contended because the requests are finitely many.

## 4. What the code does and its documents do not say

Five runs end in a counterexample; each checks one sentence of the repository.

1. **`attribution`** (routes.py:302). "Run the active (or given) model over a
   stored board and append a row" (routes.py:281). Job 1 finds model A in the
   slot; an activation makes B active; job 2 loads B; job 1 predicts with B and
   inserts the row under A. Nothing holds the slot between check and predict.
   A try goes wrong in the same way around its awaited uploads.
2. **`archive_lost`** (routes.py:52, 69). "A model version's prediction history
   can never be silently redefined" (README.md:297). The second upload of a
   registered (model_id, version) overwrites the registered archive before the
   INSERT is refused, and the 409 path then unlinks it: the row stays, its file
   is gone, and the next load fails.
3. **`inference_lost`** (routes.py:248). "Retrying is always safe"
   (README.md:152). Inference is queued only by an attempt that stored a new
   view. If the attempt that stored the last one fails before it queues, or the
   process dies with the queued job, every retry sees only duplicates and is
   acknowledged; no job ever runs.
4. **`edge_lost`** (routes.py:244). The server "keeps both predictions"
   (README.md:6). The edge prediction is stored only by the attempt that created
   the board row. If that attempt fails after the row, the retry is acknowledged
   and its edge prediction dropped.
5. **`rerun_recovers`** (setup-jetson.sh:343 and others). "Every step is
   idempotent: re-running is safe and is how you recover from a partial run"
   (setup-jetson.sh:11). Steps test for their *first* effect and skip the rest.
   Cut off after `fallocate`, the next run reports "swap file present" and
   leaves the board without swap. The same pattern passes over a mounted disk
   without its fstab line, an empty `.env` and an empty key marker.

Seen while reading, and not stated by a run of its own:

* registration "rejects anything malformed with a 422" (README.md:196), but a
  manifest that is JSON of another shape raises a `TypeError` in
  `parse_metadata`, is answered 500 and leaves its file (routes.py:54; the model
  has it, `ValidateRaises`);
* a `write_bytes` that raises, on a full disk say, leaves part of the archive
  under a path no row names, or under that of a registered model (routes.py:52;
  the model has it, `WriteFails`);
* a connection lost under the COMMIT of the INSERT raises, and line 69 unlinks the
  archive of a row that is there (routes.py:68-69; the model has it,
  `InsertAnswerLost`);
* a database error in `active_model` ends a job without either row
  (routes.py:286; the model has it, `InferLookupRaises`);
* an answer may tell the backend and provider of a model that did not compute it
  (routes.py:372-373, web.py:300; the model has it, `gone`), and the console
  reports a load that succeeded as failed when the provider is cleared between
  its two reads (web.py:322-323: `", " + None`; the model has it, `AnswerAgain`);
* a view beyond the first `max_views` of the board is never looked at, and a board
  sent in parts is predicted on its first part again (routes.py:300-301; the
  model has it, `JobReads`);
* `meta` or `edge_prediction` that is JSON of another shape is answered 500 after
  the views are stored, so every retry is of duplicates and brings no job
  (routes.py:239-241, 262-273; the model has it, `EdgeRaises`);
* a wait ends on any server prediction of the board, one from before the upload
  included (routes.py:457; the model has it, `Poll`);
* `a__b`+`c` and `a`+`b__c` give one archive path (routes.py:50; the `registry`
  run has two such names);
* two admins can revoke each other at once (web.py:392; the model has it);
* `print_access` reads `$key`, which is unset after a failed `create_key`, so
  `set -u` ends the script there (setup-jetson.sh:800; the model has it, `NoKey`);
* a view that an attempt stored before it failed on its next, undecodable one is
  a duplicate to every other attempt: a retry without the bad image is
  acknowledged and brings no job, though no call failed (routes.py:211, 248);
  the server then has the board and never looks at it;
* the marker of the admin key is a file under `$DATA_DIR` (setup-jetson.sh:692),
  which is on the NVMe disk as soon as that is mounted, while the containers go on
  with their database on the boot disk until docker is restarted: after `deploy`
  without the disk, `nvme deploy` mints a second key in the old database and files
  it on the new disk, and the full run that moves the stack there finds the
  marker and leaves the new database without an admin key (the `setup` run has
  this history; section 3 says what the properties make of it);
* a second `nvme-boot` overwrites its backup of extlinux.conf (402);
* a `board_id` used by two devices files one's views under the other's board
  (routes.py:189);
* an image model in patch mode sends K crops as a batch, and `_classification`
  reads the logits of the first only (runner.py:178); a mask of more than 256
  classes wraps (runner.py:224; the model has it, `Mask`).

## 5. What is proved

TLC checks the instances of section 3; the theorems hold for any number of
threads, archives, clients, rows, tasks, submissions, attempts, views, readers,
images, keys, links, photos, manifests, plans and faults. Each module of proofs
has its inductive invariant (`Ingest_proofs` and `Setup_proofs` several, each
resting on the one before), a lemma that `Init` establishes it, a lemma that
every step keeps it (one step per action), and a theorem per property. TLC found the invariants to hold on the instances of
section 3 before they were proved.

| Theorem | Property |
|---|---|
| `ModelRunner_proofs`: `TypeCorrect`, `SlotConsistent`, `AtMostOneResident`, `PredictionsCoherent`, `IdLast` | `TypeOK`, `RunnerConsistent`, `OneResident`, `ForwardCoherent`, `IdPublishedLast` |
| `RefinesSlot` | `ImplementsSlot` |
| `Inference_proofs`: `RefinesRunner` | `ImplementsRunner` |
| `RouteTypeCorrect`, `UndisturbedIsSound`, `EveryOutcomeRecorded`, `UnloadsItsOwn` | `RouteTypeOK`, `UndisturbedSound`, `OutcomeRecorded`, `UndisturbedUnload` (an action property) |
| `Activation_proofs`: `ActivationTypeCorrect`, `OneActive`, `NeverLost` | `ActivationTypeOK`, `OneActivePerTask`, `ActiveNeverLost` (an action property) |
| `RefinesRegister` | `ImplementsRegister` |
| `Registry_proofs`: `RefinesActivation`, `RegistryOneActive` | `ImplementsActivation`, and `OneActivePerTask` of the registry |
| `RegistryTypeCorrect`, `RowsDescribeUploads`, `RegisteredMeansActive`, `ArchiveStays`, `NoOrphans` | `RegistryTypeOK`, `RowDescribesUpload`, `RegisteredActive`, `ArchiveKept`, `NoOrphanFile` |
| `Ingest_proofs`: `IngestTypeCorrect`, `RowsPointAtObjects`, `AckedIsStored`, `NoInsertConflict`, `AtMostOneEdge`, `OwnEdgeIsCompared` | `IngestTypeOK`, `RowsHaveObjects`, `AckedViewsStored`, `InsertNeverConflicts`, `OneEdge`, `OwnEdgeCompared` |
| `InferredIfNothingFails`, `EdgeKeptIfNothingFails` | `InferredWithoutFaults`; `EdgeKept` without faults, under `AllCarryEdge` |
| `IngestBesideReads`, `ReadsAreCoherent`, `WaitsBringPredictions` | the same of `BoardsSpec`; `ReadCoherent`, `WaitBringsPrediction` |
| `Gateway_proofs`: `TypeCorrect`, `SchemaSafe`, `LinksLogInOnce`, `RevokedKeysActNoMore`, `AnAdminStays` | `TypeOK`, `SchemaFollowsRecord`, `LinkOnce`, `RevokedActsNoMore`, `AdminStays` |
| `Vision_proofs`: `GridInside`, `PreprocessInside` | about the operators `GridBoxes` and `preprocess_view` |
| `InstancesStayInside`, `AttentionStaysOwn` | `InstancesInside`, `AttentionIsOwn` |
| `Setup_proofs`: `SetupTypeCorrect`, `PasswordKept`, `FullRunServes` | `SetupTypeOK`, `DbPasswordKept`, `RunServes` |
| `KeysAreFiled`, `CleanRunsInstall` | `KeysFiled`, `CleanRunInstalls` |

**Assumptions.** For all but one theorem only the named ones of the modules: `None`, `Nobody` and the
file states `Absent` and `Torn` are not themselves models, rows or contents;
`OnnxModels`, `TaskOf`, `ViewsOf` and the others have their types; an attempt
has at least one view (a required form field, routes.py:167); a plan has at least one
step, and each is one of the five; `max_views` is at least 1; an earlier installation applied each of its files once; at least one admin
key was made; photos have pixels, and a manifest's sizes and counts are
natural numbers (`parse_metadata` does not check that). `CompatibleAssumption` is not used: a mix-up of weights and manifest is
excluded whether or not it would raise.

One theorem has a hypothesis of its own, because without it it is false:
`AllCarryEdge` (`EdgeKeptIfNothingFails`). Every attempt carries an edge
prediction, images that decode, and JSON that raises nothing. One that makes the
board's row and then meets an image that does not decode takes the edge
prediction with it, with no fault.

**Why the properties are not inductive, and what is.**

* *Slot.* `RunnerConsistent` speaks of the moments when the lock is free, so it
  says nothing about the state from which the lock is released. `IInv` adds
  `Mutex` (exactly the thread inside a locked region holds the lock) and
  `SlotAt`: for every label of the holder, which of model, meta, id, backend and
  provider are set already, and to which archive. At the last assignment of a load
  or an unload, `SlotAt` gives a slot of one model or none. `FrameAt` says what
  the forward pass captured is still what the slot holds, as no other thread
  can assign to it; hence `ForwardCoherent`.
* *Requests.* `RefinesRunner` gives `IInv` for free. `RouteInv` adds the place of
  a request in its call (`CallAt`, `LocalsAt`) and, for one that nobody has
  overtaken, what it may count on (`HeldAt`): from the second read of
  `is_loaded` to the forward pass the slot's model, manifest and id are the
  request's own. A step of another thread keeps this because, while there are
  weights in the slot, it either evicts them (and overtakes) or leaves all
  three alone (`OnlyEviction`, from `SlotAt`); that two unlocked reads suffice to
  establish it is `IdPublishedLast`. `AnswerAt` goes on from there, as long as
  the model is not `gone`: what has been told of backend and provider is the
  model's, and the slot still says so. `TraceAt` ties a job's end to its row, or to
  `unrecorded`.
* *Activation.* That the index admits one row is not enough: the client may
  commit long after its check. `PastIndex` says that a transaction past the
  check replaces the only active row of its task, `OnePastIndex` that it is
  alone there, `LocksExclude` that a row has one writer, `TxAt` that the
  incumbent it deactivated is still active and still of its task.
* *Registration.* `RInv` adds that the event loop belongs to the handler that
  has written its file (`HandlerAt`), so the manifest it read back is that of
  its upload; `ActivationOf` ties the place of a submission to the place of the
  activation it called; `FInv` follows the file: `ArchiveSafe` adds that no
  handler is past the opening of the path of a row it has not `rewritten`, so
  none can unlink its archive. `RefinesActivation` maps each
  step of the registry to a step of `ActivationNext` or none, so the theorems
  of `Activation_proofs` carry over; `RegistryOneActive` is such a consequence.
* *Ingest.* `HandlerAt` says what a handler still knows between two steps that
  it does not give up the loop between, and forgets when it awaits: that the
  view it is storing is nobody else's yet, and which of its objects exist.
  `CreatedOnce` and `JobAt` relate the attempt that made the board, its edge
  prediction and its job.
* *Reads.* `BoardsInv` adds `ReaderAt`: from `ReadViews` to the answer the
  reader keeps the loop, so its list is still all the views there are
  (`list[r] = views`), as only uploads add views. With `ResultsInv` (what a job
  has listed and read, and what it left, is of stored views, and it listed those
  of its own attempt) the second query can only bring predictions over listed views.
* *Schema.* `Open` says what the connection holds between two commits: nothing,
  or exactly the next file and perhaps its record; and that what a boot has
  still to do and what is recorded share nothing and together are the image.
* *Keys and links.* `LinkHeld`: a link is in the dictionary, or with the one
  request that popped it, or has logged in, and never two of these.
  `RequestAt`: past its check a request's key was not revoked when it arrived,
  and a request about to revoke names another key than its own and is an
  admin; so, if that UPDATE takes the last admin away, its own key was revoked
  meanwhile.
* *Vision.* `GridInside` rests on `OffsetInRoom` (a rounded i*room/(n-1) is at
  most room), `RowsSuffice` (the rows hold k boxes) and division with
  remainder; `PreprocessInside` on `NearestAtLeast` (enlarging or shrinking the
  short side to t leaves both sides at least as long as the crop). `VInv` adds
  `Packed`: the j-th instance of view i is at (i-1)*k+j, which holds since the
  number of instances of a view depends on the manifest alone.
* *Inference and edge without faults.* `FoundAt` says of what a job has listed
  that it reaches up to every view its attempt has stored, in the order of
  `created_at`; that order only grows at its end (`OrderGrows`), and an attempt
  that has a job stores no more. So the list of the job of the one that stored the
  last of some views has them all, and `InferInv` says that without a fault each
  acknowledged attempt that asked and stored a view has such a job, at work or
  with its row. `MakerStoresEdge` follows the one attempt that made the board.
* *Provisioning.* `EnvWritten`: `.env` is opened only when it is absent, and
  while it is being written there is no database under `$DATA_DIR`, since those
  are only made by containers with a password (the ones that the unit starts
  without an `.env` have theirs beside docker-compose.yml). `StackOpens` ties
  the running containers' password to their database and to `.env`,
  `DockerLoaded` what docker has read to what is in daemon.json, and `RunAt`
  says what a full run has behind it at each step and (`Ahead`) before it: that
  is `RunServes` at its end.
* *Admin keys.* A data directory without a marker *owes* a key (`Owed`): the next
  deploy will mint one. Every step is of one of four kinds (`Accounts`): no key
  comes and each directory owes what it did, or one comes and its directory owes
  no more, or one comes and is lost by a fault, or a fault forgets one before its
  marker. So keys and debts together never exceed two and the faults (`KInv`),
  which is `KeysFiled` once a run is over.
* *Runs without a fault.* Whatever is run by name, what a step has done stays
  done: `.env` (`EnvDone`), the mount (`DiskDone`), the swap (`SwapWay`), the move
  of the containers (`StackMoved`), the markers (`MarkerWhole`). `KeysPlaced`
  lists the three ways the keys can lie in the two databases, `BootKeyed` says
  when the boot disk's directory has its marker, so that the disk, mounted under
  its containers, cannot get one more key minted than there are directories;
  `FullRunDone` says what a full run has behind it. Together they are `Clean`.

**Refinement.** `RefinesSlot` maps the resident model to `model` and the
served model to the weights of each thread's last result: `PublishModel` fills,
`EvictModel` evicts, `CallPredict` asks, `ForwardReturn` serves, and every other
assignment is a stutter. `RefinesRegister` maps a task's register to its one active row:
`Commit` is the write, a unique violation, rollback, deadlock or crash a
refusal, everything else a stutter; that `Commit` changes just one register is
`PastIndex`.

## 6. What is only model-checked

* Liveness (`RequestsEnd`, `ActivationAnswered`, `Settles`, `WaitEnds`, `Boots`): it
  rests on fairness and on which actions are enabled, which the installed
  provers do not treat.
* The properties that a run refutes, of course.

## 7. Abstractions and assumptions

* Data that no property tells apart are not there: pixels, labels, scores,
  sizes, times, names. An archive is one value; a batch that fails on a model
  is a choice of `ForwardRaise` limited by `Compatible`.
* A statement of `_activate`, of a migration or of a job that raises has not taken
  effect. For the others both outcomes are modelled: in `Registry`
  `InsertFails` and `InsertAnswerLost`, in `Ingest` a call whose answer is lost is
  one that fails at the next label (`CallFails`). A lost answer to the INSERT of a
  job's prediction would leave a prediction and an errors row.
* `Inference` has one task. Its `NoViews` does not occur in a job that `Ingest`
  queues, whose attempt has stored a view.
* `Registry` restarts at once after a crash: the container has a restart policy
  (docker-compose.yml). Files written and closed survive it; what the page cache
  loses with the power does not concern a crash of the process.
* In `Access` a request with a text that is no key presents a key that was never
  made; `last_used_at` and the cookie's lifetime are left out, and a cookie is
  changed when the answer is sent. Login tokens are random, so none comes twice.
* In `Migrate` a failing COMMIT has not taken effect (a file that was
  committed is recorded in the same transaction, so the next boot would pass
  over it), and `ensure_bucket` is part of the step that ends start-up.
* `Vision` sees of the model's output only the winner of each item: no
  probabilities, margins or confidences, no tta, no ONNX outputs. What another
  thread may do to the slot during the call is in `ModelRunner`.
* `Ingest` is one `board_id` of one device; boards share nothing but the event
  loop, and attempts of other boards only add waits.
* One uvicorn process. With several, the slot, the event loop's exclusion in
  `Registry` and `Ingest`, and the queue would be per process.
* `Setup`: the NVMe disk is formatted; a `daemon.json` that does not parse is
  one without keys; containers may or may not come back with docker (they do
  when they exist and were not stopped), and both are checked; `docker compose
  up` finds a stopped docker through its socket; the unit waits for the disk
  when fstab names it. Commands that only look, install packages, set power
  modes, the desktop, zram and Tailscale are left out.

## 8. Not modelled

| Part | Why |
|---|---|
| `list_boards` (`routes.py` 386-437) | one SELECT; which prediction stands for a board is decided by `created_at` inside it, and no other step reads its answer |
| Log buffer (`logbuffer.py`) | one bounded deque; appending and copying are each one step of the interpreter, and nothing is decided by it |
| Metrics (`metrics.py`) | reads of /proc and /sys and two aggregates; no state |
| Rendering (`web.py`, templates), health, settings, dashboards | pure input and output |
| tta, decoding of ONNX outputs, probabilities (`runner.py` 420-460, 486-497) | floating-point arithmetic on tensors, which none of the properties is about |
| The second copy of the weights in `read_metadata` (runner.py:101) | the copy belongs to no state of the gateway; how much memory two copies need is not in the code |
| `ensure_bucket`, connection pool | plumbing; failing calls are steps of the modules that make them |
| `make_seed_models.py`, `stamp_onnx_metadata.py`, `export_onnx.ipynb` | build or stamp a model file once, by hand; what they write is read as any upload |
| `nvme-format`, `nvme-boot`, package steps, power modes, Tailscale | destructive, run by hand once, or without an effect on what the other steps rely on |
