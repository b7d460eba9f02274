------------------------------- MODULE Ingest -------------------------------
(***************************************************************************)
(* POST /v1/boards (gateway/app/routes.py, ingest_board) for one board_id, *)
(* and the background inference it queues.  Several attempts name the same *)
(* board: a client that retries, or sends it in parts.                     *)
(*                                                                         *)
(* Handlers run on the one event loop and give it up only where they await *)
(* an upload; the background jobs run beside them in the thread pool; each *)
(* statement commits on its own; the object store and the database can     *)
(* fail, and the process can die, between any two of them.  Jobs queued in *)
(* memory die with it.  The model slot is left to Inference: here a job    *)
(* reads the board, predicts or fails, and leaves a row.                   *)
(***************************************************************************)
EXTENDS Naturals, Sequences, FiniteSets, SequencesExt

CONSTANTS
  Attempts,     \* the requests, each sent once
  Images,       \* image bytes, told apart by their sha256
  ViewsOf,      \* the views of each attempt, in order
  HasEdge,      \* the attempts that carry an edge prediction
  RunInference, \* those sent with run_inference
  Undecodable,  \* images make_preview raises on
  Malformed,    \* the attempts whose meta or edge prediction is JSON of a shape
                \* that ingest_board does not foresee
  MaxViews,     \* the max_views of the manifests in the slot
  MaxFaults,    \* bound: failing calls and crashes
  None

ASSUME IngestAssumption ==
  /\ ViewsOf \in [Attempts -> Seq(Images)]
  /\ \A a \in Attempts : ViewsOf[a] # <<>>
  /\ HasEdge \subseteq Attempts /\ RunInference \subseteq Attempts
  /\ Undecodable \subseteq Images
  /\ Malformed \subseteq Attempts
  /\ MaxViews \subseteq Nat \ {0}
  /\ MaxFaults \in Nat
  /\ None \notin Attempts \cup Images

VARIABLES
  exists,     \* whether the board has its row in table boards
  views,      \* the images with a row in table views
  order,      \* the same, ORDER BY created_at
  originals,  \* the images whose original is in the object store
  previews,   \* those whose preview is
  edges,      \* the attempts whose edge prediction has a row
  results,    \* the rows a job left: server predictions and errors
  at,         \* where each handler is
  k,          \* the view it works on
  created,    \* its local `created`
  fresh,      \* the images it has stored itself (its non-duplicates)
  loop,       \* the handler on the event loop, or None
  job,        \* the background task of each attempt
  found,      \* the views stored when it was queued, then those it listed
  read,       \* the images it fetched of these, and predicts on
  compared,   \* whether its job found an edge prediction
  faults

board == <<exists, views, order, originals, previews, edges>>
handler == <<at, k, created, fresh, loop>>
jobs == <<job, found, read, compared, results>>
vars == <<board, handler, jobs, faults>>

OnLoop == {"check", "put", "preview", "insert", "edge", "queue"}
Ended == {"acked", "failed"}
Running == {"queued", "compare", "record"}

IngestTypeOK ==
  /\ exists \in BOOLEAN
  /\ views \subseteq Images
  /\ order \in Seq(Images)
  /\ originals \subseteq Images /\ previews \subseteq Images
  /\ edges \subseteq Attempts
  /\ results \subseteq [job : Attempts, kind : {"prediction", "error"},
                        found : SUBSET Images, images : SUBSET Images,
                        compared : BOOLEAN]
  /\ at \in [Attempts -> {"new", "await"} \cup OnLoop \cup Ended]
  /\ k \in [Attempts -> Nat]
  /\ \A a \in Attempts : k[a] \in 1..Len(ViewsOf[a]) + 1
  /\ created \in [Attempts -> BOOLEAN]
  /\ fresh \in [Attempts -> SUBSET Images]
  /\ loop \in Attempts \cup {None}
  /\ job \in [Attempts -> {"none", "ended"} \cup Running]
  /\ found \in [Attempts -> SUBSET Images]
  /\ read \in [Attempts -> SUBSET Images]
  /\ compared \in [Attempts -> BOOLEAN]
  /\ faults \in 0..MaxFaults

Init ==
  /\ exists = FALSE
  /\ views = {} /\ order = <<>>
  /\ originals = {} /\ previews = {} /\ edges = {} /\ results = {}
  /\ at = [a \in Attempts |-> "new"]
  /\ k = [a \in Attempts |-> 1]
  /\ created = [a \in Attempts |-> FALSE]
  /\ fresh = [a \in Attempts |-> {}]
  /\ loop = None
  /\ job = [a \in Attempts |-> "none"]
  /\ found = [a \in Attempts |-> {}]
  /\ read = [a \in Attempts |-> {}]
  /\ compared = [a \in Attempts |-> FALSE]
  /\ faults = 0

Image(a) == ViewsOf[a][k[a]]
Go(a, label) == at' = [at EXCEPT ![a] = label]

\* On to the next view, whose upload is awaited, or to what follows the loop.
\* The locals that are read again after an await stay in fresh and k.
NextView(a) ==
  /\ k' = [k EXCEPT ![a] = @ + 1]
  /\ IF k[a] < Len(ViewsOf[a])
       THEN Go(a, "await") /\ loop' = None
       ELSE Go(a, "edge") /\ UNCHANGED loop

Faulty == faults < MaxFaults /\ faults' = faults + 1

----------------------------------------------------------------------------
(* The handler.                                                            *)

\* The board row is found, or inserted.
OpenBoard(a) ==
  /\ at[a] = "new"
  /\ loop = None
  /\ created' = [created EXCEPT ![a] = ~exists]
  /\ exists' = TRUE
  /\ Go(a, "await")
  /\ UNCHANGED <<views, order, originals, previews, edges, k, fresh, loop, jobs,
                 faults>>

\* raw = await upload.read() is over: the handler is back on the event loop.
Resume(a) ==
  /\ at[a] = "await"
  /\ loop = None
  /\ loop' = a
  /\ Go(a, "check")
  /\ UNCHANGED <<board, k, created, fresh, jobs, faults>>

\* Mutant: the object store is awaited, and the event loop serves others.
CheckDuplicateThenAwait(a) ==
  /\ at[a] = "check"
  /\ IF Image(a) \in views
       THEN NextView(a)
       ELSE Go(a, "put") /\ loop' = None /\ UNCHANGED k
  /\ UNCHANGED <<board, created, fresh, jobs, faults>>

\* A view the board already has is a duplicate.
CheckDuplicate(a) ==
  /\ at[a] = "check"
  /\ IF Image(a) \in views
       THEN NextView(a)
       ELSE Go(a, "put") /\ UNCHANGED <<k, loop>>
  /\ UNCHANGED <<board, created, fresh, jobs, faults>>

\* storage.put of the original, untouched.
PutOriginal(a) ==
  /\ at[a] = "put"
  /\ originals' = originals \cup {Image(a)}
  /\ Go(a, "preview")
  /\ UNCHANGED <<exists, views, order, previews, edges, k, created, fresh, loop,
                 jobs, faults>>

\* Mutant: the preview is left for later.
PutPreviewLater(a) ==
  /\ at[a] = "preview"
  /\ Image(a) \notin Undecodable
  /\ Go(a, "insert")
  /\ UNCHANGED <<board, k, created, fresh, loop, jobs, faults>>

\* make_preview and storage.put of its result.
PutPreview(a) ==
  /\ at[a] = "preview"
  /\ Image(a) \notin Undecodable
  /\ previews' = previews \cup {Image(a)}
  /\ Go(a, "insert")
  /\ UNCHANGED <<exists, views, order, originals, edges, k, created, fresh, loop,
                 jobs, faults>>

\* Mutant: a view that does not decode is skipped.
PreviewRaisesSkips(a) ==
  /\ at[a] = "preview"
  /\ Image(a) \in Undecodable
  /\ NextView(a)
  /\ UNCHANGED <<board, created, fresh, jobs, faults>>

\* PIL raises on the image: the request ends in a 500, its board row stays.
PreviewRaises(a) ==
  /\ at[a] = "preview"
  /\ Image(a) \in Undecodable
  /\ Go(a, "failed")
  /\ loop' = None
  /\ UNCHANGED <<board, k, created, fresh, jobs, faults>>

\* Mutant: the job starts as soon as a view is stored.
InsertViewQueues(a) ==
  /\ at[a] = "insert"
  /\ Image(a) \notin views
  /\ views' = views \cup {Image(a)}
  /\ order' = Append(order, Image(a))
  /\ fresh' = [fresh EXCEPT ![a] = @ \cup {Image(a)}]
  /\ NextView(a)
  /\ job' = [job EXCEPT ![a] = IF job[a] = "none" THEN "queued" ELSE job[a]]
  /\ found' = [found EXCEPT ![a] = views']
  /\ UNCHANGED <<exists, originals, previews, edges, created, read, compared,
                 results, faults>>

\* INSERT INTO views; a second row for the image is a unique violation.
InsertView(a) ==
  /\ at[a] = "insert"
  /\ Image(a) \notin views
  /\ views' = views \cup {Image(a)}
  /\ order' = Append(order, Image(a))
  /\ fresh' = [fresh EXCEPT ![a] = @ \cup {Image(a)}]
  /\ NextView(a)
  /\ UNCHANGED <<exists, originals, previews, edges, created, jobs, faults>>

\* Mutant: every attempt stores its edge prediction.
StoreEdgeAlways(a) ==
  /\ at[a] = "edge"
  /\ edges' = IF a \in HasEdge THEN edges \cup {a} ELSE edges
  /\ Go(a, "queue")
  /\ UNCHANGED <<exists, views, order, originals, previews, k, created, fresh,
                 loop, jobs, faults>>

\* if edge and created: _store_edge_prediction.
StoreEdge(a) ==
  /\ at[a] = "edge"
  /\ edges' = IF a \in HasEdge /\ created[a] THEN edges \cup {a} ELSE edges
  /\ Go(a, "queue")
  /\ UNCHANGED <<exists, views, order, originals, previews, k, created, fresh,
                 loop, jobs, faults>>

\* The UPDATE of the device reads meta and edge (239-241), and the creator's
\* edge prediction is taken apart (262-273): on JSON of another shape one of them
\* raises, after the views were stored.  Which one, and whether one does, depends
\* on the field and on the key having a device: so StoreEdge may happen as well.
EdgeRaises(a) ==
  /\ at[a] = "edge"
  /\ a \in Malformed
  /\ Go(a, "failed")
  /\ loop' = None
  /\ UNCHANGED <<board, k, created, fresh, jobs, faults>>

\* Mutant: only the attempt that created the board queues a job.
QueueIfCreated(a) ==
  /\ at[a] = "queue"
  /\ job' = [job EXCEPT ![a] = IF a \in RunInference /\ created[a]
                                 THEN "queued" ELSE "none"]
  /\ found' = [found EXCEPT ![a] = views]
  /\ Go(a, "acked")
  /\ loop' = None
  /\ UNCHANGED <<board, k, created, fresh, read, compared, results, faults>>

\* The job is queued if a view was new, and the client gets its answer.
QueueAndAnswer(a) ==
  /\ at[a] = "queue"
  /\ job' = [job EXCEPT ![a] = IF a \in RunInference /\ fresh[a] # {}
                                 THEN "queued" ELSE "none"]
  /\ found' = [found EXCEPT ![a] = views]
  /\ Go(a, "acked")
  /\ loop' = None
  /\ UNCHANGED <<board, k, created, fresh, read, compared, results, faults>>

\* A call to the object store or the database raises: 500.  A call of the
\* previous label that took effect, while its answer was lost, is one that fails
\* here; only the INSERT of the board row is in the same step as the calls around it.
CallFails(a) ==
  /\ Faulty
  /\ \/ at[a] \in OnLoop /\ UNCHANGED exists
     \/ at[a] = "new" /\ loop = None /\ exists' \in {exists, TRUE}
  /\ Go(a, "failed")
  /\ loop' = None
  /\ UNCHANGED <<views, order, originals, previews, edges, k, created, fresh, jobs>>

----------------------------------------------------------------------------
(* run_server_inference, in the thread pool.                               *)

\* views[:n], the views in the order they were stored
First(n) == {order[i] : i \in {j \in DOMAIN order : j <= n}}

\* SELECT object_key FROM views ORDER BY created_at; of the first max_views, by
\* the manifest in the slot, the originals are fetched and predicted on.  There
\* are views: the attempt that queued the job has stored one, so the return of
\* 298-299 is not taken here.
JobReads(a) ==
  /\ job[a] = "queued"
  /\ views # {}
  /\ found' = [found EXCEPT ![a] = views]
  /\ \E n \in MaxViews :
       /\ First(n) \subseteq originals
       /\ read' = [read EXCEPT ![a] = First(n)]
  /\ job' = [job EXCEPT ![a] = "compare"]
  /\ UNCHANGED <<board, handler, compared, results, faults>>

\* The prediction is there; _compare_to_edge looks for an edge row.
JobCompares(a) ==
  /\ job[a] = "compare"
  /\ compared' = [compared EXCEPT ![a] = edges # {}]
  /\ job' = [job EXCEPT ![a] = "record"]
  /\ UNCHANGED <<board, handler, found, read, results, faults>>

Row(a, kind, images) ==
  [job |-> a, kind |-> kind, found |-> found[a], images |-> images,
   compared |-> compared[a]]

JobLeaves(a, kind, images) ==
  /\ results' = results \cup {Row(a, kind, images)}
  /\ job' = [job EXCEPT ![a] = "ended"]
  /\ UNCHANGED <<board, handler, found, read, compared, faults>>

\* Mutant: a job that failed is queued again.
JobFailsRetries(a) ==
  /\ job[a] \in Running
  /\ results' = results \cup {Row(a, "error", {})}
  /\ job' = [job EXCEPT ![a] = "queued"]
  /\ UNCHANGED <<board, handler, found, read, compared, faults>>

\* The row is appended, or, whatever raised on the way (no active model, a
\* failed load or predict), an errors row is, which looked at nothing.
JobRecords(a) == job[a] = "record" /\ JobLeaves(a, "prediction", read[a])
JobFails(a) == job[a] \in Running /\ JobLeaves(a, "error", {})

----------------------------------------------------------------------------
\* The process dies and restarts: handlers and queued jobs are gone.
Crash ==
  /\ Faulty
  /\ at' = [a \in Attempts |-> IF at[a] \in OnLoop \cup {"await"} THEN "failed"
                                                                   ELSE at[a]]
  /\ loop' = None
  /\ job' = [a \in Attempts |-> IF job[a] \in Running THEN "ended" ELSE job[a]]
  /\ UNCHANGED <<board, k, created, fresh, found, read, compared, results>>

Handle(a) ==
  \/ OpenBoard(a) \/ Resume(a) \/ CheckDuplicate(a)
  \/ PutOriginal(a) \/ PutPreview(a) \/ PreviewRaises(a) \/ InsertView(a)
  \/ StoreEdge(a) \/ EdgeRaises(a) \/ QueueAndAnswer(a)

RunJob(a) == JobReads(a) \/ JobCompares(a) \/ JobRecords(a) \/ JobFails(a)

Settled ==
  /\ \A a \in Attempts : at[a] \in Ended
  /\ \A a \in Attempts : job[a] \notin Running

Quiet == Settled /\ UNCHANGED vars

Next ==
  \/ \E a \in Attempts : Handle(a) \/ CallFails(a) \/ RunJob(a)
  \/ Crash
  \/ Quiet

Spec == Init /\ [][Next]_vars

\* The event loop resumes every handler whose upload is read, and the thread
\* pool runs every job.  Faults are not owed.
FairSpec ==
  Spec /\ \A a \in Attempts : WF_vars(Handle(a)) /\ WF_vars(RunJob(a))
----------------------------------------------------------------------------
\* A view row never points at an object that is not there: a crash or a failed
\* put leaves objects without rows, never rows without objects.
RowsHaveObjects == views \subseteq originals /\ views \subseteq previews

\* What the answer says is stored is stored, the duplicates too: the attempt
\* that stored them may itself have failed or still be under way.
AckedViewsStored ==
  \A a \in Attempts : at[a] = "acked" => ToSet(ViewsOf[a]) \subseteq views

\* Between the duplicate check of a view and its INSERT nobody else inserts it:
\* the handler never meets UNIQUE (board, image_hash), however attempts overlap.
InsertNeverConflicts ==
  \A a \in Attempts :
    at[a] \in {"put", "preview", "insert"} => Image(a) \notin views

\* One edge prediction per board, from the attempt that made the board.
OneEdge == Cardinality(edges) <= 1

\* The job of the attempt that stored the edge prediction is compared with it.
OwnEdgeCompared ==
  \A r \in results : r.job \in edges => r.kind = "error" \/ r.compared

\* The job that left r ran over a board that had all the views of a: it listed
\* them, to look at the first max_views of the board's, or it gave up before and
\* was queued when they were all stored.
Covers(r, a) == ToSet(ViewsOf[a]) \subseteq r.found

\* Once everything has run, every acknowledged attempt that asked for inference
\* has the row of a job, its own or another's, that ran over all its views: a
\* prediction, or the error that there is none.
AckedInferred ==
  Settled =>
    \A a \in RunInference : at[a] = "acked" => \E r \in results : Covers(r, a)

\* The attempt c stored the last of the views of a: those before are First(n).
Completes(c, a) ==
  \E n \in DOMAIN order :
    /\ order[n] \in fresh[c] \cap ToSet(ViewsOf[a])
    /\ ToSet(ViewsOf[a]) \subseteq First(n)

\* ... as they have if no call failed and nothing crashed, in whatever order the
\* attempts overlapped, if the attempt that stored the last of the views asked
\* for inference and was acknowledged: its job runs over them all.
InferredWithoutFaults ==
  faults = 0 /\ Settled =>
    \A a \in Attempts, c \in RunInference :
      at[c] = "acked" /\ Completes(c, a) => \E r \in results : Covers(r, a)

\* The edge prediction of an acknowledged attempt is there to compare.
EdgeKept ==
  Settled /\ (\E a \in HasEdge : at[a] = "acked") => edges # {}

\* Every attempt is answered and every job ends.
Settles == <>Settled
=============================================================================
