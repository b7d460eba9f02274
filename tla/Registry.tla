------------------------------ MODULE Registry ------------------------------
(***************************************************************************)
(* The model registry: save_and_register (gateway/app/routes.py), which    *)
(* writes the archive file, validates it, inserts the row and, on request, *)
(* activates it, composed with the activations of other requests.          *)
(*                                                                         *)
(* The handlers are async and save_and_register never awaits, so on the    *)
(* one event loop registrations do not interleave with each other; they do *)
(* interleave with activations in the thread pool, and the process can die *)
(* between any two steps.  A submission is one upload a client makes; it   *)
(* may send it again, when it saw no answer or in spite of one.            *)
(***************************************************************************)
EXTENDS Activation

CONSTANTS
  Submissions,   \* what is uploaded; also the id of the row it may become
  NameOf,        \* (model_id, version) of a submission
  FileOf,        \* the path its archive is written to
  ContentOf,     \* its bytes
  Valid,         \* the contents read_metadata accepts
  Malformed,     \* those on which it raises something else than ManifestError
  WantsActive,   \* the submissions sent with activate = true
  MaxSends,      \* bound: how often each submission is sent
  MaxCrashes,    \* bound: how often the process dies
  MaxLost,       \* bound: how often the connection is lost under an INSERT that
                 \* commits all the same
  Absent, Torn   \* no file; a file whose write was cut off

ASSUME SubmissionAssumption ==
  /\ Submissions = Ids
  /\ Submissions \subseteq Clients
  /\ WantsActive \subseteq Submissions
  /\ Absent \notin Valid /\ Torn \notin Valid
  /\ Malformed \cap Valid = {} /\ Absent \notin Malformed
  /\ MaxSends \in [Submissions -> Nat] /\ MaxCrashes \in Nat /\ MaxLost \in Nat

VARIABLES
  step,       \* where each submission's handler is
  loop,       \* the submission whose handler occupies the event loop
  parsed,     \* its local meta: the content its manifest was read from
  files,      \* the model directory
  manifest,   \* column meta of each row: the content it describes
  sends,      \* how often each submission was sent
  crashes,
  lost,       \* history: the rows whose INSERT committed and raised
  rewritten   \* history: the rows whose path has been opened again since

handlerVars == <<step, loop, parsed>>
history == <<lost, rewritten>>
vars == <<activationVars, handlerVars, files, manifest, sends, crashes, history>>

Contents == {ContentOf[s] : s \in Submissions}
Files == {FileOf[s] : s \in Submissions}

RegistryTypeOK ==
  /\ ActivationTypeOK
  /\ step \in [Submissions -> {"idle", "write", "close", "validate", "insert",
                               "activating", "registered", "rejected",
                               "conflict", "failed"}]
  /\ loop \in Submissions \cup {Nobody}
  /\ parsed \in [Submissions -> Contents \cup {Absent}]
  /\ files \in [Files -> Contents \cup {Absent, Torn}]
  /\ manifest \in [Submissions -> Contents \cup {Absent}]
  /\ sends \in [Submissions -> Nat]
  /\ \A s \in Submissions : sends[s] <= MaxSends[s]
  /\ crashes \in 0..MaxCrashes
  /\ lost \subseteq rows
  /\ rewritten \subseteq rows

Init ==
  /\ ActivationInit
  /\ step = [s \in Submissions |-> "idle"]
  /\ loop = Nobody
  /\ parsed = [s \in Submissions |-> Absent]
  /\ files = [f \in Files |-> Absent]
  /\ manifest = [s \in Submissions |-> Absent]
  /\ sends = [s \in Submissions |-> 0]
  /\ crashes = 0
  /\ lost = {}
  /\ rewritten = {}

InHandler(s) == step[s] \in {"write", "close", "validate", "insert", "activating"}

Go(s, label) == step' = [step EXCEPT ![s] = label]
Answer(s, label) == Go(s, label) /\ loop' = Nobody
Put(s, content) == files' = [files EXCEPT ![FileOf[s]] = content]
Unlink(s) == Put(s, Absent)

----------------------------------------------------------------------------
\* Mutant: the handler does not keep the event loop (a sync endpoint).
SubmitAnyTime(s) ==
  /\ ~InHandler(s)
  /\ sends[s] < MaxSends[s]
  /\ loop' = s
  /\ sends' = [sends EXCEPT ![s] = @ + 1]
  /\ Go(s, "write")
  /\ parsed' = [parsed EXCEPT ![s] = Absent]
  /\ UNCHANGED <<activationVars, files, manifest, crashes, history>>

\* The upload has been read: the handler runs, and keeps the event loop.
Submit(s) ==
  /\ ~InHandler(s)
  /\ loop = Nobody
  /\ loop' = s
  /\ sends[s] < MaxSends[s]
  /\ sends' = [sends EXCEPT ![s] = @ + 1]
  /\ Go(s, "write")
  /\ parsed' = [parsed EXCEPT ![s] = Absent]
  /\ UNCHANGED <<activationVars, files, manifest, crashes, history>>

\* dest.write_bytes: whatever was there is truncated ...
WriteBytes(s) ==
  /\ step[s] = "write"
  /\ Put(s, Torn)
  /\ Go(s, "close")
  /\ rewritten' = rewritten \cup {r \in rows : FileOf[r] = FileOf[s]}
  /\ UNCHANGED <<activationVars, loop, parsed, manifest, sends, crashes, lost>>

\* ... and replaced.
CloseFile(s) ==
  /\ step[s] = "close"
  /\ Put(s, ContentOf[s])
  /\ Go(s, "validate")
  /\ UNCHANGED <<activationVars, loop, parsed, manifest, sends, crashes, history>>

\* The file cannot be opened, or the disk is full: the OSError is nobody's, and
\* what was written of the file stays.
WriteFails(s) ==
  /\ step[s] \in {"write", "close"}
  /\ Answer(s, "failed")
  /\ UNCHANGED <<activationVars, parsed, files, manifest, sends, crashes, history>>

\* Mutant: a rejected upload stays on disk.
ValidateKeepsFile(s) ==
  /\ step[s] = "validate"
  /\ files[FileOf[s]] \notin Malformed
  /\ IF files[FileOf[s]] \in Valid
       THEN /\ parsed' = [parsed EXCEPT ![s] = files[FileOf[s]]]
            /\ Go(s, "insert")
            /\ UNCHANGED loop
       ELSE Answer(s, "rejected") /\ UNCHANGED parsed
  /\ UNCHANGED <<activationVars, files, manifest, sends, crashes, history>>

\* read_metadata(dest): the manifest comes from the file, not from the upload.
\* A file it rejects is unlinked and the client answered 422.
Validate(s) ==
  /\ step[s] = "validate"
  /\ files[FileOf[s]] \notin Malformed
  /\ IF files[FileOf[s]] \in Valid
       THEN /\ parsed' = [parsed EXCEPT ![s] = files[FileOf[s]]]
            /\ Go(s, "insert")
            /\ UNCHANGED <<loop, files>>
       ELSE /\ Unlink(s)
            /\ Answer(s, "rejected")
            /\ UNCHANGED parsed
  /\ UNCHANGED <<activationVars, manifest, sends, crashes, history>>

\* The manifest is JSON of another shape (a number for normalize_mean, null):
\* what parse_metadata raises is no ManifestError, and the file stays.
ValidateRaises(s) ==
  /\ step[s] = "validate"
  /\ files[FileOf[s]] \in Malformed
  /\ Answer(s, "failed")
  /\ UNCHANGED <<activationVars, parsed, files, manifest, sends, crashes, history>>

NameTaken(s) == \E r \in rows : NameOf[r] = NameOf[s]

\* Mutant: the row is inserted active, past the transaction of _activate.
InsertRowActive(s) ==
  /\ rows' = rows \cup {s}
  /\ active' = IF s \in WantsActive THEN active \cup {s} ELSE active
  /\ manifest' = [manifest EXCEPT ![s] = parsed[s]]
  /\ Answer(s, "registered")
  /\ UNCHANGED <<txVars, files>>

InsertRow(s) ==
  /\ AddRow(s)
  /\ manifest' = [manifest EXCEPT ![s] = parsed[s]]
  /\ IF s \in WantsActive
       THEN Go(s, "activating") /\ UNCHANGED loop
       ELSE Answer(s, "registered")
  /\ UNCHANGED files

\* INSERT INTO models: unique on (model_id, version); 409 unlinks the file.
Insert(s) ==
  /\ step[s] = "insert"
  /\ IF NameTaken(s)
       THEN /\ Unlink(s)
            /\ Answer(s, "conflict")
            /\ UNCHANGED <<activationVars, manifest>>
       ELSE InsertRow(s)
  /\ UNCHANGED <<parsed, sends, crashes, history>>

\* The INSERT fails for another reason: the file goes, the client gets a 500.
InsertFails(s) ==
  /\ step[s] = "insert"
  /\ Unlink(s)
  /\ Answer(s, "failed")
  /\ UNCHANGED <<activationVars, parsed, manifest, sends, crashes, history>>

\* The connection is lost under the COMMIT, which takes effect: any exception
\* unlinks the file, that of a row included.
InsertAnswerLost(s) ==
  /\ step[s] = "insert"
  /\ ~NameTaken(s)
  /\ Cardinality(lost) < MaxLost
  /\ AddRow(s)
  /\ manifest' = [manifest EXCEPT ![s] = parsed[s]]
  /\ lost' = lost \cup {s}
  /\ Unlink(s)
  /\ Answer(s, "failed")
  /\ UNCHANGED <<parsed, sends, crashes, rewritten>>

\* _activate(str(row_id)) ...
CallActivate(s) ==
  /\ step[s] = "activating"
  /\ AskActivate(s, s)
  /\ UNCHANGED <<handlerVars, files, manifest, sends, crashes, history>>

\* Mutant: the answer does not look at what became of the activation.
ActivateDoneBlindly(s) ==
  /\ step[s] = "activating"
  /\ at[s] \in Answers
  /\ Answer(s, "registered")
  /\ UNCHANGED <<activationVars, parsed, files, manifest, sends, crashes, history>>

\* Mutant: the activation moves into the try block that unlinks the file.
ActivateDoneUnlinks(s) ==
  /\ step[s] = "activating"
  /\ at[s] \in Answers
  /\ IF at[s] = "activated"
       THEN Answer(s, "registered") /\ UNCHANGED files
       ELSE Answer(s, "failed") /\ Unlink(s)
  /\ UNCHANGED <<activationVars, parsed, manifest, sends, crashes, history>>

\* ... returned or raised: the row is registered either way.
ActivateDone(s) ==
  /\ step[s] = "activating"
  /\ at[s] \in Answers
  /\ Answer(s, IF at[s] = "activated" THEN "registered" ELSE "failed")
  /\ UNCHANGED <<activationVars, parsed, files, manifest, sends, crashes, history>>

----------------------------------------------------------------------------
\* POST /v1/models/{id}/activate, from the thread pool.
Request(c, m) ==
  /\ c \notin Submissions
  /\ AskActivate(c, m)
  /\ UNCHANGED <<handlerVars, files, manifest, sends, crashes, history>>

InDatabase(c) ==
  /\ ActivationStep(c)
  /\ UNCHANGED <<handlerVars, files, manifest, sends, crashes, history>>

\* The process dies and restarts: handlers and open transactions are gone,
\* files and committed rows stay.
Crash ==
  /\ crashes < MaxCrashes
  /\ crashes' = crashes + 1
  /\ step' = [s \in Submissions |-> IF InHandler(s) THEN "idle" ELSE step[s]]
  /\ loop' = Nobody
  /\ CrashActivations
  /\ UNCHANGED <<parsed, files, manifest, sends, history>>

Registering(s) ==
  \/ Submit(s) \/ WriteBytes(s) \/ CloseFile(s) \/ WriteFails(s)
  \/ Validate(s) \/ ValidateRaises(s)
  \/ Insert(s) \/ InsertFails(s) \/ InsertAnswerLost(s)
  \/ CallActivate(s) \/ ActivateDone(s)

Next ==
  \/ \E s \in Submissions : Registering(s)
  \/ \E c \in Clients : InDatabase(c) \/ \E m \in Ids : Request(c, m)
  \/ Crash

Spec == Init /\ [][Next]_vars
----------------------------------------------------------------------------
\* A registered model's archive is there, and is the one whose manifest its
\* row holds, unless a registration is writing that very file again or failed.
ArchiveIntact ==
  \A r \in rows :
    \/ files[FileOf[r]] = manifest[r]
    \/ \E s \in Submissions :
         FileOf[s] = FileOf[r] /\ (InHandler(s) \/ step[s] = "failed")

\* It is there, as long as nothing has opened its path again since the row was
\* inserted: failed, rejected and cut-off registrations under that path before
\* it, crashes, and activations that are refused do not harm it.  Left out are
\* the rows whose INSERT raised after it had taken effect (routes.py 68-69).
ArchiveKept ==
  \A r \in rows \ (lost \cup rewritten) : files[FileOf[r]] = manifest[r]

\* The row describes the archive its client uploaded: between the write and
\* the INSERT no other registration got in.
RowDescribesUpload == \A r \in rows : manifest[r] = ContentOf[r]

\* A registration that asked to be active and was answered so was activated:
\* its task has an active model from then on, and "registered" is not said
\* while the activation was refused.
RegisteredActive ==
  \A s \in WantsActive :
    step[s] = "registered" =>
      /\ at[s] = "activated"
      /\ \E r \in active : SameTask(r, s)

\* What a 422, a 409 or a failed INSERT leaves is nothing: a file that no row
\* names is being written, or is what a write that raised got done (routes.py
\* 52), or read_metadata failed on it in a way it does not foresee (54-58), or
\* the process has died.
NoOrphanFile ==
  \A f \in Files :
    files[f] # Absent =>
      \/ \E r \in rows : FileOf[r] = f
      \/ \E s \in Submissions :
           FileOf[s] = f /\ step[s] \in {"close", "validate", "insert"}
      \/ files[f] \in Malformed \cup {Torn}
      \/ crashes > 0

\* Registrations and crashes use the activation as it may be used: what is
\* shown of Activation holds of the registry.
ImplementsActivation == ActivationSpec
=============================================================================
