-------------------------- MODULE Registry_proofs --------------------------
(***************************************************************************)
(* Proofs about registration, for any submissions, names, paths, contents  *)
(* and bounds.  Registry uses Activation as it may be used, so what is     *)
(* proved there holds here; the rest is about the event loop, which keeps  *)
(* the file that a handler has written from the others until its INSERT.   *)
(***************************************************************************)
EXTENDS Registry, Activation_proofs

\* A step of the registry is one of an activation, a new row, a crash, or
\* none of Activation's business.
LEMMA StepMaps == [Next]_vars => [ActivationNext]_activationVars
<1> SUFFICES ASSUME [Next]_vars PROVE [ActivationNext]_activationVars
  OBVIOUS
<1>1. CASE UNCHANGED vars
  BY <1>1 DEF vars
<1>2. ASSUME NEW s \in Submissions, Registering(s)
      PROVE  [ActivationNext]_activationVars
  <2>1. ASSUME Insert(s) PROVE [ActivationNext]_activationVars
    <3>1. CASE NameTaken(s)
      BY <2>1, <3>1 DEF Insert
    <3>2. CASE ~NameTaken(s)
      <4>1. s \in Ids \ rows
        BY <3>2, SubmissionAssumption DEF NameTaken
      <4> QED
        BY <2>1, <3>2, <4>1 DEF Insert, InsertRow, ActivationNext
    <3> QED
      BY <3>1, <3>2
  <2>2. ASSUME CallActivate(s) PROVE [ActivationNext]_activationVars
    BY <2>2, SubmissionAssumption DEF CallActivate, ActivationNext
  <2>3. ASSUME InsertAnswerLost(s) PROVE [ActivationNext]_activationVars
    <3>1. s \in Ids \ rows
      BY <2>3, SubmissionAssumption DEF InsertAnswerLost, NameTaken
    <3> QED
      BY <2>3, <3>1 DEF InsertAnswerLost, ActivationNext
  <2> QED
    BY <1>2, <2>1, <2>2, <2>3
    DEF Registering, Submit, WriteBytes, CloseFile, WriteFails, Validate, ValidateRaises,
        InsertFails, ActivateDone
<1>3. ASSUME NEW c \in Clients, InDatabase(c) PROVE [ActivationNext]_activationVars
  BY <1>3 DEF InDatabase, ActivationNext
<1>4. ASSUME NEW c \in Clients, NEW m \in Ids, Request(c, m)
      PROVE  [ActivationNext]_activationVars
  BY <1>4 DEF Request, ActivationNext
<1>5. ASSUME Crash PROVE [ActivationNext]_activationVars
  BY <1>5 DEF Crash, ActivationNext
<1> QED
  BY <1>1, <1>2, <1>3, <1>4, <1>5 DEF Next

\* Registrations, retries and crashes use the activation as it may be used.
THEOREM RefinesActivation == Spec => ImplementsActivation
  BY StepMaps, PTL DEF Spec, Init, ImplementsActivation, ActivationSpec

\* So, whatever is registered, resent or cut off meanwhile, a task has at most
\* one active model.
THEOREM RegistryOneActive == Spec => []OneActivePerTask
  BY RefinesActivation, OneActive, PTL DEF ImplementsActivation
----------------------------------------------------------------------------
\* What a handler may count on while it keeps the event loop.
HandlerAt(s) ==
  /\ InHandler(s) => loop = s
  /\ step[s] = "validate" => files[FileOf[s]] = ContentOf[s]
  /\ step[s] = "insert" => parsed[s] = ContentOf[s]

\* What an activation that a submission asked for has come to.
ActivationOf(s) ==
  /\ at[s] # "idle" => want[s] = s
  /\ step[s] = "registered" /\ s \in WantsActive => at[s] = "activated"

\* A task whose activation was answered has an active model.
AnsweredActive ==
  \A c \in Clients :
    at[c] = "activated" => \E r \in active : SameTask(r, want[c])

RInv ==
  /\ RegistryTypeOK
  /\ AInv
  /\ \A s \in Submissions : HandlerAt(s)
  /\ \A s \in Submissions : ActivationOf(s)
  /\ AnsweredActive
  /\ RowDescribesUpload

\* The invariant holds initially: nothing was sent, and there are no rows.
LEMMA InitRInv == Init => RInv
<1> SUFFICES ASSUME Init PROVE RInv
  OBVIOUS
<1>1. AInv
  BY InitAInv DEF Init
<1>2. RegistryTypeOK
  BY <1>1, SubmissionAssumption DEF Init, AInv, RegistryTypeOK, ActivationInit
<1>3. /\ \A s \in Submissions : HandlerAt(s) /\ ActivationOf(s)
      /\ AnsweredActive /\ RowDescribesUpload
  BY SubmissionAssumption
  DEF Init, ActivationInit, HandlerAt, InHandler, ActivationOf, AnsweredActive,
      RowDescribesUpload
<1> QED
  BY <1>1, <1>2, <1>3 DEF RInv

\* A step in the database answers, or keeps waiting, a request that was pending.
LEMMA DatabaseStep ==
  ASSUME ActivationTypeOK, NEW c \in Clients, ActivationStep(c)
  PROVE  /\ want' = want /\ rows' = rows
         /\ at[c] \in Pending /\ at'[c] # "idle"
         /\ \A d \in Clients \ {c} : at'[d] = at[d]
<1> USE DEF ActivationTypeOK, At, Pending, InTx
<1>1. CASE QueryTask(c)
  BY <1>1 DEF QueryTask
<1>2. CASE Deactivate(c)
  BY <1>2 DEF Deactivate
<1>3. CASE AwaitOff(c) \/ ActivateRow(c) \/ Commit(c)
  BY <1>3 DEF AwaitOff, ActivateRow, Commit
<1>4. CASE IndexCheck(c)
  BY <1>4 DEF IndexCheck, Rollback
<1>5. CASE DeadlockVictim(c)
  BY <1>5 DEF DeadlockVictim, WaitsFor, Rollback
<1> QED
  BY <1>1, <1>2, <1>3, <1>4, <1>5 DEF ActivationStep

\* What is answered "activated" was committed, and a task keeps its active model.
LEMMA NextAnswered ==
  AInv /\ AnsweredActive /\ [ActivationNext]_activationVars => AnsweredActive'
<1> SUFFICES ASSUME AInv, AnsweredActive, [ActivationNext]_activationVars,
                    NEW c \in Clients, at'[c] = "activated"
             PROVE  \E r \in active' : SameTask(r, want'[c])
  BY DEF AnsweredActive, SameTask
<1>t. ActivationTypeOK
  BY DEF AInv
<1>1. CASE Commit(c)
  BY <1>1, <1>t DEF Commit, AInv, TxAt, SameTask
<1>2. CASE at[c] = "activated" /\ want'[c] = want[c]
  BY <1>2, NextNeverLost DEF AnsweredActive, SameTask
<1>3. ~Commit(c) => at[c] = "activated" /\ want'[c] = want[c]
  <2> SUFFICES ASSUME ~Commit(c) PROVE at[c] = "activated" /\ want'[c] = want[c]
    OBVIOUS
  <2> USE DEF ActivationTypeOK, Pending, InTx, Answers, At
  <2>1. CASE UNCHANGED activationVars
    BY <2>1 DEF activationVars, txVars
  <2>2. ASSUME NEW d \in Clients, NEW m \in Ids, AskActivate(d, m)
        PROVE  at[c] = "activated" /\ want'[c] = want[c]
    BY <2>2, <1>t DEF AskActivate
  <2>3. ASSUME NEW d \in Clients, ActivationStep(d)
        PROVE  at[c] = "activated" /\ want'[c] = want[c]
    BY <2>3, <1>t DEF ActivationStep, QueryTask, Deactivate, AwaitOff, ActivateRow,
       IndexCheck, DeadlockVictim, Rollback, Commit
  <2>4. CASE CrashActivations
    BY <2>4, <1>t DEF CrashActivations
  <2>5. ASSUME NEW r \in Ids \ rows, AddRow(r)
        PROVE  at[c] = "activated" /\ want'[c] = want[c]
    BY <2>5 DEF AddRow, txVars
  <2> QED
    BY <2>1, <2>2, <2>3, <2>4, <2>5 DEF ActivationNext
<1> QED
  BY <1>1, <1>2, <1>3

\* Handlers of the event loop: s runs alone, so nobody else's file or manifest
\* is in danger.
LEMMA RegisteringRInv ==
  ASSUME RInv, NEW s \in Submissions, Registering(s), AInv', AnsweredActive'
  PROVE  RInv'
<1> USE SubmissionAssumption
<1> USE DEF Go, Answer, InHandler
<1>t. RegistryTypeOK /\ ActivationTypeOK'
  BY DEF RInv, AInv
<1> USE DEF history
<1>l. \A u \in Submissions \ {s} : InHandler(u) => loop = u
  BY DEF RInv, HandlerAt
<1>1. CASE Submit(s)
  <2>1. RegistryTypeOK'
    BY <1>1, <1>t DEF Submit, RegistryTypeOK, activationVars
  <2>2. \A u \in Submissions : HandlerAt(u)' /\ ActivationOf(u)'
    BY <1>1, <1>t, <1>l, NobodyAssumption
    DEF Submit, RegistryTypeOK, RInv, HandlerAt, ActivationOf, activationVars, txVars
  <2>3. RowDescribesUpload'
    BY <1>1 DEF Submit, RInv, RowDescribesUpload, activationVars
  <2> QED
    BY <2>1, <2>2, <2>3 DEF RInv
<1>2. CASE WriteBytes(s) \/ CloseFile(s)
  <2>1. RegistryTypeOK'
    BY <1>2, <1>t DEF WriteBytes, CloseFile, Put, RegistryTypeOK, Files, Contents, activationVars
  <2>2. \A u \in Submissions : HandlerAt(u)' /\ ActivationOf(u)'
    BY <1>2, <1>t, <1>l DEF WriteBytes, CloseFile, Put, RegistryTypeOK, RInv, HandlerAt,
       ActivationOf, activationVars, txVars, Files
  <2>3. RowDescribesUpload'
    BY <1>2 DEF WriteBytes, CloseFile, RInv, RowDescribesUpload, activationVars
  <2> QED
    BY <2>1, <2>2, <2>3 DEF RInv
<1>3. CASE Validate(s)
  <2>1. RegistryTypeOK'
    BY <1>3, <1>t DEF Validate, Unlink, Put, RegistryTypeOK, Files, Contents, RInv, HandlerAt,
       activationVars
  <2>2. \A u \in Submissions : HandlerAt(u)' /\ ActivationOf(u)'
    BY <1>3, <1>t, <1>l DEF Validate, RegistryTypeOK, RInv, HandlerAt,
       ActivationOf, activationVars, txVars
  <2>3. RowDescribesUpload'
    BY <1>3 DEF Validate, RInv, RowDescribesUpload, activationVars
  <2> QED
    BY <2>1, <2>2, <2>3 DEF RInv
<1>4. CASE (Insert(s) /\ NameTaken(s)) \/ InsertFails(s)
  <2>1. RegistryTypeOK'
    BY <1>4, <1>t DEF Insert, InsertFails, Unlink, Put, RegistryTypeOK, Files, activationVars
  <2>2. \A u \in Submissions : HandlerAt(u)' /\ ActivationOf(u)'
    BY <1>4, <1>t, <1>l DEF Insert, InsertFails, RegistryTypeOK, RInv, HandlerAt,
       ActivationOf, activationVars, txVars
  <2>3. RowDescribesUpload'
    BY <1>4 DEF Insert, InsertFails, RInv, RowDescribesUpload, activationVars
  <2> QED
    BY <2>1, <2>2, <2>3 DEF RInv
<1>5. CASE Insert(s) /\ ~NameTaken(s)
  <2>1. parsed[s] = ContentOf[s]
    BY <1>5 DEF Insert, RInv, HandlerAt
  <2>2. /\ rows' = rows \cup {s} /\ manifest' = [manifest EXCEPT ![s] = ContentOf[s]]
        /\ step[s] = "insert"
        /\ step' = [step EXCEPT ![s] = IF s \in WantsActive THEN "activating"
                                                            ELSE "registered"]
        /\ loop' \in {loop, Nobody} /\ (s \in WantsActive => loop' = loop)
        /\ UNCHANGED <<active, txVars, files, parsed, sends, crashes, history>>
    BY <1>5, <2>1 DEF Insert, InsertRow, AddRow
  <2>3. RegistryTypeOK'
    BY <1>t, <2>2 DEF RegistryTypeOK, Contents
  <2>4. \A u \in Submissions : HandlerAt(u)' /\ ActivationOf(u)'
    BY <1>t, <1>l, <2>2 DEF RegistryTypeOK, RInv, HandlerAt, ActivationOf, txVars
  <2>5. RowDescribesUpload'
    BY <1>t, <2>2 DEF RegistryTypeOK, RInv, RowDescribesUpload
  <2> QED
    BY <2>3, <2>4, <2>5 DEF RInv
<1>6. CASE CallActivate(s)
  <2>1. RegistryTypeOK'
    BY <1>6, <1>t DEF CallActivate, AskActivate, handlerVars, RegistryTypeOK
  <2>2. \A u \in Submissions : HandlerAt(u)' /\ ActivationOf(u)'
    BY <1>6, <1>t DEF CallActivate, AskActivate, At, handlerVars, RegistryTypeOK,
       ActivationTypeOK, RInv, HandlerAt, ActivationOf
  <2>3. RowDescribesUpload'
    BY <1>6 DEF CallActivate, AskActivate, RInv, RowDescribesUpload
  <2> QED
    BY <2>1, <2>2, <2>3 DEF RInv
<1>7. CASE ActivateDone(s)
  <2>1. RegistryTypeOK'
    BY <1>7, <1>t DEF ActivateDone, RegistryTypeOK, activationVars
  <2>2. \A u \in Submissions : HandlerAt(u)' /\ ActivationOf(u)'
    BY <1>7, <1>t, <1>l DEF ActivateDone, RegistryTypeOK, RInv, HandlerAt, ActivationOf,
       activationVars, txVars
  <2>3. RowDescribesUpload'
    BY <1>7 DEF ActivateDone, RInv, RowDescribesUpload, activationVars
  <2> QED
    BY <2>1, <2>2, <2>3 DEF RInv
<1>8. CASE ValidateRaises(s) \/ WriteFails(s)
  <2>1. RegistryTypeOK'
    BY <1>8, <1>t DEF ValidateRaises, WriteFails, RegistryTypeOK, activationVars
  <2>2. \A u \in Submissions : HandlerAt(u)' /\ ActivationOf(u)'
    BY <1>8, <1>t, <1>l DEF ValidateRaises, WriteFails, RegistryTypeOK, RInv, HandlerAt,
       ActivationOf, activationVars, txVars
  <2>3. RowDescribesUpload'
    BY <1>8 DEF ValidateRaises, WriteFails, RInv, RowDescribesUpload, activationVars
  <2> QED
    BY <2>1, <2>2, <2>3 DEF RInv
<1>9. CASE InsertAnswerLost(s)
  <2>1. parsed[s] = ContentOf[s]
    BY <1>9 DEF InsertAnswerLost, RInv, HandlerAt
  <2>2. /\ rows' = rows \cup {s} /\ manifest' = [manifest EXCEPT ![s] = ContentOf[s]]
        /\ lost' = lost \cup {s}
        /\ step[s] = "insert" /\ step' = [step EXCEPT ![s] = "failed"] /\ loop' = Nobody
        /\ files' = [files EXCEPT ![FileOf[s]] = Absent]
        /\ UNCHANGED <<active, txVars, parsed, sends, crashes, rewritten>>
    BY <1>9, <2>1 DEF InsertAnswerLost, AddRow, Unlink, Put
  <2>3. RegistryTypeOK'
    BY <1>t, <2>2 DEF RegistryTypeOK, Contents, Files
  <2>4. \A u \in Submissions : HandlerAt(u)' /\ ActivationOf(u)'
    BY <1>t, <1>l, <2>2 DEF RegistryTypeOK, RInv, HandlerAt, ActivationOf, txVars
  <2>5. RowDescribesUpload'
    BY <1>t, <2>2 DEF RegistryTypeOK, RInv, RowDescribesUpload
  <2> QED
    BY <2>3, <2>4, <2>5 DEF RInv
<1> QED
  BY <1>1, <1>2, <1>3, <1>4, <1>5, <1>6, <1>7, <1>8, <1>9 DEF Registering

\* The invariant is inductive.
LEMMA NextRInv == RInv /\ [Next]_vars => RInv'
<1> SUFFICES ASSUME RInv, [Next]_vars PROVE RInv'
  OBVIOUS
<1> USE SubmissionAssumption
<1>a. AInv' /\ AnsweredActive'
  BY StepMaps, NextAInv, NextAnswered DEF RInv
<1>t. RegistryTypeOK /\ ActivationTypeOK /\ ActivationTypeOK'
  BY <1>a DEF RInv, AInv
<1>1. CASE UNCHANGED vars
  BY <1>1, <1>a, <1>t DEF vars, history, activationVars, txVars, handlerVars, RegistryTypeOK, RInv,
     HandlerAt, InHandler, ActivationOf, RowDescribesUpload
<1>2. ASSUME NEW s \in Submissions, Registering(s) PROVE RInv'
  BY <1>2, <1>a, RegisteringRInv
<1>3. ASSUME NEW c \in Clients, InDatabase(c) PROVE RInv'
  <2>1. RegistryTypeOK'
    BY <1>3, <1>t, DatabaseStep DEF InDatabase, handlerVars, history, RegistryTypeOK
  <2>2. \A s \in Submissions : HandlerAt(s)'
    BY <1>3 DEF InDatabase, handlerVars, RInv, HandlerAt, InHandler
  <2>3. \A s \in Submissions : ActivationOf(s)'
    BY <1>3, <1>t, DatabaseStep
    DEF InDatabase, handlerVars, RInv, ActivationOf, Pending, InTx
  <2>4. RowDescribesUpload'
    BY <1>3, <1>t, DatabaseStep DEF InDatabase, RInv, RowDescribesUpload
  <2> QED
    BY <1>a, <2>1, <2>2, <2>3, <2>4 DEF RInv
<1>4. ASSUME NEW c \in Clients, NEW m \in Ids, Request(c, m) PROVE RInv'
  <2>1. RegistryTypeOK'
    BY <1>4, <1>t DEF Request, AskActivate, handlerVars, history, RegistryTypeOK
  <2>2. \A s \in Submissions : HandlerAt(s)' /\ ActivationOf(s)'
    BY <1>4, <1>t DEF Request, AskActivate, At, handlerVars, ActivationTypeOK, RInv,
       HandlerAt, InHandler, ActivationOf
  <2>3. RowDescribesUpload'
    BY <1>4 DEF Request, AskActivate, RInv, RowDescribesUpload
  <2> QED
    BY <1>a, <2>1, <2>2, <2>3 DEF RInv
<1>5. CASE Crash
  <2>1. RegistryTypeOK'
    BY <1>5, <1>t DEF Crash, CrashActivations, history, RegistryTypeOK
  <2>2. \A s \in Submissions : HandlerAt(s)' /\ ActivationOf(s)'
    BY <1>5, <1>t DEF Crash, CrashActivations, RegistryTypeOK, ActivationTypeOK, RInv,
       HandlerAt, InHandler, ActivationOf, Pending, InTx
  <2>3. RowDescribesUpload'
    BY <1>5 DEF Crash, CrashActivations, RInv, RowDescribesUpload
  <2> QED
    BY <1>a, <2>1, <2>2, <2>3 DEF RInv
<1> QED
  BY <1>1, <1>2, <1>3, <1>4, <1>5 DEF Next

\* RInv holds in every reachable state.
LEMMA RegistryInvariance == Spec => []RInv
  BY InitRInv, NextRInv, PTL DEF Spec

----------------------------------------------------------------------------
\* Type correctness of the registry.
THEOREM RegistryTypeCorrect == Spec => []RegistryTypeOK
<1>1. RInv => RegistryTypeOK
  BY DEF RInv
<1> QED
  BY <1>1, RegistryInvariance, PTL

\* A row describes the archive its client uploaded, however often uploads are
\* resent, collide in name and path, or are cut off: the manifest is read back
\* from a path that only the handler on the event loop writes.
THEOREM RowsDescribeUploads == Spec => []RowDescribesUpload
<1>1. RInv => RowDescribesUpload
  BY DEF RInv
<1> QED
  BY <1>1, RegistryInvariance, PTL

\* "registered", said to a client that asked for activation, means that its
\* model was activated and that its task has an active model ever since.
THEOREM RegisteredMeansActive == Spec => []RegisteredActive
<1>1. RInv => RegisteredActive
  <2> SUFFICES ASSUME RInv, NEW s \in WantsActive, step[s] = "registered"
               PROVE  at[s] = "activated" /\ \E r \in active : SameTask(r, s)
    BY DEF RegisteredActive
  <2>1. at[s] = "activated" /\ want[s] = s
    BY SubmissionAssumption DEF RInv, ActivationOf
  <2> QED
    BY <2>1, SubmissionAssumption DEF RInv, AnsweredActive
<1> QED
  BY <1>1, RegistryInvariance, PTL

----------------------------------------------------------------------------
\* The file of a handler in the middle of its write, and at its INSERT.
FileAt(s) ==
  /\ step[s] = "close" => files[FileOf[s]] = Torn
  /\ step[s] = "insert" => files[FileOf[s]] = parsed[s]

\* A row whose path nobody has opened since has its archive, and no handler is
\* past the opening of that path.
ArchiveSafe ==
  \A r \in rows \ (lost \cup rewritten) :
    /\ files[FileOf[r]] = manifest[r]
    /\ \A s \in Submissions :
         FileOf[s] = FileOf[r] => step[s] \notin {"close", "validate", "insert"}

FInv ==
  /\ RInv
  /\ \A s \in Submissions : FileAt(s)
  /\ ArchiveSafe
  /\ NoOrphanFile

\* The invariant of the files holds initially: the directory is empty.
LEMMA InitFInv == Init => FInv
<1> SUFFICES ASSUME Init PROVE FInv
  OBVIOUS
<1>1. RInv
  BY InitRInv
<1>2. (\A s \in Submissions : FileAt(s)) /\ ArchiveSafe /\ NoOrphanFile
  BY DEF Init, ActivationInit, FileAt, InHandler, ArchiveSafe, NoOrphanFile
<1> QED
  BY <1>1, <1>2 DEF FInv

\* A step that leaves files, rows and what was sent alone, and takes no handler
\* to another step.
LEMMA FilesIdle ==
  ASSUME FInv, RInv', UNCHANGED <<files, rows, manifest, step, parsed, crashes, history>>
  PROVE  FInv'
<1>1. \A s \in Submissions : FileAt(s)'
  BY DEF FInv, FileAt, InHandler
<1>2. ArchiveSafe'
  BY DEF FInv, ArchiveSafe, history
<1>3. NoOrphanFile'
  BY DEF FInv, NoOrphanFile, InHandler
<1> QED
  BY <1>1, <1>2, <1>3 DEF FInv

\* The handlers: a file is replaced and removed only by one that has opened its
\* path, which makes the rows of that path rewritten ones.
LEMMA RegisteringFInv ==
  ASSUME FInv, RInv', NEW s \in Submissions, Registering(s)
  PROVE  FInv'
<1> USE SubmissionAssumption
<1> USE DEF Go, Answer, InHandler, Put, Unlink, history
<1>t. RegistryTypeOK
  BY DEF FInv, RInv
<1>f. /\ files \in [Files -> Contents \cup {Absent, Torn}]
      /\ step \in [Submissions -> {"idle", "write", "close", "validate", "insert",
                               "activating", "registered", "rejected",
                               "conflict", "failed"}]
      /\ manifest \in [Submissions -> Contents \cup {Absent}]
      /\ rows \subseteq Submissions
      /\ \A u \in Submissions : FileOf[u] \in Files
      /\ parsed \in [Submissions -> Contents \cup {Absent}]
  BY <1>t DEF RegistryTypeOK, ActivationTypeOK, Files
<1>l. \A u \in Submissions \ {s} : ~(InHandler(u) /\ InHandler(s))
  BY DEF FInv, RInv, HandlerAt
<1>w. ASSUME step[s] \in {"close", "validate", "insert"},
             NEW r \in rows \ (lost \cup rewritten)
      PROVE  FileOf[s] # FileOf[r]
  BY <1>w DEF FInv, ArchiveSafe
<1>1. CASE Submit(s)
  <2>1. \A u \in Submissions : FileAt(u)'
    BY <1>1, <1>f DEF Submit, activationVars, FInv, FileAt, RInv, HandlerAt
  <2>2. ArchiveSafe'
    BY <1>1, <1>f DEF Submit, activationVars, FInv, ArchiveSafe
  <2>3. NoOrphanFile'
    BY <1>1, <1>f DEF Submit, activationVars, FInv, NoOrphanFile
  <2> QED
    BY <2>1, <2>2, <2>3 DEF FInv
<1>2. CASE WriteBytes(s) \/ CloseFile(s)
  <2>1. \A u \in Submissions : FileAt(u)'
    BY <1>2, <1>f, <1>l DEF WriteBytes, CloseFile, activationVars, FInv, FileAt, RInv, HandlerAt
  <2>2. ArchiveSafe'
    BY <1>2, <1>f, <1>w DEF WriteBytes, CloseFile, activationVars, FInv, ArchiveSafe
  <2>3. NoOrphanFile'
    BY <1>2, <1>f DEF WriteBytes, CloseFile, activationVars, FInv, NoOrphanFile
  <2> QED
    BY <2>1, <2>2, <2>3 DEF FInv
<1>3. CASE Validate(s)
  <2>1. \A u \in Submissions : FileAt(u)'
    BY <1>3, <1>f, <1>l DEF Validate, activationVars, FInv, FileAt, RInv, HandlerAt
  <2>2. ArchiveSafe'
    BY <1>3, <1>f, <1>w DEF Validate, activationVars, FInv, ArchiveSafe
  <2>3. NoOrphanFile'
    BY <1>3, <1>f DEF Validate, activationVars, FInv, NoOrphanFile
  <2> QED
    BY <2>1, <2>2, <2>3 DEF FInv
<1>4. CASE (Insert(s) /\ NameTaken(s)) \/ InsertFails(s)
  <2>1. \A u \in Submissions : FileAt(u)'
    BY <1>4, <1>f, <1>l DEF Insert, InsertFails, activationVars, FInv, FileAt, RInv, HandlerAt
  <2>2. ArchiveSafe'
    BY <1>4, <1>f, <1>w DEF Insert, InsertFails, activationVars, FInv, ArchiveSafe
  <2>3. NoOrphanFile'
    BY <1>4, <1>f DEF Insert, InsertFails, activationVars, FInv, NoOrphanFile
  <2> QED
    BY <2>1, <2>2, <2>3 DEF FInv
<1>5. CASE Insert(s) /\ ~NameTaken(s)
  <2>0. /\ rows' = rows \cup {s} /\ manifest' = [manifest EXCEPT ![s] = parsed[s]]
        /\ step[s] = "insert" /\ files[FileOf[s]] = parsed[s] /\ s \notin rows
        /\ step' = [step EXCEPT ![s] = IF s \in WantsActive THEN "activating"
                                                            ELSE "registered"]
        /\ UNCHANGED <<files, parsed, sends, crashes, lost, rewritten>>
    BY <1>5 DEF Insert, InsertRow, AddRow, NameTaken, FInv, FileAt
  <2>1. \A u \in Submissions : FileAt(u)'
    BY <2>0, <1>f DEF FInv, FileAt
  <2>2. ArchiveSafe'
    BY <2>0, <1>f, <1>l DEF FInv, ArchiveSafe
  <2>3. NoOrphanFile'
    BY <2>0, <1>f DEF FInv, NoOrphanFile
  <2> QED
    BY <2>1, <2>2, <2>3 DEF FInv
<1>9. CASE InsertAnswerLost(s)
  <2>0. /\ rows' = rows \cup {s} /\ manifest' = [manifest EXCEPT ![s] = parsed[s]]
        /\ step[s] = "insert" /\ s \notin rows
        /\ step' = [step EXCEPT ![s] = "failed"]
        /\ files' = [files EXCEPT ![FileOf[s]] = Absent]
        /\ lost' = lost \cup {s}
        /\ UNCHANGED <<parsed, sends, crashes, rewritten>>
    BY <1>9 DEF InsertAnswerLost, AddRow, NameTaken
  <2>1. \A u \in Submissions : FileAt(u)'
    BY <2>0, <1>f, <1>l DEF FInv, FileAt
  <2>2. ArchiveSafe'
    BY <2>0, <1>f, <1>w DEF FInv, ArchiveSafe
  <2>3. NoOrphanFile'
    BY <2>0, <1>f DEF FInv, NoOrphanFile
  <2> QED
    BY <2>1, <2>2, <2>3 DEF FInv
<1>6. CASE CallActivate(s)
  BY <1>6, FilesIdle DEF CallActivate, AskActivate, handlerVars
<1>7. CASE ActivateDone(s)
  <2>1. \A u \in Submissions : FileAt(u)'
    BY <1>7, <1>f DEF ActivateDone, activationVars, FInv, FileAt, RInv, HandlerAt
  <2>2. ArchiveSafe'
    BY <1>7, <1>f DEF ActivateDone, activationVars, FInv, ArchiveSafe
  <2>3. NoOrphanFile'
    BY <1>7, <1>f DEF ActivateDone, activationVars, FInv, NoOrphanFile, FileAt
  <2> QED
    BY <2>1, <2>2, <2>3 DEF FInv
<1>8. CASE ValidateRaises(s) \/ WriteFails(s)
  <2>1. \A u \in Submissions : FileAt(u)'
    BY <1>8, <1>f DEF ValidateRaises, WriteFails, activationVars, FInv, FileAt, RInv, HandlerAt
  <2>2. ArchiveSafe'
    BY <1>8, <1>f DEF ValidateRaises, WriteFails, activationVars, FInv, ArchiveSafe
  <2>3. NoOrphanFile'
    BY <1>8, <1>f DEF ValidateRaises, WriteFails, activationVars, FInv, FileAt, NoOrphanFile
  <2> QED
    BY <2>1, <2>2, <2>3 DEF FInv
<1> QED
  BY <1>1, <1>2, <1>3, <1>4, <1>5, <1>6, <1>7, <1>8, <1>9 DEF Registering

\* The invariant of the files is inductive.
LEMMA NextFInv == FInv /\ [Next]_vars => FInv'
<1> SUFFICES ASSUME FInv, [Next]_vars PROVE FInv'
  OBVIOUS
<1>r. RInv' /\ RegistryTypeOK
  BY NextRInv DEF FInv, RInv
<1>1. CASE UNCHANGED vars
  BY <1>1, <1>r, FilesIdle DEF vars, activationVars, handlerVars
<1>2. ASSUME NEW s \in Submissions, Registering(s) PROVE FInv'
  BY <1>2, <1>r, RegisteringFInv
<1>3. ASSUME NEW c \in Clients, InDatabase(c) PROVE FInv'
  BY <1>3, <1>r, DatabaseStep, FilesIdle DEF InDatabase, handlerVars, RegistryTypeOK
<1>4. ASSUME NEW c \in Clients, NEW m \in Ids, Request(c, m) PROVE FInv'
  BY <1>4, <1>r, FilesIdle DEF Request, AskActivate, handlerVars
<1>5. CASE Crash
  <2>1. \A s \in Submissions : FileAt(s)'
    BY <1>5, <1>r DEF Crash, CrashActivations, FInv, FileAt, InHandler, RegistryTypeOK
  <2>2. ArchiveSafe'
    BY <1>5, <1>r, SubmissionAssumption
    DEF Crash, CrashActivations, FInv, ArchiveSafe, InHandler, RegistryTypeOK, history,
        ActivationTypeOK
  <2>3. NoOrphanFile'
    BY <1>5, <1>r, SubmissionAssumption DEF Crash, NoOrphanFile, RegistryTypeOK
  <2> QED
    BY <1>r, <2>1, <2>2, <2>3 DEF FInv
<1> QED
  BY <1>1, <1>2, <1>3, <1>4, <1>5 DEF Next

\* FInv holds in every reachable state.
LEMMA FilesInvariance == Spec => []FInv
  BY InitFInv, NextFInv, PTL DEF Spec

\* routes.py 45-76: from its row on an archive stays as the row describes it until
\* something opens its path again, whatever was rejected, failed or cut off under
\* that path before the row, and whatever crashes or is refused after it; except
\* for a row whose INSERT raised after it had taken effect.
THEOREM ArchiveStays == Spec => []ArchiveKept
<1>1. FInv => ArchiveKept
  BY DEF FInv, ArchiveSafe, ArchiveKept
<1> QED
  BY <1>1, FilesInvariance, PTL

\* routes.py 52-72: a file in the model directory belongs to a row or to a running
\* handler, unless the process has died, the write of the file was cut off by an
\* error, or read_metadata failed on it.
THEOREM NoOrphans == Spec => []NoOrphanFile
<1>1. FInv => NoOrphanFile
  BY DEF FInv
<1> QED
  BY <1>1, FilesInvariance, PTL
=============================================================================
