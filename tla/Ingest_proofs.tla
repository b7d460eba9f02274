--------------------------- MODULE Ingest_proofs ---------------------------
(***************************************************************************)
(* Proofs about ingest, for any attempts, views, edge predictions and      *)
(* number of faults.  The inductive invariant says what a handler may      *)
(* count on between two steps on the event loop, which it does not share,  *)
(* and what it still knows when it comes back from an await.  The readers  *)
(* of Boards add what they and the jobs have read.  Last, what an attempt  *)
(* has of the others without a fault: its inference, and the edge          *)
(* prediction to compare it with.                                          *)
(***************************************************************************)
EXTENDS Boards, FiniteSetTheorems, SequenceTheorems, TLAPS

\* Every attempt has at least one view.
LEMMA ViewsOfAttempt ==
  \A a \in Attempts : /\ Len(ViewsOf[a]) \in Nat \ {0}
                      /\ DOMAIN ViewsOf[a] = 1..Len(ViewsOf[a])
                      /\ \A i \in 1..Len(ViewsOf[a]) : ViewsOf[a][i] \in Images
<1> SUFFICES ASSUME NEW a \in Attempts
             PROVE  /\ Len(ViewsOf[a]) \in Nat \ {0}
                    /\ DOMAIN ViewsOf[a] = 1..Len(ViewsOf[a])
                    /\ \A i \in 1..Len(ViewsOf[a]) : ViewsOf[a][i] \in Images
  OBVIOUS
<1>1. ViewsOf[a] \in Seq(Images) /\ ViewsOf[a] # <<>>
  BY IngestAssumption
<1> QED
  BY <1>1, EmptySeq, LenProperties

\* What a handler knows at each label: the view it stores is nobody's yet, its
\* objects are there before its row, and the views before it are stored.
HandlerAt(a) ==
  /\ at[a] \in OnLoop => loop = a
  /\ at[a] \in {"new", "await", "check", "put", "preview", "insert"}
       => k[a] \in 1..Len(ViewsOf[a])
  /\ at[a] \in {"put", "preview", "insert"} => Image(a) \notin views
  /\ at[a] \in {"preview", "insert"} => Image(a) \in originals
  /\ at[a] = "insert" => Image(a) \in previews
  /\ \A i \in 1..Len(ViewsOf[a]) : i < k[a] => ViewsOf[a][i] \in views
  /\ at[a] \in {"edge", "queue", "acked"} => k[a] = Len(ViewsOf[a]) + 1

\* One attempt makes the board row, and it alone may store an edge prediction.
CreatedOnce ==
  /\ \A a \in Attempts : created[a] => exists /\ at[a] # "new"
  /\ \A a, b \in Attempts : created[a] /\ created[b] => a = b
  /\ \A a \in edges : created[a]

\* A job is queued after its attempt has stored its edge prediction, and looks
\* for it before it leaves its row.
JobAt(a) ==
  /\ job[a] # "none" => at[a] = "acked"
  /\ job[a] = "record" /\ a \in edges => compared[a]
  /\ \A r \in results : r.job = a => at[a] = "acked"

IngestInv ==
  /\ IngestTypeOK
  /\ \A a \in Attempts : HandlerAt(a)
  /\ \A a \in Attempts : JobAt(a)
  /\ CreatedOnce
  /\ RowsHaveObjects
  /\ OwnEdgeCompared

\* The invariant holds initially: there is no board, and every attempt is new.
LEMMA InitIngestInv == Init => IngestInv
<1> SUFFICES ASSUME Init PROVE IngestInv
  OBVIOUS
<1>1. \A a \in Attempts : k[a] \in 1..Len(ViewsOf[a]) + 1
  BY ViewsOfAttempt DEF Init
<1>2. IngestTypeOK
  <2>1. /\ exists \in BOOLEAN /\ views \subseteq Images /\ originals \subseteq Images
        /\ previews \subseteq Images /\ edges \subseteq Attempts /\ results = {}
        /\ loop = None /\ order \in Seq(Images)
    BY EmptySeq DEF Init
  <2>0. faults \in 0..MaxFaults
    BY IngestAssumption DEF Init
  <2>2. at \in [Attempts -> {"new"}] /\ k \in [Attempts -> {1}] /\ job \in [Attempts -> {"none"}]
    BY DEF Init
  <2>3. fresh \in [Attempts -> SUBSET Images] /\ read \in [Attempts -> SUBSET Images]
        /\ found \in [Attempts -> SUBSET Images]
    BY DEF Init
  <2>4. created \in [Attempts -> BOOLEAN] /\ compared \in [Attempts -> BOOLEAN]
    BY DEF Init
  <2> QED
    BY <1>1, <2>0, <2>1, <2>2, <2>3, <2>4 DEF IngestTypeOK, OnLoop, Ended, Running
<1>3. \A a \in Attempts : HandlerAt(a) /\ JobAt(a)
  BY ViewsOfAttempt DEF Init, HandlerAt, JobAt, OnLoop
<1>4. CreatedOnce /\ RowsHaveObjects /\ OwnEdgeCompared
  BY DEF Init, CreatedOnce, RowsHaveObjects, OwnEdgeCompared
<1> QED
  BY <1>2, <1>3, <1>4 DEF IngestInv

\* A handler that goes on to another label and touches neither board nor jobs.
LEMMA HandlerMoves ==
  ASSUME IngestInv, NEW a \in Attempts, NEW l \in OnLoop \cup {"failed", "await"},
         at' = [at EXCEPT ![a] = l], at[a] \in OnLoop \cup {"new", "await"},
         UNCHANGED <<views, order, edges, created, fresh, jobs>>,
         exists' \in BOOLEAN, exists => exists',
         faults' \in 0..MaxFaults,
         originals' \subseteq Images, originals \subseteq originals',
         previews' \subseteq Images, previews \subseteq previews',
         loop' \in {loop, None} \cup {a},
         at[a] \in OnLoop \/ loop = None,
         k' \in [Attempts -> Nat],
         \A b \in Attempts \ {a} : k'[b] = k[b],
         k'[a] \in 1..Len(ViewsOf[a]) + 1,
         HandlerAt(a)'
  PROVE  IngestInv'
<1> USE IngestAssumption DEF jobs
<1>t. IngestTypeOK
  BY DEF IngestInv
<1>1. IngestTypeOK'
  BY <1>t DEF IngestTypeOK, OnLoop, Ended
<1>2. \A b \in Attempts : HandlerAt(b)'
  <2> SUFFICES ASSUME NEW b \in Attempts, b # a PROVE HandlerAt(b)'
    OBVIOUS
  <2>1. at'[b] = at[b] /\ (at[b] \in OnLoop => loop' = loop)
    BY <1>t DEF IngestTypeOK, IngestInv, HandlerAt
  <2> QED
    BY <2>1 DEF IngestInv, HandlerAt, Image
<1>3. \A b \in Attempts : JobAt(b)'
  BY <1>t DEF IngestInv, IngestTypeOK, JobAt, OnLoop
<1>4. CreatedOnce'
  BY <1>t DEF IngestInv, IngestTypeOK, CreatedOnce, OnLoop
<1>5. RowsHaveObjects' /\ OwnEdgeCompared'
  BY DEF IngestInv, RowsHaveObjects, OwnEdgeCompared
<1> QED
  BY <1>1, <1>2, <1>3, <1>4, <1>5 DEF IngestInv

\* The steps of a handler that store no row.
LEMMA UploadSteps ==
  ASSUME IngestInv, NEW a \in Attempts,
         Resume(a) \/ CheckDuplicate(a) \/ PutOriginal(a) \/ PutPreview(a)
           \/ PreviewRaises(a) \/ EdgeRaises(a) \/ CallFails(a)
  PROVE  IngestInv'
<1> USE DEF board, Go, OnLoop
<1>t. IngestTypeOK /\ HandlerAt(a)
  BY DEF IngestInv
<1>v. /\ Len(ViewsOf[a]) \in Nat \ {0}
      /\ k[a] \in 1..Len(ViewsOf[a]) => Image(a) \in Images
  BY ViewsOfAttempt DEF Image
<1>1. CASE Resume(a)
  <2>1. HandlerAt(a)'
    BY <1>1, <1>t DEF Resume, IngestTypeOK, HandlerAt, Image
  <2> QED
    BY <1>1, <1>t, <2>1, HandlerMoves DEF Resume, IngestTypeOK
<1>2. CASE CheckDuplicate(a) /\ Image(a) \notin views
  <2>1. HandlerAt(a)'
    BY <1>2, <1>t DEF CheckDuplicate, IngestTypeOK, HandlerAt, Image
  <2> QED
    BY <1>2, <1>t, <2>1, HandlerMoves DEF CheckDuplicate, IngestTypeOK
<1>3. CASE CheckDuplicate(a) /\ Image(a) \in views
  <2>1. /\ at[a] = "check" /\ k' = [k EXCEPT ![a] = k[a] + 1]
        /\ UNCHANGED <<board, created, fresh, jobs, faults>>
        /\ \/ k[a] < Len(ViewsOf[a]) /\ Go(a, "await") /\ loop' = None
           \/ k[a] >= Len(ViewsOf[a]) /\ Go(a, "edge") /\ loop' = loop
    BY <1>3, <1>t, <1>v DEF CheckDuplicate, NextView, IngestTypeOK
  <2>2. HandlerAt(a)'
    <3>1. at'[a] \in {"await", "edge"} /\ k'[a] = k[a] + 1 /\ views' = views
          /\ k[a] \in 1..Len(ViewsOf[a])
      BY <2>1, <1>t DEF IngestTypeOK, HandlerAt
    <3>2. \A i \in 1..Len(ViewsOf[a]) : i < k'[a] => ViewsOf[a][i] \in views'
      BY <1>3, <1>t, <1>v, <3>1 DEF HandlerAt, Image
    <3>3. /\ at'[a] = "await" => k'[a] \in 1..Len(ViewsOf[a])
          /\ at'[a] = "edge" => loop' = a /\ k'[a] = Len(ViewsOf[a]) + 1
      <4>1. at[a] = "check" /\ loop = a /\ at \in [Attempts -> {"new", "await"} \cup OnLoop \cup Ended]
        BY <1>t, <2>1 DEF HandlerAt, IngestTypeOK
      <4> QED
        BY <1>v, <2>1, <3>1, <4>1
    <3> QED
      BY <3>1, <3>2, <3>3 DEF HandlerAt
  <2>3. /\ k' \in [Attempts -> Nat] /\ \A b \in Attempts \ {a} : k'[b] = k[b]
        /\ k'[a] \in 1..Len(ViewsOf[a]) + 1
    BY <1>t, <1>v, <2>1 DEF IngestTypeOK, HandlerAt
  <2>4. CASE at' = [at EXCEPT ![a] = "await"] /\ loop' = None
    BY <1>t, <2>1, <2>2, <2>3, <2>4, HandlerMoves DEF IngestTypeOK
  <2>5. CASE at' = [at EXCEPT ![a] = "edge"] /\ loop' = loop
    BY <1>t, <2>1, <2>2, <2>3, <2>5, HandlerMoves DEF IngestTypeOK
  <2> QED
    BY <2>1, <2>4, <2>5
<1>4. CASE PutOriginal(a)
  <2>1. HandlerAt(a)'
    BY <1>4, <1>t DEF PutOriginal, IngestTypeOK, HandlerAt, Image
  <2> QED
    BY <1>4, <1>t, <1>v, <2>1, HandlerMoves DEF PutOriginal, IngestTypeOK, HandlerAt
<1>5. CASE PutPreview(a)
  <2>1. HandlerAt(a)'
    BY <1>5, <1>t DEF PutPreview, IngestTypeOK, HandlerAt, Image
  <2> QED
    BY <1>5, <1>t, <1>v, <2>1, HandlerMoves DEF PutPreview, IngestTypeOK, HandlerAt
<1>6. CASE PreviewRaises(a) \/ EdgeRaises(a) \/ CallFails(a)
  <2>1. HandlerAt(a)'
    <3>1. at'[a] = "failed" /\ UNCHANGED <<k, views>>
      BY <1>6, <1>t DEF PreviewRaises, EdgeRaises, CallFails, IngestTypeOK
    <3> QED
      BY <1>t, <3>1 DEF HandlerAt
  <2>2. faults' \in 0..MaxFaults
    <3>1. faults' = faults \/ Faulty
      BY <1>6 DEF PreviewRaises, EdgeRaises, CallFails
    <3> QED
      BY <1>t, <3>1, IngestAssumption DEF Faulty, IngestTypeOK
  <2>3. exists' \in BOOLEAN /\ (exists => exists')
    BY <1>6, <1>t DEF PreviewRaises, EdgeRaises, CallFails, IngestTypeOK
  <2> QED
    BY <1>6, <1>t, <2>1, <2>2, <2>3, HandlerMoves
    DEF PreviewRaises, EdgeRaises, CallFails, IngestTypeOK
<1> QED
  BY <1>1, <1>2, <1>3, <1>4, <1>5, <1>6

\* The board row: the first attempt to look for it makes it.
LEMMA OpenBoardStep ==
  ASSUME IngestInv, NEW a \in Attempts, OpenBoard(a)
  PROVE  IngestInv'
<1> USE DEF OpenBoard, Go, jobs
<1>t. IngestTypeOK
  BY DEF IngestInv
<1>1. IngestTypeOK'
  BY <1>t DEF IngestTypeOK
<1>2. \A b \in Attempts : HandlerAt(b)'
  BY <1>t DEF IngestInv, IngestTypeOK, HandlerAt, OnLoop, Image
<1>3. \A b \in Attempts : JobAt(b)'
  BY <1>t DEF IngestInv, IngestTypeOK, JobAt
<1>4. CreatedOnce'
  BY <1>t DEF IngestInv, IngestTypeOK, CreatedOnce
<1>5. RowsHaveObjects' /\ OwnEdgeCompared'
  BY DEF IngestInv, RowsHaveObjects, OwnEdgeCompared
<1> QED
  BY <1>1, <1>2, <1>3, <1>4, <1>5 DEF IngestInv

\* The view row: nobody else is between its check and its INSERT.
LEMMA InsertViewStep ==
  ASSUME IngestInv, NEW a \in Attempts, InsertView(a)
  PROVE  IngestInv'
<1> USE DEF Go, jobs, OnLoop
<1>t. IngestTypeOK /\ HandlerAt(a)
  BY DEF IngestInv
<1>v. Len(ViewsOf[a]) \in Nat \ {0} /\ k[a] \in 1..Len(ViewsOf[a])
      /\ Image(a) \in Images
  BY <1>t, ViewsOfAttempt DEF InsertView, HandlerAt, Image
<1>0. /\ at[a] = "insert" /\ views' = views \cup {Image(a)}
      /\ order' \in Seq(Images)
      /\ k' = [k EXCEPT ![a] = k[a] + 1] /\ loop = a
      /\ UNCHANGED <<exists, originals, previews, edges, created, jobs, faults>>
      /\ fresh' \in [Attempts -> SUBSET Images]
      /\ \/ k[a] < Len(ViewsOf[a]) /\ at' = [at EXCEPT ![a] = "await"] /\ loop' = None
         \/ k[a] >= Len(ViewsOf[a]) /\ at' = [at EXCEPT ![a] = "edge"] /\ loop' = loop
  BY <1>t, <1>v DEF InsertView, NextView, IngestTypeOK, HandlerAt
<1>1. IngestTypeOK'
  <2>1. views' \subseteq Images /\ loop' \in Attempts \cup {None}
    BY <1>t, <1>v, <1>0 DEF IngestTypeOK
  <2>2. at' \in [Attempts -> {"new", "await"} \cup OnLoop \cup Ended]
    BY <1>t, <1>0 DEF IngestTypeOK
  <2>3. k' \in [Attempts -> Nat] /\ \A b \in Attempts : k'[b] \in 1..Len(ViewsOf[b]) + 1
    BY <1>t, <1>v, <1>0 DEF IngestTypeOK
  <2> QED
    BY <1>t, <1>0, <2>1, <2>2, <2>3 DEF IngestTypeOK
<1>2. \A b \in Attempts : HandlerAt(b)'
  <2>1. HandlerAt(a)'
    <3>1. at'[a] \in {"await", "edge"} /\ k'[a] = k[a] + 1
      BY <1>0, <1>t DEF IngestTypeOK
    <3>2. \A i \in 1..Len(ViewsOf[a]) : i < k'[a] => ViewsOf[a][i] \in views'
      BY <1>t, <1>v, <1>0, <3>1 DEF HandlerAt, Image
    <3>3. /\ at'[a] = "await" => k'[a] \in 1..Len(ViewsOf[a])
          /\ at'[a] = "edge" => loop' = a /\ k'[a] = Len(ViewsOf[a]) + 1
      <4>1. at \in [Attempts -> {"new", "await"} \cup OnLoop \cup Ended]
        BY <1>t DEF IngestTypeOK
      <4> QED
        BY <1>v, <1>0, <3>1, <4>1
    <3> QED
      BY <3>1, <3>2, <3>3 DEF HandlerAt
  <2>2. ASSUME NEW b \in Attempts, b # a PROVE HandlerAt(b)'
    <3>1. at'[b] = at[b] /\ k'[b] = k[b] /\ at[b] \notin OnLoop
      BY <1>t, <1>0, <2>2 DEF IngestTypeOK, IngestInv, HandlerAt
    <3> QED
      BY <1>0, <3>1 DEF IngestInv, HandlerAt
  <2> QED
    BY <2>1, <2>2
<1>3. \A b \in Attempts : JobAt(b)'
  BY <1>t, <1>0 DEF IngestInv, IngestTypeOK, JobAt
<1>4. CreatedOnce'
  BY <1>t, <1>0 DEF IngestInv, IngestTypeOK, CreatedOnce
<1>5. RowsHaveObjects' /\ OwnEdgeCompared'
  BY <1>0, <1>t DEF IngestInv, RowsHaveObjects, OwnEdgeCompared, HandlerAt
<1> QED
  BY <1>1, <1>2, <1>3, <1>4, <1>5 DEF IngestInv

\* The edge prediction and the answer: no job of the attempt has run before.
LEMMA AnswerSteps ==
  ASSUME IngestInv, NEW a \in Attempts, StoreEdge(a) \/ QueueAndAnswer(a)
  PROVE  IngestInv'
<1> USE DEF Go, OnLoop
<1>t. IngestTypeOK
  BY DEF IngestInv
<1>1. CASE StoreEdge(a)
  <2>0. at[a] = "edge" /\ job[a] = "none" /\ \A r \in results : r.job # a
    BY <1>1 DEF StoreEdge, IngestInv, JobAt
  <2>1. IngestTypeOK'
    BY <1>1, <1>t DEF StoreEdge, jobs, IngestTypeOK
  <2>2. \A b \in Attempts : HandlerAt(b)'
    BY <1>1, <1>t DEF StoreEdge, IngestInv, IngestTypeOK, HandlerAt, Image
  <2>3. \A b \in Attempts : JobAt(b)'
    BY <1>1, <1>t, <2>0 DEF StoreEdge, jobs, IngestInv, IngestTypeOK, JobAt
  <2>4. CreatedOnce'
    BY <1>1, <1>t DEF StoreEdge, IngestInv, IngestTypeOK, CreatedOnce
  <2>5. RowsHaveObjects' /\ OwnEdgeCompared'
    BY <1>1, <2>0 DEF StoreEdge, jobs, IngestInv, RowsHaveObjects, OwnEdgeCompared
  <2> QED
    BY <2>1, <2>2, <2>3, <2>4, <2>5 DEF IngestInv
<1>2. CASE QueueAndAnswer(a)
  <2>1. IngestTypeOK'
    BY <1>2, <1>t DEF QueueAndAnswer, board, IngestTypeOK, Ended, Running
  <2>2. \A b \in Attempts : HandlerAt(b)'
    <3>1. ASSUME NEW b \in Attempts, b # a PROVE at[b] \notin OnLoop
      BY <1>2, <3>1 DEF QueueAndAnswer, IngestInv, HandlerAt
    <3> QED
      BY <1>2, <1>t, <3>1
      DEF QueueAndAnswer, board, IngestInv, IngestTypeOK, HandlerAt, Image
  <2>3. \A b \in Attempts : JobAt(b)'
    BY <1>2, <1>t DEF QueueAndAnswer, board, IngestInv, IngestTypeOK, JobAt
  <2>4. CreatedOnce'
    BY <1>2, <1>t DEF QueueAndAnswer, board, IngestInv, IngestTypeOK, CreatedOnce
  <2>5. RowsHaveObjects' /\ OwnEdgeCompared'
    BY <1>2 DEF QueueAndAnswer, board, IngestInv, RowsHaveObjects, OwnEdgeCompared
  <2> QED
    BY <2>1, <2>2, <2>3, <2>4, <2>5 DEF IngestInv
<1> QED
  BY <1>1, <1>2

\* The steps of a job leave the board and the handlers alone.
LEMMA JobSteps ==
  ASSUME IngestInv, NEW a \in Attempts, RunJob(a)
  PROVE  IngestInv'
<1> USE DEF board, handler, Running
<1>t. IngestTypeOK
  BY DEF IngestInv
<1>0. job[a] \in Running /\ at[a] = "acked"
      /\ UNCHANGED <<exists, views, order, originals, previews, edges, at, k, created,
                    fresh, loop, faults>>
  BY DEF RunJob, JobReads, JobCompares, JobRecords, JobFails, JobLeaves, IngestInv, JobAt
<1>1. (\A b \in Attempts : HandlerAt(b)') /\ CreatedOnce' /\ RowsHaveObjects'
  BY <1>0 DEF IngestInv, HandlerAt, Image, CreatedOnce, RowsHaveObjects
<1>2. CASE JobReads(a) \/ JobCompares(a)
  <2>0. \A n \in MaxViews : First(n) \subseteq Images
    <3>1. \A i \in DOMAIN order : order[i] \in Images
      BY <1>t, ElementOfSeq DEF IngestTypeOK
    <3> QED
      BY <3>1 DEF First
  <2>1. IngestTypeOK'
    <3>1. /\ found' \in [Attempts -> SUBSET Images] /\ read' \in [Attempts -> SUBSET Images]
          /\ job' \in [Attempts -> {"none", "ended"} \cup Running]
          /\ compared' \in [Attempts -> BOOLEAN] /\ UNCHANGED <<board, handler, results, faults>>
      <4>1. CASE JobReads(a)
        <5>1. PICK n \in MaxViews : read' = [read EXCEPT ![a] = First(n)]
          BY <4>1 DEF JobReads
        <5>2. /\ found' = [found EXCEPT ![a] = views] /\ job' = [job EXCEPT ![a] = "compare"]
              /\ UNCHANGED <<board, handler, compared, results, faults>>
          BY <4>1 DEF JobReads
        <5> QED
          BY <1>t, <2>0, <5>1, <5>2 DEF IngestTypeOK
      <4>2. CASE JobCompares(a)
        BY <1>t, <4>2 DEF JobCompares, IngestTypeOK
      <4> QED
        BY <1>2, <4>1, <4>2
    <3> QED
      BY <1>t, <3>1 DEF IngestTypeOK
  <2>2. \A b \in Attempts : JobAt(b)'
    BY <1>2, <1>t, <1>0 DEF JobReads, JobCompares, IngestInv, IngestTypeOK, JobAt
  <2>3. OwnEdgeCompared'
    BY <1>2 DEF JobReads, JobCompares, IngestInv, OwnEdgeCompared
  <2> QED
    BY <1>1, <2>1, <2>2, <2>3 DEF IngestInv
<1>3. ASSUME NEW kd \in {"prediction", "error"}, NEW images \in SUBSET Images,
             JobLeaves(a, kd, images), kd = "prediction" => job[a] = "record"
      PROVE  IngestInv'
  <2>0. compared[a] \in BOOLEAN /\ found[a] \subseteq Images
    BY <1>t DEF IngestTypeOK
  <2>1. IngestTypeOK'
    BY <1>3, <1>t, <2>0 DEF JobLeaves, Row, IngestTypeOK
  <2>2. \A b \in Attempts : JobAt(b)'
    BY <1>3, <1>t, <1>0 DEF JobLeaves, Row, IngestInv, IngestTypeOK, JobAt
  <2>3. OwnEdgeCompared'
    BY <1>3, <1>0 DEF JobLeaves, Row, IngestInv, OwnEdgeCompared, JobAt
  <2> QED
    BY <1>1, <2>1, <2>2, <2>3 DEF IngestInv
<1>4. {} \in SUBSET Images /\ read[a] \in SUBSET Images
  BY <1>t DEF IngestTypeOK
<1> QED
  BY <1>2, <1>3, <1>4 DEF RunJob, JobRecords, JobFails

\* The invariant is inductive.
LEMMA NextIngestInv == IngestInv /\ [Next]_vars => IngestInv'
<1> SUFFICES ASSUME IngestInv, [Next]_vars PROVE IngestInv'
  OBVIOUS
<1>t. IngestTypeOK
  BY DEF IngestInv
<1>1. CASE UNCHANGED vars
  BY <1>1, <1>t
  DEF vars, board, handler, jobs, IngestInv, IngestTypeOK, HandlerAt, Image, JobAt,
      CreatedOnce, RowsHaveObjects, OwnEdgeCompared
<1>2. ASSUME NEW a \in Attempts, Handle(a) \/ CallFails(a) PROVE IngestInv'
  BY <1>2, OpenBoardStep, UploadSteps, InsertViewStep, AnswerSteps DEF Handle
<1>3. ASSUME NEW a \in Attempts, RunJob(a) PROVE IngestInv'
  BY <1>3, JobSteps
<1>4. CASE Crash
  <2> USE DEF Crash, board, OnLoop, Running
  <2>1. faults' \in 0..MaxFaults
    BY <1>4, <1>t, IngestAssumption DEF Faulty, IngestTypeOK
  <2>2. IngestTypeOK'
    BY <1>4, <1>t, <2>1 DEF IngestTypeOK, Ended
  <2>3. \A a \in Attempts : HandlerAt(a)'
    BY <1>4, <1>t DEF IngestInv, IngestTypeOK, HandlerAt, Image
  <2>4. \A a \in Attempts : JobAt(a)'
    BY <1>4, <1>t DEF IngestInv, IngestTypeOK, JobAt
  <2>5. CreatedOnce' /\ RowsHaveObjects' /\ OwnEdgeCompared'
    BY <1>4, <1>t DEF IngestInv, IngestTypeOK, CreatedOnce, RowsHaveObjects, OwnEdgeCompared
  <2> QED
    BY <2>2, <2>3, <2>4, <2>5 DEF IngestInv
<1> QED
  BY <1>1, <1>2, <1>3, <1>4 DEF Next, Quiet

\* IngestInv holds in every reachable state.
LEMMA IngestInvariance == Spec => []IngestInv
  BY InitIngestInv, NextIngestInv, PTL DEF Spec

----------------------------------------------------------------------------
\* Type correctness of ingest.
THEOREM IngestTypeCorrect == Spec => []IngestTypeOK
<1>1. IngestInv => IngestTypeOK
  BY DEF IngestInv
<1> QED
  BY <1>1, IngestInvariance, PTL

\* A view row never points at an object that is not in the object store,
\* however many attempts fail and wherever the process dies.
THEOREM RowsPointAtObjects == Spec => []RowsHaveObjects
<1>1. IngestInv => RowsHaveObjects
  BY DEF IngestInv
<1> QED
  BY <1>1, IngestInvariance, PTL

\* A handler that answers has passed all its views.
LEMMA AckedStored == IngestInv => AckedViewsStored
<1> SUFFICES ASSUME IngestInv, NEW a \in Attempts, at[a] = "acked",
                    NEW i \in 1..Len(ViewsOf[a])
             PROVE  ViewsOf[a][i] \in views
  BY ViewsOfAttempt DEF AckedViewsStored, ToSet
<1>1. k[a] = Len(ViewsOf[a]) + 1
  BY DEF IngestInv, HandlerAt
<1> QED
  BY <1>1, ViewsOfAttempt DEF IngestInv, HandlerAt

\* An acknowledged attempt's views are stored, by itself or by another attempt,
\* even one that failed.
THEOREM AckedIsStored == Spec => []AckedViewsStored
  BY AckedStored, IngestInvariance, PTL

\* The handler's INSERT of a view never meets the unique constraint: between
\* the check and the INSERT it does not give up the event loop.
THEOREM NoInsertConflict == Spec => []InsertNeverConflicts
<1>1. IngestInv => InsertNeverConflicts
  BY DEF IngestInv, HandlerAt, InsertNeverConflicts
<1> QED
  BY <1>1, IngestInvariance, PTL

\* A board has at most one edge prediction, whatever is retried.
THEOREM AtMostOneEdge == Spec => []OneEdge
<1>1. IngestInv => OneEdge
  <2> SUFFICES ASSUME IngestInv PROVE Cardinality(edges) <= 1
    BY DEF OneEdge
  <2>1. CASE edges = {}
    BY <2>1, FS_EmptySet
  <2>2. ASSUME NEW a \in edges PROVE Cardinality(edges) <= 1
    <3>1. edges = {a}
      BY <2>2 DEF IngestInv, IngestTypeOK, CreatedOnce
    <3> QED
      BY <3>1, FS_Singleton
  <2> QED
    BY <2>1, <2>2
<1> QED
  BY <1>1, IngestInvariance, PTL

\* The server prediction of the attempt that brought the edge prediction is
\* compared with it.
THEOREM OwnEdgeIsCompared == Spec => []OwnEdgeCompared
<1>1. IngestInv => OwnEdgeCompared
  BY DEF IngestInv
<1> QED
  BY <1>1, IngestInvariance, PTL

----------------------------------------------------------------------------
\* What a job found, and what it leaves, is of views that are stored, those of its
\* own attempt included; and it looked at some of what it found.
ResultsInv ==
  /\ \A n \in DOMAIN order : order[n] \in views
  /\ \A a \in Attempts : read[a] \subseteq found[a] /\ found[a] \subseteq views
  /\ \A a \in Attempts : job[a] \in Running => ToSet(ViewsOf[a]) \subseteq found[a]
  /\ \A p \in results : /\ p.images \subseteq p.found /\ p.found \subseteq views
                        /\ Covers(p, p.job)

\* Appending a view keeps the places of the others.
LEMMA OrderGrows ==
  ASSUME IngestInv, NEW a \in Attempts, InsertView(a)
  PROVE  /\ DOMAIN order' = 1..Len(order) + 1 /\ DOMAIN order = 1..Len(order)
         /\ Len(order) \in Nat
         /\ order'[Len(order) + 1] = Image(a)
         /\ \A n \in DOMAIN order : order'[n] = order[n]
<1>1. order \in Seq(Images) /\ Image(a) \in Images
  <2>1. k[a] \in 1..Len(ViewsOf[a])
    BY DEF InsertView, IngestInv, HandlerAt
  <2> QED
    BY <2>1, ViewsOfAttempt DEF Image, IngestInv, IngestTypeOK
<1>2. order' = Append(order, Image(a))
  BY DEF InsertView
<1> HIDE DEF Image
<1> QED
  BY <1>1, <1>2

\* Every step is one that stores a view, or leaves the stored ones as they are.
LEMMA OrderKept ==
  ASSUME IngestInv, [Next]_vars, \A a \in Attempts : ~InsertView(a)
  PROVE  views' = views /\ order' = order /\ fresh' = fresh
  BY DEF Next, Handle, OpenBoard, Resume, CheckDuplicate, PutOriginal, PutPreview, PreviewRaises,
     StoreEdge, EdgeRaises, QueueAndAnswer, CallFails, RunJob, JobReads, JobCompares, JobRecords,
     JobFails, JobLeaves, Crash, Quiet, vars, board, handler, jobs

\* Rows are added and never taken away.
LEMMA Grows ==
  ASSUME IngestInv, ResultsInv, [Next]_vars
  PROVE  ResultsInv' /\ views \subseteq views' /\ results \subseteq results'
<1> USE DEF board, handler, jobs, Covers
<1>t. IngestTypeOK
  BY DEF IngestInv
<1>1. CASE UNCHANGED vars \/ Quiet
  BY <1>1 DEF vars, Quiet, ResultsInv
<1>2. ASSUME NEW a \in Attempts, InsertView(a)
      PROVE  ResultsInv' /\ views \subseteq views' /\ results \subseteq results'
  <2>1. views' = views \cup {Image(a)} /\ UNCHANGED jobs
    BY <1>2 DEF InsertView
  <2>2. \A n \in DOMAIN order' : order'[n] \in views'
    BY <1>2, <2>1, OrderGrows DEF ResultsInv
  <2> QED
    BY <2>1, <2>2 DEF ResultsInv
<1>3. ASSUME NEW a \in Attempts, QueueAndAnswer(a)
      PROVE  ResultsInv' /\ views \subseteq views' /\ results \subseteq results'
  <2>1. ToSet(ViewsOf[a]) \subseteq views
    <3>1. \A i \in 1..Len(ViewsOf[a]) : ViewsOf[a][i] \in views
      BY <1>3, ViewsOfAttempt DEF QueueAndAnswer, IngestInv, HandlerAt
    <3> QED
      BY <3>1, ViewsOfAttempt DEF ToSet
  <2>2. read[a] \subseteq views
    BY DEF ResultsInv
  <2> QED
    BY <1>3, <1>t, <2>1, <2>2 DEF QueueAndAnswer, ResultsInv, IngestTypeOK
<1>4. ASSUME NEW a \in Attempts, Handle(a) \/ CallFails(a), ~InsertView(a), ~QueueAndAnswer(a)
      PROVE  ResultsInv' /\ views \subseteq views' /\ results \subseteq results'
  <2>1. UNCHANGED <<views, order, jobs>>
    BY <1>4 DEF Handle, OpenBoard, Resume, CheckDuplicate, PutOriginal, PutPreview,
       PreviewRaises, StoreEdge, EdgeRaises, CallFails
  <2> QED
    BY <2>1 DEF ResultsInv
<1>5. ASSUME NEW a \in Attempts, RunJob(a)
      PROVE  ResultsInv' /\ views \subseteq views' /\ results \subseteq results'
  <2>0. /\ job[a] \in Running /\ ToSet(ViewsOf[a]) \subseteq found[a]
        /\ views' = views /\ order' = order
    BY <1>5
    DEF RunJob, JobReads, JobCompares, JobRecords, JobFails, JobLeaves, Running, ResultsInv
  <2>1. CASE JobReads(a)
    <3>1. \A n \in MaxViews : First(n) \subseteq views
      BY DEF First, ResultsInv
    <3> QED
      BY <2>0, <2>1, <3>1, <1>t DEF JobReads, ResultsInv, IngestTypeOK, Running
  <2>2. CASE JobCompares(a)
    BY <2>0, <2>2, <1>t DEF JobCompares, ResultsInv, IngestTypeOK, Running
  <2>3. CASE JobRecords(a)
    BY <2>0, <2>3, <1>t DEF JobRecords, JobLeaves, Row, ResultsInv, IngestTypeOK, Running
  <2>4. CASE JobFails(a)
    BY <2>0, <2>4, <1>t DEF JobFails, JobLeaves, Row, ResultsInv, IngestTypeOK, Running
  <2> QED
    BY <1>5, <2>1, <2>2, <2>3, <2>4 DEF RunJob
<1>6. CASE Crash
  BY <1>6, <1>t DEF Crash, ResultsInv, IngestTypeOK, Running
<1> QED
  BY <1>1, <1>2, <1>3, <1>4, <1>5, <1>6 DEF Next, Handle

\* What a reader may count on: from its last poll to its answer it keeps the
\* event loop.
ReaderAt(r) ==
  /\ rat[r] \in {"views", "preds"} => reading = r
  /\ rat[r] = "preds" => list[r] = views
  /\ rat[r] \in {"views", "preds"} /\ r \in Waits /\ ~expired[r] => Predictions # {}

BoardsInv ==
  /\ BoardsTypeOK
  /\ IngestInv
  /\ ResultsInv
  /\ \A r \in Readers : ReaderAt(r)
  /\ ReadCoherent
  /\ WaitBringsPrediction

\* The invariant of the reads holds initially.
LEMMA InitBoardsInv == BoardsInit => BoardsInv
<1> SUFFICES ASSUME BoardsInit PROVE BoardsInv
  OBVIOUS
<1>1. IngestInv /\ IngestTypeOK
  BY InitIngestInv DEF BoardsInit, IngestInv
<1>2. ResultsInv
  <2>1. DOMAIN order = {}
    BY EmptySeq DEF BoardsInit, Init
  <2> QED
    BY <2>1 DEF BoardsInit, Init, ResultsInv, Running
<1>3. BoardsTypeOK
  BY <1>1 DEF BoardsInit, BoardsTypeOK
<1>4. (\A r \in Readers : ReaderAt(r)) /\ ReadCoherent /\ WaitBringsPrediction
  BY ReadersAssumption DEF BoardsInit, ReaderAt, ReadCoherent, WaitBringsPrediction
<1> QED
  BY <1>1, <1>2, <1>3, <1>4 DEF BoardsInv

\* A step of uploads, jobs or a crash, while readers stay or are broken off.
LEMMA IngestStep ==
  ASSUME BoardsInv, [Next]_vars, UNCHANGED <<expired, list, shown>>,
         \/ UNCHANGED <<rat, reading>> /\ (reading = None \/ views' = views)
         \/ /\ rat' \in [Readers -> {"new"} \cup Served]
            /\ \A r \in Readers : rat'[r] = "answered" => rat[r] = "answered"
            /\ reading' = None
  PROVE  BoardsInv'
<1>1. IngestInv' /\ ResultsInv' /\ views \subseteq views' /\ results \subseteq results'
  BY NextIngestInv, Grows DEF BoardsInv
<1>2. Predictions \subseteq Predictions'
  BY <1>1 DEF Predictions
<1>3. BoardsTypeOK'
  BY <1>1, <1>2 DEF BoardsInv, BoardsTypeOK, IngestInv
<1>4. \A r \in Readers : ReaderAt(r)'
  BY <1>2, ReadersAssumption DEF BoardsInv, ReaderAt, BoardsTypeOK, Served
<1>5. ReadCoherent'
  BY DEF BoardsInv, ReadCoherent
<1>6. WaitBringsPrediction'
  BY ReadersAssumption DEF BoardsInv, WaitBringsPrediction, Covers
<1> QED
  BY <1>1, <1>3, <1>4, <1>5, <1>6 DEF BoardsInv

\* A step of a reader.
LEMMA ReaderStep ==
  ASSUME BoardsInv, NEW r \in Readers,
         Get(r) \/ Expire(r) \/ Answered(r) \/ ReadFails(r)
  PROVE  BoardsInv'
<1> USE DEF Turn
<1>t. BoardsTypeOK /\ IngestTypeOK
  BY DEF BoardsInv, IngestInv
<1>1. CASE Get(r) \/ Expire(r)
  <2>1. /\ UNCHANGED <<vars, reading, list, shown>>
        /\ rat[r] \in {"new", "poll"} /\ rat'[r] = "poll"
        /\ rat' \in [Readers -> {"new", "poll", "views", "preds"} \cup Served]
        /\ expired' \in [Readers -> BOOLEAN]
        /\ \A q \in Readers \ {r} : rat'[q] = rat[q] /\ expired'[q] = expired[q]
    BY <1>1, <1>t DEF Get, Expire, BoardsTypeOK
  <2>2. IngestInv' /\ ResultsInv'
    BY <2>1, NextIngestInv, Grows DEF BoardsInv
  <2>3. Predictions' = Predictions /\ views' = views /\ results' = results
    BY <2>1 DEF vars, board, jobs, Predictions
  <2>4. BoardsTypeOK'
    BY <1>t, <2>1, <2>2, <2>3 DEF BoardsTypeOK, IngestInv
  <2>5. (\A q \in Readers : ReaderAt(q)') /\ ReadCoherent' /\ WaitBringsPrediction'
    BY <2>1, <2>3, ReadersAssumption
    DEF BoardsInv, ReaderAt, ReadCoherent, WaitBringsPrediction, Covers
  <2> QED
    BY <2>2, <2>4, <2>5 DEF BoardsInv
<1>2. CASE Answered(r)
  <2>1. UNCHANGED vars /\ expired' = expired
    BY <1>2 DEF Answered, Poll, Leave, ReadViews, ReadPredictions
  <2>2. IngestInv' /\ ResultsInv'
    BY <2>1, NextIngestInv, Grows DEF BoardsInv
  <2>3. Predictions' = Predictions /\ views' = views /\ results' = results
        /\ exists' = exists /\ loop' = loop
    BY <2>1 DEF vars, board, handler, jobs, Predictions
  <2>4. CASE Poll(r)
    <3>1. /\ UNCHANGED <<list, shown>> /\ reading = None /\ reading' \in {r, None}
          /\ rat' = [rat EXCEPT ![r] = IF exists THEN "views" ELSE "absent"]
          /\ rat'[r] = "views" => reading' = r
          /\ exists /\ r \in Waits /\ ~expired[r] => Predictions # {}
      BY <2>4, <1>t DEF Poll, Leave, BoardsTypeOK
    <3>2. BoardsTypeOK'
      BY <1>t, <2>1, <2>2, <2>3, <3>1 DEF BoardsTypeOK, IngestInv, Served
    <3>3. \A q \in Readers : ReaderAt(q)'
      BY <1>t, <2>1, <2>3, <3>1, ReadersAssumption DEF BoardsInv, ReaderAt, BoardsTypeOK
    <3>4. ReadCoherent' /\ WaitBringsPrediction'
      BY <1>t, <2>1, <3>1, ReadersAssumption
      DEF BoardsInv, ReadCoherent, WaitBringsPrediction, BoardsTypeOK, Covers
    <3> QED
      BY <2>2, <3>2, <3>3, <3>4 DEF BoardsInv
  <2>5. CASE ReadViews(r)
    <3>1. /\ rat[r] = "views" /\ UNCHANGED <<reading, shown>>
          /\ rat' = [rat EXCEPT ![r] = "preds"] /\ list' = [list EXCEPT ![r] = views]
      BY <2>5 DEF ReadViews
    <3>2. BoardsTypeOK'
      BY <1>t, <2>1, <2>2, <2>3, <3>1 DEF BoardsTypeOK, IngestInv, IngestTypeOK
    <3>3. \A q \in Readers : ReaderAt(q)'
      BY <1>t, <2>1, <2>3, <3>1, ReadersAssumption DEF BoardsInv, ReaderAt, BoardsTypeOK
    <3>4. ReadCoherent'
      BY <1>t, <3>1 DEF BoardsInv, ReadCoherent, ResultsInv, BoardsTypeOK, Predictions
    <3>5. WaitBringsPrediction'
      BY <1>t, <2>1, <3>1, ReadersAssumption
      DEF BoardsInv, WaitBringsPrediction, BoardsTypeOK, Covers
    <3> QED
      BY <2>2, <3>2, <3>3, <3>4, <3>5 DEF BoardsInv
  <2>6. CASE ReadPredictions(r)
    <3>1. /\ rat[r] = "preds" /\ reading' = None /\ list' = list
          /\ rat' = [rat EXCEPT ![r] = "answered"]
          /\ shown' = [shown EXCEPT ![r] = Predictions]
      BY <2>6 DEF ReadPredictions
    <3>2. list[r] = views /\ reading = r
          /\ (r \in Waits /\ ~expired[r] => Predictions # {})
      BY <3>1 DEF BoardsInv, ReaderAt
    <3>3. BoardsTypeOK'
      BY <1>t, <2>1, <2>2, <2>3, <3>1 DEF BoardsTypeOK, IngestInv, Served
    <3>4. \A q \in Readers : ReaderAt(q)'
      BY <1>t, <2>1, <2>3, <3>1, <3>2, ReadersAssumption
      DEF BoardsInv, ReaderAt, BoardsTypeOK
    <3>5. ReadCoherent'
      BY <1>t, <3>1, <3>2 DEF BoardsInv, ReadCoherent, ResultsInv, BoardsTypeOK, Predictions
    <3>6. WaitBringsPrediction'
      BY <1>t, <2>1, <3>1, <3>2, ReadersAssumption
      DEF BoardsInv, WaitBringsPrediction, ResultsInv, BoardsTypeOK, Predictions, Covers
    <3> QED
      BY <2>2, <3>3, <3>4, <3>5, <3>6 DEF BoardsInv
  <2> QED
    BY <1>2, <2>4, <2>5, <2>6 DEF Answered
<1>3. CASE ReadFails(r)
  <2>1. /\ faults' \in 0..MaxFaults
        /\ UNCHANGED <<board, handler, jobs, expired, list, shown>>
        /\ rat' = [rat EXCEPT ![r] = "failed"] /\ reading' = None
        /\ \A q \in Readers \ {r} : rat[q] \notin {"views", "preds"}
    BY <1>3, <1>t, IngestAssumption, ReadersAssumption
    DEF ReadFails, Faulty, IngestTypeOK, BoardsInv, ReaderAt
  <2>2. IngestInv'
    BY <1>t, <2>1
    DEF board, handler, jobs, BoardsInv, IngestInv, IngestTypeOK, HandlerAt, Image, JobAt,
        CreatedOnce, RowsHaveObjects, OwnEdgeCompared
  <2>3. ResultsInv' /\ Predictions' = Predictions
    BY <2>1 DEF board, jobs, BoardsInv, ResultsInv, Covers, Predictions
  <2>4. BoardsTypeOK'
    BY <1>t, <2>1, <2>2, <2>3 DEF BoardsTypeOK, IngestInv, Served
  <2>5. \A q \in Readers : ReaderAt(q)'
    BY <1>t, <2>1, <2>3 DEF BoardsTypeOK, ReaderAt
  <2>6. ReadCoherent' /\ WaitBringsPrediction'
    BY <1>t, <2>1, ReadersAssumption
    DEF BoardsInv, ReadCoherent, WaitBringsPrediction, BoardsTypeOK, Covers
  <2> QED
    BY <2>2, <2>3, <2>4, <2>5, <2>6 DEF BoardsInv
<1> QED
  BY <1>1, <1>2, <1>3

\* The invariant of uploads, jobs and reads is inductive.
LEMMA NextBoardsInv == BoardsInv /\ [BoardsNext]_boardsVars => BoardsInv'
<1> SUFFICES ASSUME BoardsInv, [BoardsNext]_boardsVars PROVE BoardsInv'
  OBVIOUS
<1>1. CASE UNCHANGED boardsVars
  BY <1>1, IngestStep DEF boardsVars, readerVars, vars, board
<1>2. ASSUME NEW a \in Attempts, Upload(a) PROVE BoardsInv'
  BY <1>2, IngestStep DEF Upload, readerVars, Next
<1>3. ASSUME NEW a \in Attempts, Job(a) PROVE BoardsInv'
  <2>1. views' = views
    BY <1>3 DEF Job, RunJob, JobReads, JobCompares, JobRecords, JobFails, JobLeaves, board
  <2> QED
    BY <1>3, <2>1, IngestStep DEF Job, readerVars, Next
<1>4. ASSUME NEW r \in Readers, Get(r) \/ Expire(r) \/ Answered(r) \/ ReadFails(r)
      PROVE  BoardsInv'
  BY <1>4, ReaderStep
<1>5. CASE BoardsCrash
  <2>1. /\ rat' \in [Readers -> {"new"} \cup Served]
        /\ \A r \in Readers : rat'[r] = "answered" => rat[r] = "answered"
    BY <1>5 DEF BoardsCrash, BoardsInv, BoardsTypeOK, Served
  <2> QED
    BY <1>5, <2>1, IngestStep DEF BoardsCrash, Next
<1> QED
  BY <1>1, <1>2, <1>3, <1>4, <1>5 DEF BoardsNext

\* BoardsInv holds in every reachable state.
LEMMA BoardsInvariance == BoardsSpec => []BoardsInv
  BY InitBoardsInv, NextBoardsInv, PTL DEF BoardsSpec

\* What ingest promises it keeps beside any number of reads.
THEOREM IngestBesideReads ==
  BoardsSpec => [](RowsHaveObjects /\ AckedViewsStored /\ OwnEdgeCompared)
<1>1. BoardsInv => RowsHaveObjects /\ AckedViewsStored /\ OwnEdgeCompared
  BY AckedStored DEF BoardsInv, IngestInv
<1> QED
  BY <1>1, BoardsInvariance, PTL

\* An answer lists every view that a prediction in it looked at, though views
\* and predictions are two queries and jobs write meanwhile: uploads do not,
\* because the handler does not await between them.
THEOREM ReadsAreCoherent == BoardsSpec => []ReadCoherent
<1>1. BoardsInv => ReadCoherent
  BY DEF BoardsInv
<1> QED
  BY <1>1, BoardsInvariance, PTL

\* A wait answered in time brings a prediction, and none of them missed a view
\* of the upload it is the job of.
THEOREM WaitsBringPredictions == BoardsSpec => []WaitBringsPrediction
<1>1. BoardsInv => WaitBringsPrediction
  BY DEF BoardsInv
<1> QED
  BY <1>1, BoardsInvariance, PTL

----------------------------------------------------------------------------
(* Without a fault, the job of the attempt that stores the last of some    *)
(* views runs over them all.                                               *)

\* What a job found has the views stored before those of its own attempt.
FoundAt(c, f) ==
  \A n \in DOMAIN order : order[n] \in fresh[c] => First(n) \subseteq f

InferInv ==
  /\ \A c \in Attempts : fresh[c] \subseteq views
  /\ \A c \in Attempts : job[c] \in Running => FoundAt(c, found[c])
  /\ \A r \in results : FoundAt(r.job, r.found)
  /\ faults = 0 => \A c \in RunInference : at[c] = "acked" /\ fresh[c] # {} =>
                       job[c] \in Running \/ \E r \in results : r.job = c

\* The attempt of a job or a result has answered: it stores no more.
LEMMA JobsOfAcked ==
  IngestInv => /\ \A c \in Attempts : job[c] \in Running => at[c] = "acked"
               /\ \A r \in results : r.job \in Attempts /\ at[r.job] = "acked"
BY DEF IngestInv, IngestTypeOK, JobAt, Running

\* The first n views stay the first n.
LEMMA FirstKept ==
  ASSUME IngestInv, ResultsInv, NEW a \in Attempts, InsertView(a),
         NEW c \in Attempts, c # a, fresh[c] \subseteq views, NEW f, FoundAt(c, f)
  PROVE  FoundAt(c, f)'
<1> SUFFICES ASSUME NEW n \in DOMAIN order', order'[n] \in fresh'[c]
             PROVE  First(n)' \subseteq f
  BY DEF FoundAt
<1>1. fresh'[c] = fresh[c]
  BY DEF InsertView, IngestInv, IngestTypeOK
<1>2. n # Len(order) + 1
  BY <1>1, OrderGrows DEF InsertView
<1>3. n \in DOMAIN order /\ order'[n] = order[n]
  BY <1>2, OrderGrows
<1>4. First(n)' = First(n)
  BY <1>3, OrderGrows DEF First
<1> QED
  BY <1>1, <1>3, <1>4 DEF FoundAt

\* Storing a view leaves the other attempts' jobs what they count on.
LEMMA InferInsert ==
  ASSUME IngestInv, ResultsInv, InferInv, NEW a \in Attempts, InsertView(a)
  PROVE  InferInv'
<1>0. /\ views' = views \cup {Image(a)} /\ fresh' = [fresh EXCEPT ![a] = fresh[a] \cup {Image(a)}]
      /\ UNCHANGED <<jobs, faults>> /\ at[a] = "insert" /\ at'[a] # "acked"
      /\ \A c \in Attempts : c # a => at'[c] = at[c]
  BY DEF InsertView, NextView, Go, IngestInv, IngestTypeOK
<1>1. \A c \in Attempts : fresh'[c] \subseteq views'
  BY <1>0 DEF InferInv, IngestInv, IngestTypeOK
<1>2. \A c \in Attempts : job'[c] \in Running => FoundAt(c, found[c])'
  <2> SUFFICES ASSUME NEW c \in Attempts, job[c] \in Running PROVE FoundAt(c, found[c])'
    BY <1>0 DEF jobs
  <2>1. c # a /\ found'[c] = found[c]
    BY <1>0, JobsOfAcked DEF jobs
  <2> QED
    BY <2>1, FirstKept DEF InferInv, FoundAt
<1>3. \A r \in results' : FoundAt(r.job, r.found)'
  <2> SUFFICES ASSUME NEW r \in results PROVE FoundAt(r.job, r.found)'
    BY <1>0 DEF jobs
  <2>1. r.job \in Attempts /\ r.job # a
    BY <1>0, JobsOfAcked
  <2> QED
    BY <2>1, FirstKept DEF InferInv
<1>4. faults' = 0 => \A c \in RunInference : at'[c] = "acked" /\ fresh'[c] # {} =>
                        job'[c] \in Running \/ \E r \in results' : r.job = c
  BY <1>0, IngestAssumption DEF InferInv, jobs, IngestInv, IngestTypeOK
<1> QED
  BY <1>1, <1>2, <1>3, <1>4 DEF InferInv

\* The answer queues a job if the attempt stored a view: over all that is stored.
LEMMA InferQueue ==
  ASSUME IngestInv, ResultsInv, InferInv, NEW a \in Attempts, QueueAndAnswer(a)
  PROVE  InferInv'
<1>0. /\ UNCHANGED <<views, order, fresh, results, faults>>
      /\ found' = [found EXCEPT ![a] = views]
      /\ job' = [job EXCEPT ![a] = IF a \in RunInference /\ fresh[a] # {} THEN "queued" ELSE "none"]
      /\ at' = [at EXCEPT ![a] = "acked"]
  BY DEF QueueAndAnswer, board, Go
<1>1. \A n \in DOMAIN order : First(n) \subseteq views
  BY DEF First, ResultsInv
<1>2. \A c \in Attempts : job'[c] \in Running => FoundAt(c, found[c])'
  <2> SUFFICES ASSUME NEW c \in Attempts, job'[c] \in Running PROVE FoundAt(c, found[c])'
    OBVIOUS
  <2>1. CASE c = a
    BY <1>0, <1>1, <2>1 DEF FoundAt, First, IngestInv, IngestTypeOK
  <2>2. CASE c # a
    BY <1>0, <2>2 DEF InferInv, FoundAt, First, IngestInv, IngestTypeOK
  <2> QED
    BY <2>1, <2>2
<1>3. /\ \A c \in Attempts : fresh'[c] \subseteq views'
      /\ \A r \in results' : FoundAt(r.job, r.found)'
  BY <1>0 DEF InferInv, FoundAt, First
<1>4. faults' = 0 => \A c \in RunInference : at'[c] = "acked" /\ fresh'[c] # {} =>
                        job'[c] \in Running \/ \E r \in results' : r.job = c
  <2> SUFFICES ASSUME faults = 0, NEW c \in RunInference, at'[c] = "acked", fresh[c] # {}
               PROVE  job'[c] \in Running \/ \E r \in results : r.job = c
    BY <1>0
  <2>0. c \in Attempts /\ job \in [Attempts -> {"none", "ended"} \cup Running]
        /\ at \in [Attempts -> {"new", "await"} \cup OnLoop \cup Ended]
    BY IngestAssumption DEF IngestInv, IngestTypeOK
  <2>1. CASE c = a
    BY <1>0, <2>0, <2>1 DEF Running
  <2>2. CASE c # a
    BY <1>0, <2>0, <2>2 DEF InferInv
  <2> QED
    BY <2>1, <2>2
<1> QED
  BY <1>2, <1>3, <1>4 DEF InferInv

\* A job finds no less than when it was queued, and leaves what it found.
LEMMA InferJob ==
  ASSUME IngestInv, ResultsInv, InferInv, NEW a \in Attempts, RunJob(a)
  PROVE  InferInv'
<1> USE DEF board, handler, Running
<1>t. IngestTypeOK
  BY DEF IngestInv
<1>0. /\ UNCHANGED <<views, order, fresh, at, faults>> /\ job[a] \in Running
      /\ \A c \in Attempts : c # a => job'[c] = job[c] /\ found'[c] = found[c]
  BY <1>t DEF RunJob, JobReads, JobCompares, JobRecords, JobFails, JobLeaves, IngestTypeOK
<1>1. FoundAt(a, found[a])
  BY <1>0 DEF InferInv
<1>2. CASE JobReads(a) \/ JobCompares(a)
  <2>1. results' = results /\ job'[a] \in Running /\ found'[a] \in {found[a], views}
    BY <1>2, <1>t DEF JobReads, JobCompares, IngestTypeOK
  <2>2. FoundAt(a, found'[a])
    BY <2>1, <1>1 DEF FoundAt, First, ResultsInv
  <2> QED
    BY <1>0, <2>1, <2>2, IngestAssumption DEF InferInv, FoundAt, First
<1>3. CASE JobRecords(a) \/ JobFails(a)
  <2>1. PICK kd \in {"prediction", "error"}, images \in {read[a], {}} : JobLeaves(a, kd, images)
    BY <1>3 DEF JobRecords, JobFails
  <2>2. Row(a, kd, images).job = a /\ Row(a, kd, images).found = found[a]
    BY DEF Row
  <2>3. results' = results \cup {Row(a, kd, images)} /\ found' = found /\ job'[a] = "ended"
    BY <2>1, <1>t DEF JobLeaves, IngestTypeOK
  <2>4. \A r \in results' : FoundAt(r.job, r.found)'
    BY <1>0, <1>1, <2>2, <2>3 DEF InferInv, FoundAt, First
  <2>5. \A c \in Attempts : job'[c] \in Running => FoundAt(c, found[c])'
    BY <1>0, <2>3 DEF InferInv, FoundAt, First
  <2>6. faults' = 0 => \A c \in RunInference : at'[c] = "acked" /\ fresh'[c] # {} =>
                          job'[c] \in Running \/ \E r \in results' : r.job = c
    BY <1>0, <2>2, <2>3, IngestAssumption DEF InferInv
  <2> QED
    BY <1>0, <2>4, <2>5, <2>6 DEF InferInv
<1> QED
  BY <1>2, <1>3 DEF RunJob

\* The invariant is kept by uploads, jobs and crashes ...
LEMMA InferStep ==
  ASSUME IngestInv, ResultsInv, InferInv, [Next]_vars
  PROVE  InferInv'
<1>t. IngestTypeOK /\ faults \in Nat
  BY IngestAssumption DEF IngestInv, IngestTypeOK
<1>1. CASE UNCHANGED vars \/ Quiet
  BY <1>1 DEF vars, Quiet, board, handler, jobs, InferInv, FoundAt, First
<1>2. ASSUME NEW a \in Attempts, Handle(a) \/ CallFails(a), ~InsertView(a), ~QueueAndAnswer(a)
      PROVE  InferInv'
  <2>1. UNCHANGED <<views, order, fresh, jobs>>
    BY <1>2
    DEF Handle, OpenBoard, Resume, CheckDuplicate, PutOriginal, PutPreview, PreviewRaises,
        StoreEdge, EdgeRaises, CallFails, board
  <2>2. PICK l \in {"await", "check", "put", "preview", "insert", "edge", "queue", "failed"} :
             at' = [at EXCEPT ![a] = l]
    BY <1>2
    DEF Handle, OpenBoard, Resume, CheckDuplicate, PutOriginal, PutPreview, PreviewRaises,
        StoreEdge, EdgeRaises, CallFails, NextView, Go
  <2>3. \A c \in Attempts : at'[c] = "acked" => at[c] = "acked"
    BY <1>t, <2>2 DEF IngestTypeOK
  <2>4. faults' = 0 => faults = 0
    <3>1. faults' = faults \/ Faulty
      BY <1>2
      DEF Handle, OpenBoard, Resume, CheckDuplicate, PutOriginal, PutPreview, PreviewRaises,
          StoreEdge, EdgeRaises, CallFails
    <3> QED
      BY <1>t, <3>1 DEF Faulty
  <2> QED
    BY <2>1, <2>3, <2>4, IngestAssumption DEF jobs, InferInv, FoundAt, First
<1>3. CASE Crash
  <2>1. UNCHANGED <<views, order, fresh, found, results>> /\ faults' # 0
        /\ \A c \in Attempts : job'[c] \in Running => FALSE
    BY <1>3, <1>t DEF Crash, Faulty, board, Running, IngestTypeOK
  <2> QED
    BY <2>1 DEF InferInv, FoundAt, First
<1> QED
  BY <1>1, <1>2, <1>3, InferInsert, InferQueue, InferJob DEF Next, Handle

\* ... and beside any number of reads.
LEMMA InferKept ==
  /\ BoardsInit => InferInv
  /\ BoardsInv /\ InferInv /\ [BoardsNext]_boardsVars => InferInv'
<1>1. BoardsInit => InferInv
  BY EmptySeq, IngestAssumption DEF BoardsInit, Init, InferInv, FoundAt, Running
<1>2. ASSUME BoardsInv, InferInv, [BoardsNext]_boardsVars PROVE InferInv'
  <2>1. IngestInv /\ ResultsInv
    BY <1>2 DEF BoardsInv
  <2>2. CASE [Next]_vars
    BY <1>2, <2>1, <2>2, InferStep
  <2>3. ASSUME NEW r \in Readers, ReadFails(r) PROVE InferInv'
    <3>1. UNCHANGED <<board, handler, jobs>> /\ faults' = faults + 1 /\ faults \in Nat
      BY <2>1, <2>3 DEF ReadFails, Faulty, IngestInv, IngestTypeOK
    <3> QED
      BY <1>2, <3>1 DEF InferInv, FoundAt, First, board, handler, jobs
  <2>4. [Next]_vars \/ \E r \in Readers : ReadFails(r)
    BY <1>2 DEF BoardsNext, boardsVars, Upload, Job, BoardsCrash, Next, Get, Expire, Answered,
       Poll, Leave, ReadViews, ReadPredictions
  <2> QED
    BY <2>2, <2>3, <2>4
<1> QED
  BY <1>1, <1>2

\* As long as no call fails and nothing crashes: when all of an attempt's views are
\* there, the job of the attempt that stored the last of them runs over them all, if
\* that attempt asked for inference and was acknowledged.  Both are needed: if it did
\* not ask, or failed on a later view, the views are duplicates to the others, and
\* bring them no job.
THEOREM InferredIfNothingFails == BoardsSpec => []InferredWithoutFaults
<1>1. BoardsInv /\ InferInv => InferredWithoutFaults
  <2> SUFFICES ASSUME BoardsInv, InferInv, faults = 0, Settled,
                      NEW a \in Attempts, NEW c \in RunInference, at[c] = "acked", Completes(c, a)
               PROVE  \E r \in results : Covers(r, a)
    BY DEF InferredWithoutFaults
  <2>1. PICK n \in DOMAIN order : /\ order[n] \in fresh[c]
                                  /\ ToSet(ViewsOf[a]) \subseteq First(n)
    BY DEF Completes
  <2>2. job[c] \notin Running
    BY IngestAssumption DEF Settled
  <2>3. PICK r \in results : r.job = c
    BY <2>1, <2>2 DEF InferInv
  <2>4. First(n) \subseteq r.found
    BY <2>1, <2>3 DEF InferInv, FoundAt
  <2> QED
    BY <2>1, <2>4 DEF Covers
<1> QED
  BY <1>1, InferKept, BoardsInvariance, PTL DEF BoardsSpec
----------------------------------------------------------------------------
(* Without a fault, the edge prediction of the attempt that makes the      *)
(* board is there to compare.                                              *)

\* The image a handler works on is one of its views.
LEMMA ImageOfAttempt ==
  ASSUME IngestInv, NEW a \in Attempts,
         at[a] \in {"new", "await", "check", "put", "preview", "insert"}
  PROVE  Image(a) \in ToSet(ViewsOf[a])
<1>1. k[a] \in 1..Len(ViewsOf[a])
  BY DEF IngestInv, HandlerAt
<1> QED
  BY <1>1, ViewsOfAttempt DEF Image, ToSet

\* What is asked of the clients: whoever makes the board carries its edge
\* prediction, views that decode, and JSON of the shape that is read.
AllCarryEdge ==
  \A a \in Attempts : /\ a \in HasEdge \ Malformed
                      /\ ToSet(ViewsOf[a]) \cap Undecodable = {}

\* The attempt that made the board has stored its edge prediction, or will.
MakerStoresEdge ==
  faults = 0 =>
    /\ exists => \E a \in Attempts : created[a] /\ at[a] # "failed"
    /\ \A a \in Attempts : ~exists => at[a] = "new"
    /\ \A a \in Attempts : created[a] /\ at[a] \in {"queue", "acked"} => a \in edges

LEMMA EdgeStep ==
  ASSUME AllCarryEdge, IngestInv, MakerStoresEdge, [Next]_vars
  PROVE  MakerStoresEdge'
<1> SUFFICES ASSUME faults' = 0 PROVE MakerStoresEdge'
  BY DEF MakerStoresEdge
<1> USE DEF board, handler, jobs, Go
<1>t. IngestTypeOK /\ faults \in Nat
  BY IngestAssumption DEF IngestInv, IngestTypeOK
<1>1. CASE UNCHANGED vars \/ Quiet
  BY <1>1 DEF vars, Quiet, MakerStoresEdge
<1>2. ASSUME NEW a \in Attempts, OpenBoard(a) PROVE MakerStoresEdge'
  <2>1. ~exists => \A b \in Attempts : at[b] = "new"
    BY <1>2 DEF OpenBoard, MakerStoresEdge
  <2>2. ~created[a]
    BY <1>2 DEF OpenBoard, IngestInv, CreatedOnce
  <2> QED
    BY <1>2, <1>t, <2>1, <2>2 DEF OpenBoard, IngestTypeOK, MakerStoresEdge
<1>3. ASSUME NEW a \in Attempts,
             Resume(a) \/ CheckDuplicate(a) \/ PutOriginal(a) \/ PutPreview(a)
               \/ InsertView(a) \/ QueueAndAnswer(a)
      PROVE  MakerStoresEdge'
  <2>1. /\ UNCHANGED <<exists, created, edges, faults>>
        /\ at[a] # "new" /\ \E l \in {"await", "check", "put", "preview", "insert", "edge",
                                       "acked"} :
             /\ at' = [at EXCEPT ![a] = l]
             /\ l = "acked" => at[a] = "queue"
    BY <1>3 DEF Resume, CheckDuplicate, PutOriginal, PutPreview, InsertView, QueueAndAnswer,
       NextView
  <2> QED
    BY <1>t, <2>1 DEF IngestTypeOK, MakerStoresEdge
<1>4. ASSUME NEW a \in Attempts, StoreEdge(a) PROVE MakerStoresEdge'
  BY <1>4, <1>t DEF StoreEdge, AllCarryEdge, IngestTypeOK, MakerStoresEdge
<1>5. ASSUME NEW a \in Attempts, PreviewRaises(a) \/ EdgeRaises(a) PROVE FALSE
  BY <1>5, ImageOfAttempt DEF PreviewRaises, EdgeRaises, AllCarryEdge
<1>6. ASSUME NEW a \in Attempts, RunJob(a) PROVE MakerStoresEdge'
  <2>1. UNCHANGED <<exists, created, edges, faults, at>>
    BY <1>6 DEF RunJob, JobReads, JobCompares, JobRecords, JobFails, JobLeaves
  <2> QED
    BY <2>1 DEF MakerStoresEdge
<1>7. ~Crash /\ \A a \in Attempts : ~CallFails(a)
  <2>1. ~Faulty
    BY <1>t DEF Faulty
  <2> QED
    BY <2>1 DEF Crash, CallFails
<1> QED
  BY <1>1, <1>2, <1>3, <1>4, <1>5, <1>6, <1>7 DEF Next, Handle

\* As long as no call fails and nothing crashes, the board keeps an edge prediction
\* for the comparison if every attempt carries one, images that decode and JSON that
\* raises nothing: whichever attempt made the row (`if edge and created`) stores it.
\* An attempt that makes the row and fails on an image takes the prediction with it,
\* with no fault.
THEOREM EdgeKeptIfNothingFails ==
  ASSUME AllCarryEdge
  PROVE  Spec => [](faults = 0 => EdgeKept)
<1>1. Init => MakerStoresEdge
  BY DEF Init, MakerStoresEdge
<1>2. IngestInv /\ MakerStoresEdge => (faults = 0 => EdgeKept)
  <2> SUFFICES ASSUME MakerStoresEdge, faults = 0, Settled,
                      NEW a \in Attempts, at[a] = "acked"
               PROVE  edges # {}
    BY IngestAssumption DEF EdgeKept
  <2>1. PICK b \in Attempts : created[b] /\ at[b] # "failed"
    BY DEF MakerStoresEdge
  <2> QED
    BY <2>1 DEF MakerStoresEdge, Settled, Ended
<1>3. IngestInv /\ MakerStoresEdge /\ [Next]_vars => MakerStoresEdge'
  BY EdgeStep
<1> QED
  BY <1>1, <1>2, <1>3, IngestInvariance, PTL DEF Spec
=============================================================================
