------------------------------- MODULE Boards -------------------------------
(***************************************************************************)
(* GET /v1/boards/{board_id} (gateway/app/routes.py, get_board) beside the *)
(* uploads and jobs of that board.  With wait, the handler polls the       *)
(* database until a server prediction is there or its time is up, and      *)
(* gives the event loop up between two polls; then it reads the views and  *)
(* the predictions in two queries, on the event loop.  The jobs write from *)
(* the thread pool all the while.                                          *)
(*                                                                         *)
(* Readers read and change nothing else: without them this is Ingest.  A   *)
(* poll that finds nothing and sleeps again is a stuttering step.          *)
(***************************************************************************)
EXTENDS Ingest

CONSTANTS
  Readers,  \* the requests, each sent once
  Waits     \* those that are sent with wait > 0

ASSUME ReadersAssumption ==
  /\ Waits \subseteq Readers
  /\ None \notin Readers

VARIABLES
  rat,      \* where each reader is
  reading,  \* the reader on the event loop, or None
  expired,  \* whether its deadline has passed
  list,     \* the images of its `views`
  shown     \* the server predictions of its `preds`

readerVars == <<rat, reading, expired, list, shown>>
boardsVars == <<vars, readerVars>>

Served == {"answered", "absent", "failed"}
Predictions == {r \in results : r.kind = "prediction"}

BoardsTypeOK ==
  /\ IngestTypeOK
  /\ rat \in [Readers -> {"new", "poll", "views", "preds"} \cup Served]
  /\ reading \in Readers \cup {None}
  /\ expired \in [Readers -> BOOLEAN]
  /\ list \in [Readers -> SUBSET Images]
  /\ shown \in [Readers -> SUBSET Predictions]

BoardsInit ==
  /\ Init
  /\ rat = [r \in Readers |-> "new"]
  /\ reading = None
  /\ expired = [r \in Readers |-> FALSE]
  /\ list = [r \in Readers |-> {}]
  /\ shown = [r \in Readers |-> {}]

Turn(r, label) == rat' = [rat EXCEPT ![r] = label]

\* The request arrives; without wait its deadline is now.
Get(r) ==
  /\ rat[r] = "new"
  /\ Turn(r, "poll")
  /\ expired' = [expired EXCEPT ![r] = r \notin Waits]
  /\ UNCHANGED <<vars, reading, list, shown>>

\* time.monotonic() >= deadline
Expire(r) ==
  /\ rat[r] = "poll"
  /\ ~expired[r]
  /\ expired' = [expired EXCEPT ![r] = TRUE]
  /\ UNCHANGED <<vars, rat, reading, list, shown>>

\* The loop of get_board is left; the reader stays on the event loop, or is
\* answered 404.
Leave(r) ==
  /\ IF exists THEN Turn(r, "views") /\ reading' = r
               ELSE Turn(r, "absent") /\ UNCHANGED reading
  /\ UNCHANGED <<vars, expired, list, shown>>

\* Mutant: the edge prediction is as good as the server's.
PollAnySource(r) ==
  /\ rat[r] = "poll"
  /\ loop = None /\ reading = None
  /\ \/ expired[r]
     \/ exists /\ (r \in Waits => Predictions # {} \/ edges # {})
  /\ Leave(r)

\* Mutant: the deadline is not looked at.
PollUntilReady(r) ==
  /\ rat[r] = "poll"
  /\ loop = None /\ reading = None
  /\ exists /\ (r \in Waits => Predictions # {})
  /\ Leave(r)

\* The poll that is the last one: ready, or too late.
Poll(r) ==
  /\ rat[r] = "poll"
  /\ loop = None /\ reading = None
  /\ \/ expired[r]
     \/ exists /\ (r \in Waits => Predictions # {})
  /\ Leave(r)

\* Mutant: the queries are awaited, and the event loop serves others.
ReadViewsAwaiting(r) ==
  /\ rat[r] = "views"
  /\ list' = [list EXCEPT ![r] = views]
  /\ Turn(r, "preds")
  /\ reading' = None
  /\ UNCHANGED <<vars, expired, shown>>

\* SELECT ... FROM views
ReadViews(r) ==
  /\ rat[r] = "views"
  /\ list' = [list EXCEPT ![r] = views]
  /\ Turn(r, "preds")
  /\ UNCHANGED <<vars, reading, expired, shown>>

\* SELECT ... FROM predictions, and the answer
ReadPredictions(r) ==
  /\ rat[r] = "preds"
  /\ shown' = [shown EXCEPT ![r] = Predictions]
  /\ Turn(r, "answered")
  /\ reading' = None
  /\ UNCHANGED <<vars, expired, list>>

\* A query raises: 500.
ReadFails(r) ==
  /\ Faulty
  /\ \/ rat[r] = "poll" /\ loop = None /\ reading = None
     \/ rat[r] \in {"views", "preds"}
  /\ Turn(r, "failed")
  /\ reading' = None
  /\ UNCHANGED <<board, handler, jobs, expired, list, shown>>

Answered(r) == Poll(r) \/ ReadViews(r) \/ ReadPredictions(r)

\* The handlers of uploads run while no reader is on the event loop.
Upload(a) ==
  /\ reading = None
  /\ Handle(a) \/ CallFails(a)
  /\ UNCHANGED readerVars

Job(a) == RunJob(a) /\ UNCHANGED readerVars

BoardsCrash ==
  /\ Crash
  /\ rat' = [r \in Readers |-> IF rat[r] \in {"new"} \cup Served THEN rat[r]
                                                                 ELSE "failed"]
  /\ reading' = None
  /\ UNCHANGED <<expired, list, shown>>

AllSettled == Settled /\ \A r \in Readers : rat[r] \in Served

BoardsNext ==
  \/ \E a \in Attempts : Upload(a) \/ Job(a)
  \/ \E r \in Readers : Get(r) \/ Expire(r) \/ Answered(r) \/ ReadFails(r)
  \/ BoardsCrash
  \/ AllSettled /\ UNCHANGED boardsVars

BoardsSpec == BoardsInit /\ [][BoardsNext]_boardsVars

\* As in Ingest; the event loop gets to every reader too, and time passes.
BoardsFairSpec ==
  /\ BoardsSpec
  /\ \A a \in Attempts :
       /\ WF_boardsVars(reading = None /\ Handle(a) /\ UNCHANGED readerVars)
       /\ WF_boardsVars(Job(a))
  /\ \A r \in Readers : WF_boardsVars(Answered(r)) /\ WF_boardsVars(Expire(r))
----------------------------------------------------------------------------
\* get_board: no prediction in an answer looked at a view that the answer does
\* not list, whatever uploads and jobs did between the two queries.
ReadCoherent ==
  \A r \in Readers : \A p \in shown[r] : p.images \subseteq list[r]

\* A wait that was answered in time brings a server prediction, and the job of
\* each one listed every view of the upload that queued it, to predict on the
\* first max_views of the board's.  That upload need not be the latest.
WaitBringsPrediction ==
  \A r \in Waits :
    rat[r] = "answered" /\ ~expired[r] =>
      shown[r] # {} /\ \A p \in shown[r] : Covers(p, p.job)

\* Every read is answered: a wait for a board that is never there, or never
\* predicted, ends when its time is up.
WaitEnds == \A r \in Readers : rat[r] = "poll" ~> rat[r] \in Served
=============================================================================
