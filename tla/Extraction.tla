---------------------------- MODULE Extraction -----------------------------
(***************************************************************************)
(* POST /v1/memory/extraction/start of extraction_handler.go: a row in     *)
(* async_tasks, one job in river_job for each topic of the user, and the   *)
(* status that the front end polls.  No transaction holds the statements   *)
(* together; each may fail, or take effect and lose its answer (the        *)
(* request has 30 seconds for all of them).                                *)
(***************************************************************************)
EXTENDS Naturals

CONSTANTS
  Extractions,  \* requests to start an extraction
  Topics        \* topics of the user

VARIABLES
  extraction,  \* the next step, or the answer, of each request
  asyncTask,   \* its row of async_tasks: its status, or "absent"
  pending,     \* the topics it has not enqueued yet
  enqueued,    \* its variable enqueued
  jobs,        \* the topics it has put into river_job
  polled       \* the status last seen by the front end

extractionVars == <<extraction, asyncTask, pending, enqueued, jobs, polled>>

-----------------------------------------------------------------------------
ExtractionInit ==
  /\ extraction = [x \in Extractions |-> "idle"]
  /\ asyncTask = [x \in Extractions |-> "absent"]
  /\ pending = [x \in Extractions |-> {}]
  /\ enqueued = [x \in Extractions |-> 0]
  /\ jobs = [x \in Extractions |-> {}]
  /\ polled = [x \in Extractions |-> "absent"]

Go(x, step) == extraction' = [extraction EXCEPT ![x] = step]

\* An UPDATE of the row, which may fail.
Write(x, status) ==
  \/ asyncTask' = [asyncTask EXCEPT ![x] = status]
  \/ UNCHANGED asyncTask

\* Method, identity, permission, body and dates are checked before anything else.
Refuse(x) ==
  /\ extraction[x] = "idle"
  /\ Go(x, "refused")
  /\ UNCHANGED <<asyncTask, pending, enqueued, jobs, polled>>

CreateExtractionTask(x) ==
  /\ extraction[x] = "idle"
  /\ \/ Write(x, "pending") /\ Go(x, "failed")    \* the INSERT, or its answer, fails
     \/ asyncTask' = [asyncTask EXCEPT ![x] = "pending"] /\ Go(x, "list")
  /\ UNCHANGED <<pending, enqueued, jobs, polled>>

ListUserTopics(x) ==
  /\ extraction[x] = "list"
  /\ \/ /\ Go(x, "enqueue")
        /\ \E found \in SUBSET Topics : pending' = [pending EXCEPT ![x] = found]
        /\ UNCHANGED asyncTask
     \/ /\ Go(x, "failed")
        /\ Write(x, "error")                      \* markExtractionTaskError
        /\ UNCHANGED pending
  /\ UNCHANGED <<enqueued, jobs, polled>>

\* Mutant: a failed insert is logged and counted.
CountAnyway(x, acknowledged) == enqueued' = [enqueued EXCEPT ![x] = @ + 1]

Count(x, acknowledged) ==
  enqueued' = [enqueued EXCEPT ![x] = IF acknowledged THEN @ + 1 ELSE @]

EnqueueMemoryIngestJob(x) ==
  /\ extraction[x] = "enqueue"
  /\ \E topic \in pending[x], inserted, acknowledged \in BOOLEAN :
       /\ acknowledged => inserted
       /\ pending' = [pending EXCEPT ![x] = @ \ {topic}]
       /\ jobs' = IF inserted THEN [jobs EXCEPT ![x] = @ \cup {topic}] ELSE jobs
       /\ Count(x, acknowledged)
  /\ UNCHANGED <<extraction, asyncTask, polled>>

FinalStatus(x) == IF enqueued[x] = 0 THEN "success" ELSE "pending"

\* The metadata are written and then the status; the errors of both are logged only,
\* and the answer says what was to be written.
SetExtractionStatus(x) ==
  /\ extraction[x] = "enqueue"
  /\ pending[x] = {}
  /\ Write(x, FinalStatus(x))
  /\ Go(x, FinalStatus(x))
  /\ UNCHANGED <<pending, enqueued, jobs, polled>>

\* GET of the task by the front end, at any time after it has got the id.
Poll(x) ==
  /\ extraction[x] \in {"success", "pending"}
  /\ polled' = [polled EXCEPT ![x] = asyncTask[x]]
  /\ UNCHANGED <<extraction, asyncTask, pending, enqueued, jobs>>

ExtractionNext ==
  \E x \in Extractions :
    \/ Refuse(x) \/ CreateExtractionTask(x) \/ ListUserTopics(x)
    \/ EnqueueMemoryIngestJob(x) \/ SetExtractionStatus(x) \/ Poll(x)

ExtractionSpec == ExtractionInit /\ [][ExtractionNext]_extractionVars

-----------------------------------------------------------------------------
ExtractionTypeOK ==
  /\ extraction \in [Extractions -> {"idle", "refused", "failed", "list", "enqueue",
                                     "success", "pending"}]
  /\ asyncTask \in [Extractions -> {"absent", "pending", "success", "error"}]
  /\ pending \in [Extractions -> SUBSET Topics]
  /\ enqueued \in [Extractions -> Nat]
  /\ jobs \in [Extractions -> SUBSET Topics]
  /\ polled \in [Extractions -> {"absent", "pending", "success", "error"}]

\* A request that was answered with an error has queued nothing, so that it can be
\* repeated; one answered pending has queued a job for which it is worth polling; and
\* whoever polls is never told error, nor success while the request counted a job
\* (startExtraction, with any of its statements failing).
ExtractionHonest ==
  \A x \in Extractions :
    /\ extraction[x] \in {"refused", "failed"} => jobs[x] = {}
    /\ extraction[x] = "pending" => jobs[x] # {}
    /\ polled[x] # "error"
    /\ polled[x] = "success" => enqueued[x] = 0

=============================================================================
