------------------------------ MODULE TaskRun ------------------------------
(***************************************************************************)
(* The durable task runner of runtime/task: the HTTP endpoint that starts  *)
(* a run, the Temporal workflow TaskRunWorkflow, the activities it calls   *)
(* and the rows of the `tasks` and `task_topics` tables they share through *)
(* PostgresStore.                                                          *)
(*                                                                         *)
(* A run is one POST /v1/tasks/run.  Its name also stands for the topic id *)
(* and the operation id the handler mints for it.  A run is a process that *)
(* goes through the activities of the workflow in order; other runs, the   *)
(* user and the retries of Temporal interleave between two activities.     *)
(*                                                                         *)
(* Temporal records the completion of an activity after the activity has   *)
(* written the database, so a worker that dies in between makes the same   *)
(* activity run again: an activity step takes a parameter `ok` that says   *)
(* whether its completion was recorded.  Activities other than the agent   *)
(* execution have no attempt limit: they are retried until they succeed.   *)
(***************************************************************************)
EXTENDS Naturals, FiniteSets

CONSTANTS
  Tasks,            \* ids of the rows of the table tasks
  UnknownTask,      \* an id that names no row
  Runs,             \* requests; also the topic and the operation each mints
  None,             \* absence of a run or of a topic
  Keys,             \* ways to name a task in a request: its id, its identifier
  Automated,        \* tasks with automation_mode heartbeat or schedule
  TimeoutTasks,     \* tasks with a positive heartbeat_timeout
  MaxAttempts,      \* WorkflowOptions.MaxAgentExecutionAttempts
  AgentTries,       \* MaximumAttempts of the agent activity, 3 in the code
  InitStatuses,     \* statuses a task may have before the first run
  InitConfigs,      \* shapes task.config may have before the first run
  UserStatuses,     \* statuses the web application may write meanwhile
  MaxEdits,         \* bound on the writes of the web application
  MaxSignals,       \* bound on the runs that are sent a cancel signal
  TopicHeartbeats,  \* does another program stamp task_topics.last_heartbeat_at
  StoreFaults       \* may the topic update of OnTopicComplete fail

Statuses == {"backlog", "paused", "scheduled", "running",
             "completed", "failed", "canceled"}

IsTerminal(s) == s \in {"completed", "failed", "canceled"}

TopicStatuses == {"running", "completed", "failed", "canceled"}

\* What matters of the JSON in task.config: NULL; no model pinned but other
\* sections present; model and other sections; the model alone.
Configs == {"null", "unpinned", "pinned", "stripped"}

ASSUME ConstantsAssumption ==
  /\ UnknownTask \notin Tasks
  /\ None \notin Runs
  /\ Automated \subseteq Tasks
  /\ TimeoutTasks \subseteq Tasks
  /\ MaxAttempts \in Nat \ {0} /\ AgentTries \in Nat \ {0}
  /\ MaxEdits \in Nat /\ MaxSignals \in Nat
  /\ InitStatuses \subseteq Statuses
  /\ InitConfigs \subseteq Configs
  /\ UserStatuses \subseteq Statuses
  /\ TopicHeartbeats \in BOOLEAN
  /\ StoreFaults \in BOOLEAN

\* No task is running before the first run, and the application never writes
\* the status "running" itself.
ASSUME RunningIsOursAssumption ==
  "running" \notin InitStatuses \cup UserStatuses

VARIABLES
  row,        \* the table tasks
  link,       \* the table task_topics, by the run whose topic it links
  seq,        \* its column seq
  req,        \* the parameters of each request
  serving,    \* the run whose workflow answers a request
  pc,         \* the next step of the workflow of a run
  snap,       \* its variable task, read once by ResolveTask
  latest,     \* the status OnTopicComplete reloaded
  reported,   \* its state.CurrentStatus, what the query "status" returns
  attempt,    \* workflow attempts begun
  tries,      \* agent executions begun by this workflow attempt
  execs,      \* agent executions begun by the run
  signalled,  \* runs that were sent the signal "cancel"
  edits       \* writes of the web application so far

dbVars  == <<row, link, seq>>
wfVars  == <<snap, latest, reported, attempt, tries, execs>>
envVars == <<req, serving, signalled, edits>>
vars    == <<dbVars, wfVars, envVars, pc>>

-----------------------------------------------------------------------------
Request == [task : Tasks \cup {UnknownTask}, key : Keys, cont : Runs \cup {None}]

TaskRow == [status : Statuses, error : BOOLEAN, total : Nat,
            cur : Runs \cup {None}, beat : BOOLEAN, config : Configs]

TaskOf(r) == req[r].task

\* resolveTopicID: a continued topic keeps its id, otherwise one is minted.
TopicOf(r) == IF req[r].cont = None THEN r ELSE req[r].cont

\* Mutant: the run is part of the workflow id, so nothing is deduplicated.
WorkflowIdPerRun(r) == <<req[r].task, req[r].key, r>>

\* workflowID: the text of the request, whether id or identifier.
WorkflowId(r) == <<req[r].task, req[r].key>>

Closed == {"done", "notFound", "conflicted", "failed", "joined"}

Open(r) == pc[r] \notin Closed \cup {"idle"}

RunningTopics(t) == {x \in Runs : link[x] = "running" /\ TaskOf(x) = t}

\* Mutant: an automated task is given no status.
RestStatusUnset(t) == IF t \in Automated THEN "unset" ELSE "paused"

\* computeLifecycleTransition for ReasonDone: PostgresStore never returns a
\* schedule_started_at, so the cap on executions is not reached here.
RestStatus(t) == IF t \in Automated THEN "scheduled" ELSE "paused"

GoTo(r, label) == pc' = [pc EXCEPT ![r] = label]

\* An activity step: the workflow moves on only if the completion is recorded.
Advance(r, ok, label) == pc' = IF ok THEN [pc EXCEPT ![r] = label] ELSE pc

Init ==
  /\ row \in [Tasks -> [status : InitStatuses, error : {FALSE}, total : {0},
                        cur : {None}, beat : {FALSE}, config : InitConfigs]]
  /\ link = [r \in Runs |-> "absent"]
  /\ seq = [r \in Runs |-> 0]
  /\ req \in [Runs -> Request]
  /\ \A r \in Runs : req[r].cont # r
  /\ serving = [r \in Runs |-> None]
  /\ pc = [r \in Runs |-> "idle"]
  /\ snap = [r \in Runs |-> [status |-> "paused", error |-> FALSE, total |-> 0,
                             cur |-> None, beat |-> FALSE, config |-> "null"]]
  /\ latest = [r \in Runs |-> "paused"]
  /\ reported = [r \in Runs |-> "unset"]
  /\ attempt = [r \in Runs |-> 0]
  /\ tries = [r \in Runs |-> 0]
  /\ execs = [r \in Runs |-> 0]
  /\ signalled = {}
  /\ edits = 0

-----------------------------------------------------------------------------
(* The HTTP endpoints *)

\* handleRunTask and StartTaskWorkflow.  ExecuteWorkflow hands back the run
\* already open under the same workflow id instead of starting another.  The
\* topic to continue is taken as the request names it: linked or not, of this task
\* or of another.
StartRun(r) ==
  /\ pc[r] = "idle"
  /\ LET same == {q \in Runs : Open(q) /\ WorkflowId(q) = WorkflowId(r)}
     IN \/ /\ same = {}
           /\ serving' = [serving EXCEPT ![r] = r]
           /\ attempt' = [attempt EXCEPT ![r] = 1]
           /\ GoTo(r, "resolve")
        \/ \E q \in same :
             /\ serving' = [serving EXCEPT ![r] = q]
             /\ UNCHANGED attempt
             /\ GoTo(r, "joined")
  /\ UNCHANGED <<dbVars, req, signalled, edits, snap, latest, reported, tries, execs>>

\* SignalCancel: Temporal stores the signal; the workflow has no channel for it.
Cancel(r) ==
  /\ Open(r)
  /\ Cardinality(signalled) < MaxSignals
  /\ signalled' = signalled \cup {r}
  /\ UNCHANGED <<dbVars, wfVars, req, serving, edits, pc>>

\* The web application writes the same table tasks.
UserEdit(t, s) ==
  /\ edits < MaxEdits
  /\ edits' = edits + 1
  /\ row' = [row EXCEPT ![t].status = s]
  /\ UNCHANGED <<link, seq, wfVars, req, serving, signalled, pc>>

-----------------------------------------------------------------------------
(* The workflow, up to the agent execution *)

\* Step 1: the row as it is now becomes the workflow's copy of the task.
ResolveTask(r) ==
  /\ pc[r] = "resolve"
  /\ IF TaskOf(r) \in Tasks
     THEN /\ snap' = [snap EXCEPT ![r] = row[TaskOf(r)]]
          /\ reported' = [reported EXCEPT ![r] = row[TaskOf(r)].status]
          /\ GoTo(r, "conflict")
     ELSE /\ GoTo(r, "notFound")
          /\ UNCHANGED <<snap, reported>>
  /\ UNCHANGED <<dbVars, envVars, latest, attempt, tries, execs>>

\* Step 1c: only a topic that is linked and running is a conflict.
DetectConflict(r) ==
  /\ pc[r] = "conflict"
  /\ LET busy == RunningTopics(TaskOf(r))
         clash == IF req[r].cont = None THEN busy # {} ELSE req[r].cont \in busy
     IN GoTo(r, IF clash THEN "conflicted" ELSE "timeout")
  /\ UNCHANGED <<dbVars, envVars, wfVars>>

\* Step 1d: TimeoutRunningTopics fails the running topics whose heartbeat is
\* old.  Nothing in this repository stamps task_topics.last_heartbeat_at, and a
\* row where it is NULL never matches.
TimeoutTopics(r, ok) ==
  /\ pc[r] = "timeout"
  /\ \E stale \in SUBSET (IF TopicHeartbeats THEN RunningTopics(TaskOf(r)) ELSE {}) :
       link' = IF snap[r].beat /\ TaskOf(r) \in TimeoutTasks
               THEN [x \in Runs |-> IF x \in stale THEN "failed" ELSE link[x]]
               ELSE link
  /\ Advance(r, ok, "setRunning")
  /\ UNCHANGED <<row, seq, envVars, wfVars>>

\* Step 3: decided on the copy of step 1, written to the row of now.
SetRunning(r, ok) ==
  /\ pc[r] = "setRunning"
  /\ row' = IF snap[r].status # "running" \/ snap[r].error
            THEN [row EXCEPT ![TaskOf(r)].status = "running",
                             ![TaskOf(r)].error = FALSE]
            ELSE row
  /\ reported' = IF ok THEN [reported EXCEPT ![r] = "running"] ELSE reported
  /\ Advance(r, ok, "backfill")
  /\ UNCHANGED <<link, seq, envVars, snap, latest, attempt, tries, execs>>

\* Step 4: an unpinned config is rewritten from TaskConfig.Raw, which is not
\* carried in the activity's JSON input, so only model and provider are left.
\* The workflow then reads task.Config.Model: a nil Config panics on every
\* replay, and the run stays blocked.
BackfillModelConfig(r, ok) ==
  /\ pc[r] = "backfill"
  /\ \E agentHasModel \in BOOLEAN :
       LET updated == agentHasModel /\ snap[r].config \in {"null", "unpinned"}
       IN row' = IF updated THEN [row EXCEPT ![TaskOf(r)].config = "stripped"] ELSE row
  /\ Advance(r, ok, IF snap[r].config = "null" THEN "blocked" ELSE "agent")
  /\ UNCHANGED <<link, seq, envVars, wfVars>>

\* Step 5: at most AgentTries executions per workflow attempt.  An execution
\* whose worker dies counts as one that failed.
RunAgentExecution(r, succeeds) ==
  /\ pc[r] = "agent"
  /\ tries' = [tries EXCEPT ![r] = @ + 1]
  /\ execs' = [execs EXCEPT ![r] = @ + 1]
  /\ GoTo(r, IF succeeds
             THEN IF req[r].cont = None THEN "count" ELSE "heartbeat"
             ELSE IF tries[r] + 1 < AgentTries THEN "agent" ELSE "pause")
  /\ UNCHANGED <<dbVars, envVars, snap, latest, reported, attempt>>

\* Mutant: one workflow attempt too many.
PauseAndRetryAgain(r, ok) ==
  /\ pc[r] = "pause"
  /\ row' = [row EXCEPT ![TaskOf(r)].status = "paused", ![TaskOf(r)].error = TRUE]
  /\ attempt' = [attempt EXCEPT ![r] = @ + 1]
  /\ tries' = [tries EXCEPT ![r] = 0]
  /\ GoTo(r, IF attempt[r] <= MaxAttempts THEN "resolve" ELSE "failed")
  /\ UNCHANGED <<link, seq, envVars, snap, latest, reported, execs>>

\* Mutant: the run is started anew, with all its attempts and tries.
PauseAndRetryForever(r, ok) ==
  /\ pc[r] = "pause"
  /\ row' = [row EXCEPT ![TaskOf(r)].status = "paused", ![TaskOf(r)].error = TRUE]
  /\ tries' = [tries EXCEPT ![r] = 0]
  /\ execs' = [execs EXCEPT ![r] = 0]
  /\ GoTo(r, "resolve")
  /\ UNCHANGED <<link, seq, envVars, snap, latest, reported, attempt>>

\* The failure branch of step 5.  runCompensations passes the compensations a
\* context without activity options, which the SDK rejects, so they change
\* nothing.  The workflow's own retry policy then starts it again.
PauseAfterFailure(r, ok) ==
  /\ pc[r] = "pause"
  /\ row' = [row EXCEPT ![TaskOf(r)].status = "paused", ![TaskOf(r)].error = TRUE]
  /\ \/ /\ ~ok
        /\ UNCHANGED <<pc, reported, attempt, tries>>
     \/ /\ ok /\ attempt[r] < MaxAttempts
        /\ reported' = [reported EXCEPT ![r] = "unset"]
        /\ attempt' = [attempt EXCEPT ![r] = @ + 1]
        /\ tries' = [tries EXCEPT ![r] = 0]
        /\ GoTo(r, "resolve")
     \/ /\ ok /\ attempt[r] = MaxAttempts
        /\ reported' = [reported EXCEPT ![r] = "paused"]
        /\ UNCHANGED <<attempt, tries>>
        /\ GoTo(r, "failed")
  /\ UNCHANGED <<link, seq, envVars, snap, latest, execs>>

-----------------------------------------------------------------------------
(* The workflow, after the agent execution *)

\* Mutant: the count is written back as it was read.
CountTopicAsRead(r, ok) ==
  /\ pc[r] = "count"
  /\ row' = [row EXCEPT ![TaskOf(r)].status = "running", ![TaskOf(r)].cur = r]
  /\ Advance(r, ok, "link")
  /\ UNCHANGED <<link, seq, envVars, wfVars>>

\* Step 5b, first activity: the count is the copy's count plus one.
CountTopic(r, ok) ==
  /\ pc[r] = "count"
  /\ row' = [row EXCEPT ![TaskOf(r)].status = "running",
                        ![TaskOf(r)].total = snap[r].total + 1,
                        ![TaskOf(r)].cur = r]
  /\ Advance(r, ok, "link")
  /\ UNCHANGED <<link, seq, envVars, wfVars>>

\* Step 5b, second activity: INSERT ... ON CONFLICT DO NOTHING.
AddTaskTopic(r, ok) ==
  /\ pc[r] = "link"
  /\ IF link[r] = "absent"
     THEN /\ link' = [link EXCEPT ![r] = "running"]
          /\ seq' = [seq EXCEPT ![r] = snap[r].total + 1]
     ELSE UNCHANGED <<link, seq>>
  /\ Advance(r, ok, "heartbeat")
  /\ UNCHANGED <<row, envVars, wfVars>>

\* Step 5c.
UpdateHeartbeat(r, ok) ==
  /\ pc[r] = "heartbeat"
  /\ row' = [row EXCEPT ![TaskOf(r)].beat = TRUE]
  /\ Advance(r, ok, "load")
  /\ UNCHANGED <<link, seq, envVars, wfVars>>

\* Mutant: the copy of step 1 stands in for the reloaded task.
LoadCopy(r) ==
  /\ pc[r] = "load"
  /\ row' = [row EXCEPT ![TaskOf(r)].beat = TRUE]
  /\ latest' = [latest EXCEPT ![r] = snap[r].status]
  /\ GoTo(r, "finishTopic")
  /\ UNCHANGED <<link, seq, envVars, snap, reported, attempt, tries, execs>>

\* OnTopicComplete is one activity of several statements.  First it stamps the
\* heartbeat and reloads the task.
LoadLatest(r) ==
  /\ pc[r] = "load"
  /\ row' = [row EXCEPT ![TaskOf(r)].beat = TRUE]
  /\ latest' = [latest EXCEPT ![r] = row[TaskOf(r)].status]
  /\ GoTo(r, "finishTopic")
  /\ UNCHANGED <<link, seq, envVars, snap, reported, attempt, tries, execs>>

\* Mutant: the topic row keeps its status.
SkipTopic(r) ==
  /\ pc[r] = "finishTopic"
  /\ GoTo(r, "settle")
  /\ UNCHANGED <<dbVars, envVars, wfVars>>

\* Then it completes the row of the topic, if the task has it.  An error is logged
\* and not returned.
FinishTopic(r) ==
  /\ pc[r] = "finishTopic"
  /\ \/ link' = [x \in Runs |->
                  IF x = TopicOf(r) /\ TaskOf(x) = TaskOf(r) /\ link[x] # "absent"
                  THEN "completed" ELSE link[x]]
     \/ StoreFaults /\ UNCHANGED link
  /\ GoTo(r, "settle")
  /\ UNCHANGED <<row, seq, envVars, wfVars>>

\* Then it moves the task to its resting status, unless the reloaded copy was
\* there already.  The workflow decodes the result into the wrong type, finds no
\* status in it and reports "paused".
Settle(r, ok) ==
  /\ pc[r] = "settle"
  /\ row' = IF latest[r] = RestStatus(TaskOf(r)) THEN row
            ELSE [row EXCEPT ![TaskOf(r)].status = RestStatus(TaskOf(r))]
  /\ reported' = IF ok THEN [reported EXCEPT ![r] = "paused"] ELSE reported
  /\ GoTo(r, IF ok THEN "done" ELSE "load")
  /\ UNCHANGED <<link, seq, envVars, snap, latest, attempt, tries, execs>>

\* Mutant: an interrupted completion is taken for a finished one.
AbandonCompletion(r) ==
  /\ pc[r] \in {"finishTopic", "settle"}
  /\ GoTo(r, "done")
  /\ UNCHANGED <<dbVars, envVars, wfVars>>

\* The worker dies inside OnTopicComplete; the retry starts from the top.
RestartCompletion(r) ==
  /\ pc[r] \in {"finishTopic", "settle"}
  /\ GoTo(r, "load")
  /\ UNCHANGED <<dbVars, envVars, wfVars>>

-----------------------------------------------------------------------------
Activity(r, ok) ==
  \/ TimeoutTopics(r, ok) \/ SetRunning(r, ok) \/ BackfillModelConfig(r, ok)
  \/ RunAgentExecution(r, ok) \/ PauseAfterFailure(r, ok) \/ CountTopic(r, ok)
  \/ AddTaskTopic(r, ok) \/ UpdateHeartbeat(r, ok) \/ Settle(r, ok)

Next ==
  \/ \E r \in Runs : \/ StartRun(r) \/ Cancel(r)
                     \/ ResolveTask(r) \/ DetectConflict(r)
                     \/ LoadLatest(r) \/ FinishTopic(r) \/ RestartCompletion(r)
  \/ \E r \in Runs, ok \in BOOLEAN : Activity(r, ok)
  \/ \E t \in Tasks, s \in UserStatuses : UserEdit(t, s)

Spec == Init /\ [][Next]_vars

-----------------------------------------------------------------------------
(* Fairness.  Temporal reschedules an activity until a completion is recorded, *)
(* so a step that stays possible is eventually taken with ok = TRUE.  Inside   *)
(* OnTopicComplete a crash moves the run back, so there the step is only       *)
(* possible again and again: an attempt that no crash interrupts comes         *)
(* eventually (strong fairness).  Clients, users and crashes owe nothing.      *)

Progress(r) ==
  \/ ResolveTask(r) \/ DetectConflict(r) \/ LoadLatest(r)
  \/ TimeoutTopics(r, TRUE) \/ SetRunning(r, TRUE) \/ BackfillModelConfig(r, TRUE)
  \/ \E ok \in BOOLEAN : RunAgentExecution(r, ok)
  \/ PauseAfterFailure(r, TRUE) \/ CountTopic(r, TRUE) \/ AddTaskTopic(r, TRUE)
  \/ UpdateHeartbeat(r, TRUE)

Fairness ==
  \A r \in Runs : /\ WF_vars(Progress(r))
                  /\ SF_vars(FinishTopic(r))
                  /\ SF_vars(Settle(r, TRUE))

FairSpec == Spec /\ Fairness

-----------------------------------------------------------------------------
(* Properties *)

Labels == {"idle", "resolve", "conflict", "timeout", "setRunning", "backfill",
           "blocked", "agent", "pause", "count", "link", "heartbeat", "load",
           "finishTopic", "settle"} \cup Closed

\* Every variable holds a value of its type.
TypeOK ==
  /\ row \in [Tasks -> TaskRow]
  /\ link \in [Runs -> TopicStatuses \cup {"absent"}]
  /\ seq \in [Runs -> Nat]
  /\ req \in [Runs -> Request]
  /\ serving \in [Runs -> Runs \cup {None}]
  /\ pc \in [Runs -> Labels]
  /\ snap \in [Runs -> TaskRow]
  /\ latest \in [Runs -> Statuses]
  /\ reported \in [Runs -> Statuses \cup {"unset"}]
  /\ attempt \in [Runs -> Nat]
  /\ tries \in [Runs -> Nat]
  /\ execs \in [Runs -> Nat]
  /\ signalled \subseteq Runs
  /\ edits \in Nat

\* A run that has passed step 1c and will still write the task's status.
Owes(r) ==
  \/ pc[r] \in {"setRunning", "backfill", "blocked", "agent", "pause", "count",
                "link", "heartbeat", "load"}
  \/ pc[r] \in {"finishTopic", "settle"} /\ latest[r] = "running"

\* A task row that says "running" has a run that will still take it back: the
\* writes of concurrent runs, the early return of OnTopicComplete on a stale
\* reload and the repeated activities never leave a task running with nobody to
\* move it on.
RunningIsOwned ==
  \A t \in Tasks : row[t].status = "running" => \E r \in Runs : TaskOf(r) = t /\ Owes(r)

\* The consequence a reader sees: once every run of a task is closed, the task is
\* not running.
QuiescentNotRunning ==
  \A t \in Tasks :
    row[t].status = "running" => \E r \in Runs : TaskOf(r) = t /\ Open(r)

\* A topic linked as running belongs to a run that is still open, so the conflict
\* that step 1c raises is never caused by a run that is over.
ActiveTopicHasRun ==
  \A r \in Runs : link[r] = "running" => Open(r)

\* No two agent executions of one task are in flight together.
SingleExecution ==
  \A q, r \in Runs :
    q # r /\ TaskOf(q) = TaskOf(r) => ~(pc[q] = "agent" /\ pc[r] = "agent")

\* The topics linked to a task have distinct sequence numbers, none above the
\* task's total_topics.
TopicsNumbered ==
  \A q, r \in Runs :
    link[q] # "absent" /\ link[r] # "absent" /\ TaskOf(q) = TaskOf(r) =>
      /\ seq[r] <= row[TaskOf(r)].total
      /\ q # r => seq[q] # seq[r]

\* Where all requests name a task the same way, no run is turned away by the
\* conflict check of step 1c: the workflow id has serialised them before.
NoConflict == \A r \in Runs : pc[r] # "conflicted"

\* The retries of the agent activity and those of the workflow multiply and do no
\* more: a run never executes the agent more often than MaxAttempts * AgentTries times.
ExecutionsBounded == \A r \in Runs : execs[r] <= MaxAttempts * AgentTries

\* The workflow task of a run that read a NULL config panics on every replay: the
\* run stays where it is.
Stuck(r) == pc[r] = "blocked" /\ snap[r].config = "null"

\* Every run that is started is eventually over, however many of its agent
\* executions and workflow attempts fail and are repeated, and however often a
\* worker dies; only a run whose own copy of the task has a NULL config stays open.
RunsSettle == \A r \in Runs : pc[r] = "resolve" ~> pc[r] \in Closed \/ Stuck(r)

\* A task that is running is eventually not, unless a run of it is stuck.
RunningEnds ==
  \A t \in Tasks :
    row[t].status = "running" ~>
      \/ row[t].status # "running"
      \/ \E r \in Runs : TaskOf(r) = t /\ Stuck(r)

-----------------------------------------------------------------------------
(* What comments of the code say, and the code does not do *)

\* store.go:65-66, activities.go:808-809: the running topics of a task are listed to
\* detect concurrent runs, so a run turned away by step 1c has a concurrent run: one
\* that is open and whose topic is running.
ConflictIsLive ==
  [][\A r \in Runs : pc[r] # "conflicted" /\ pc'[r] = "conflicted" =>
       \E x \in RunningTopics(TaskOf(r)) : Open(x)]_vars

=============================================================================
