--------------------------- MODULE TaskRunProofs ---------------------------
(***************************************************************************)
(* Proofs about TaskRun for every set of tasks, runs, keys and every bound: *)
(* type correctness, and that a running task always has a run that will    *)
(* move it on.                                                             *)
(***************************************************************************)
EXTENDS TaskRun, TLAPS

\* A run past step 1 works on a task that exists.
KnownTask ==
  \A r \in Runs :
    pc[r] \notin {"idle", "resolve", "joined", "notFound"} => TaskOf(r) \in Tasks

TypeInv == TypeOK /\ KnownTask

\* What the activities write to a row of tasks leaves a row of tasks.
LEMMA StatusPatch ==
  ASSUME NEW f \in [Tasks -> TaskRow], NEW t \in Tasks, NEW s \in Statuses
  PROVE  [f EXCEPT ![t].status = s] \in [Tasks -> TaskRow]
  BY DEF TaskRow

LEMMA ErrorPatch ==
  ASSUME NEW f \in [Tasks -> TaskRow], NEW t \in Tasks, NEW s \in Statuses, NEW e \in BOOLEAN
  PROVE  [f EXCEPT ![t].status = s, ![t].error = e] \in [Tasks -> TaskRow]
  BY DEF TaskRow

LEMMA TopicPatch ==
  ASSUME NEW f \in [Tasks -> TaskRow], NEW t \in Tasks, NEW s \in Statuses,
         NEW n \in Nat, NEW c \in Runs
  PROVE  [f EXCEPT ![t].status = s, ![t].total = n, ![t].cur = c] \in [Tasks -> TaskRow]
  BY DEF TaskRow

\* Each activity writes rows of tasks.
LEMMA RowType ==
  ASSUME row \in [Tasks -> TaskRow], snap \in [Runs -> TaskRow],
         NEW r \in Runs, NEW ok \in BOOLEAN, TaskOf(r) \in Tasks,
         \/ SetRunning(r, ok) \/ BackfillModelConfig(r, ok) \/ PauseAfterFailure(r, ok)
         \/ CountTopic(r, ok) \/ UpdateHeartbeat(r, ok) \/ Settle(r, ok) \/ LoadLatest(r)
  PROVE  row' \in [Tasks -> TaskRow]
<1>0. /\ "running" \in Statuses /\ "paused" \in Statuses
      /\ RestStatus(TaskOf(r)) \in Statuses
  BY DEF Statuses, RestStatus
<1>1. CASE SetRunning(r, ok)
  <2>1. [row EXCEPT ![TaskOf(r)].status = "running", ![TaskOf(r)].error = FALSE]
          \in [Tasks -> TaskRow]
    BY <1>0, ErrorPatch
  <2> QED BY <1>1, <2>1 DEF SetRunning
<1>2. CASE BackfillModelConfig(r, ok)
  BY <1>2 DEF BackfillModelConfig, TaskRow, Configs
<1>3. CASE PauseAfterFailure(r, ok)
  <2>1. [row EXCEPT ![TaskOf(r)].status = "paused", ![TaskOf(r)].error = TRUE]
          \in [Tasks -> TaskRow]
    BY <1>0, ErrorPatch
  <2> QED BY <1>3, <2>1 DEF PauseAfterFailure
<1>4. CASE CountTopic(r, ok)
  <2>1. snap[r].total + 1 \in Nat  BY DEF TaskRow
  <2>2. [row EXCEPT ![TaskOf(r)].status = "running",
                    ![TaskOf(r)].total = snap[r].total + 1,
                    ![TaskOf(r)].cur = r] \in [Tasks -> TaskRow]
    BY <1>0, <2>1, TopicPatch
  <2> QED BY <1>4, <2>2 DEF CountTopic
<1>5. CASE UpdateHeartbeat(r, ok) BY <1>5 DEF UpdateHeartbeat, TaskRow
<1>6. CASE Settle(r, ok)
  <2>1. [row EXCEPT ![TaskOf(r)].status = RestStatus(TaskOf(r))] \in [Tasks -> TaskRow]
    BY <1>0, StatusPatch
  <2> QED BY <1>6, <2>1 DEF Settle
<1>7. CASE LoadLatest(r)          BY <1>7 DEF LoadLatest, TaskRow
<1> QED BY <1>1, <1>2, <1>3, <1>4, <1>5, <1>6, <1>7

LEMMA RowFields ==
  ASSUME NEW x \in TaskRow
  PROVE  x.status \in Statuses /\ x.total \in Nat /\ x.config \in Configs
  BY DEF TaskRow

LEMMA FreshRow ==
  ASSUME NEW s \in Statuses, NEW c \in Configs
  PROVE  [status |-> s, error |-> FALSE, total |-> 0, cur |-> None, beat |-> FALSE,
          config |-> c] \in TaskRow
  BY DEF TaskRow

\* The initial states satisfy the type invariant.
LEMMA InitType == Init => TypeInv
<1> SUFFICES ASSUME Init PROVE TypeInv  OBVIOUS
<1>1. row \in [Tasks -> TaskRow]
  <2> DEFINE Fresh == [status : InitStatuses, error : {FALSE}, total : {0},
                       cur : {None}, beat : {FALSE}, config : InitConfigs]
  <2>1. ASSUME NEW x \in Fresh PROVE x \in TaskRow
    <3>1. /\ x.status \in InitStatuses /\ x.error = FALSE /\ x.total = 0
          /\ x.cur = None /\ x.beat = FALSE /\ x.config \in InitConfigs
      BY <2>1
    <3>2. x = [status |-> x.status, error |-> FALSE, total |-> 0, cur |-> None,
               beat |-> FALSE, config |-> x.config]
      BY <2>1, <3>1
    <3>3. x.status \in Statuses /\ x.config \in Configs
      BY <3>1, ConstantsAssumption
    <3>4. [status |-> x.status, error |-> FALSE, total |-> 0, cur |-> None,
           beat |-> FALSE, config |-> x.config] \in TaskRow
      BY <3>3, FreshRow
    <3> HIDE DEF Fresh
    <3> QED BY <3>2, <3>4
  <2>2. row \in [Tasks -> Fresh]  BY DEF Init
  <2> HIDE DEF Fresh
  <2> QED BY <2>1, <2>2
<1>2. [status |-> "paused", error |-> FALSE, total |-> 0, cur |-> None, beat |-> FALSE,
       config |-> "null"] \in TaskRow
  BY DEF TaskRow, Statuses, Configs
<1> QED
  BY <1>1, <1>2 DEF Init, TypeInv, TypeOK, KnownTask, TopicStatuses, Labels, Closed, Statuses

\* Each kind of step keeps the type invariant.
LEMMA RequestType ==
  ASSUME TypeInv, NEW r \in Runs, StartRun(r) \/ Cancel(r)
  PROVE  TypeInv'
<1>1. CASE StartRun(r)
  BY <1>1, ConstantsAssumption
  DEF TypeInv, TypeOK, KnownTask, StartRun, GoTo, dbVars, TaskOf, Labels, Closed
<1>2. CASE Cancel(r)
  BY <1>2 DEF TypeInv, TypeOK, KnownTask, Cancel, dbVars, wfVars, TaskOf
<1> QED BY <1>1, <1>2

LEMMA EditType ==
  ASSUME TypeInv, NEW t \in Tasks, NEW s \in UserStatuses, UserEdit(t, s)
  PROVE  TypeInv'
<1>1. s \in Statuses  BY ConstantsAssumption
<1>2. row \in [Tasks -> TaskRow]  BY DEF TypeInv, TypeOK
<1>3. [row EXCEPT ![t].status = s] \in [Tasks -> TaskRow]  BY <1>1, <1>2, StatusPatch
<1>4. row' \in [Tasks -> TaskRow]  BY <1>3 DEF UserEdit
<1> QED BY <1>4 DEF TypeInv, TypeOK, KnownTask, UserEdit, wfVars, TaskOf

LEMMA ReadType ==
  ASSUME TypeInv, NEW r \in Runs,
         ResolveTask(r) \/ DetectConflict(r) \/ RestartCompletion(r)
  PROVE  TypeInv'
<1>1. CASE ResolveTask(r)
  <2>1. TaskOf(r) \in Tasks =>
          row[TaskOf(r)] \in TaskRow /\ row[TaskOf(r)].status \in Statuses
    BY RowFields DEF TypeInv, TypeOK
  <2> QED
    BY <1>1, <2>1 DEF TypeInv, TypeOK, KnownTask, ResolveTask, GoTo, dbVars, envVars,
                      TaskOf, Labels, Closed
<1>2. CASE DetectConflict(r)
  BY <1>2 DEF TypeInv, TypeOK, KnownTask, DetectConflict, GoTo, dbVars, envVars, wfVars,
              TaskOf, Labels, Closed
<1>3. CASE RestartCompletion(r)
  BY <1>3 DEF TypeInv, TypeOK, KnownTask, RestartCompletion, GoTo, dbVars, envVars, wfVars,
              TaskOf, Labels, Closed
<1> QED BY <1>1, <1>2, <1>3

LEMMA CompletionType ==
  ASSUME TypeInv, NEW r \in Runs, LoadLatest(r) \/ FinishTopic(r)
  PROVE  TypeInv'
<1> TaskOf(r) \in Tasks
  BY DEF TypeInv, KnownTask, LoadLatest, FinishTopic
<1>1. CASE LoadLatest(r)
  BY <1>1, RowType, RowFields
  DEF TypeInv, TypeOK, KnownTask, LoadLatest, GoTo, envVars, TaskOf, Labels, Closed
<1>2. CASE FinishTopic(r)
  BY <1>2 DEF TypeInv, TypeOK, KnownTask, FinishTopic, GoTo, envVars, wfVars, TaskOf,
              Labels, Closed, TopicStatuses
<1> QED BY <1>1, <1>2

LEMMA ActivityType ==
  ASSUME TypeInv, NEW r \in Runs, NEW ok \in BOOLEAN, Activity(r, ok)
  PROVE  TypeInv'
<1> TaskOf(r) \in Tasks
  BY DEF TypeInv, KnownTask, Activity, TimeoutTopics, SetRunning, BackfillModelConfig,
         RunAgentExecution, PauseAfterFailure, CountTopic, AddTaskTopic,
         UpdateHeartbeat, Settle
<1> USE DEF TypeInv, TypeOK, KnownTask, TaskOf, Labels, Closed, GoTo, Advance, envVars,
            wfVars, dbVars
<1>1. CASE TimeoutTopics(r, ok)   BY <1>1 DEF TimeoutTopics, TopicStatuses
<1>2. CASE SetRunning(r, ok)
  BY <1>2, RowType DEF SetRunning, Statuses
<1>3. CASE BackfillModelConfig(r, ok)
  BY <1>3, RowType DEF BackfillModelConfig, Configs
<1>4. CASE RunAgentExecution(r, ok)  BY <1>4 DEF RunAgentExecution
<1>5. CASE PauseAfterFailure(r, ok)
  <2>1. row' \in [Tasks -> TaskRow]  BY <1>5, RowType
  <2>2. attempt[r] + 1 \in Nat  OBVIOUS
  <2> QED BY <1>5, <2>1, <2>2 DEF PauseAfterFailure, Statuses
<1>6. CASE CountTopic(r, ok)
  BY <1>6, RowType, RowFields DEF CountTopic, Statuses
<1>7. CASE AddTaskTopic(r, ok)
  <2>1. snap[r].total + 1 \in Nat  BY RowFields
  <2> QED BY <1>7, <2>1 DEF AddTaskTopic, TopicStatuses
<1>8. CASE UpdateHeartbeat(r, ok)
  BY <1>8, RowType DEF UpdateHeartbeat
<1>9. CASE Settle(r, ok)
  BY <1>9, RowType DEF Settle, Statuses, RestStatus
<1> QED BY <1>1, <1>2, <1>3, <1>4, <1>5, <1>6, <1>7, <1>8, <1>9 DEF Activity

\* Every variable of the task runner keeps its type, and no step of a run past
\* ResolveTask works on a task that does not exist.
LEMMA TypeInvariant == Spec => []TypeInv
<1>1. TypeInv /\ [Next]_vars => TypeInv'
  <2> SUFFICES ASSUME TypeInv, [Next]_vars PROVE TypeInv'  OBVIOUS
  <2>1. CASE UNCHANGED vars
    BY <2>1 DEF TypeInv, TypeOK, KnownTask, vars, dbVars, wfVars, envVars, TaskOf
  <2>2. CASE Next
    BY <2>2, RequestType, ReadType, CompletionType, ActivityType, EditType DEF Next
  <2> QED BY <2>1, <2>2
<1> QED BY InitType, <1>1, PTL DEF Spec

\* Every variable of the task runs keeps its type: the part of TypeInv that a run checks.
THEOREM TypeCorrect == Spec => []TypeOK
<1>1. TypeInv => TypeOK  BY DEF TypeInv
<1> QED BY TypeInvariant, <1>1, PTL

-----------------------------------------------------------------------------
(* A running task has a run that will move it on *)

\* A step of run r makes no task running without r owing the way back, drops
\* that debt only by paying it, and leaves every other run's debt alone.
OwnerStep(r) ==
  /\ \A t \in Tasks : row'[t].status = "running" =>
       row[t].status = "running" \/ (TaskOf(r) = t /\ Owes(r)')
  /\ Owes(r) /\ TaskOf(r) \in Tasks /\ row'[TaskOf(r)].status = "running" => Owes(r)'
  /\ \A q \in Runs \ {r} : Owes(q) => Owes(q)'
  /\ req' = req

LEMMA OwnerStepKeeps ==
  ASSUME RunningIsOwned, NEW r \in Runs, OwnerStep(r)
  PROVE  RunningIsOwned'
<1> SUFFICES ASSUME NEW t \in Tasks, row'[t].status = "running"
             PROVE  \E o \in Runs : TaskOf(o)' = t /\ Owes(o)'
  BY DEF RunningIsOwned
<1>0. \A o \in Runs : TaskOf(o)' = TaskOf(o)  BY DEF OwnerStep, TaskOf
<1>1. CASE TaskOf(r) = t /\ Owes(r)'  BY <1>0, <1>1
<1>2. CASE row[t].status = "running"
  <2>1. PICK o \in Runs : TaskOf(o) = t /\ Owes(o)  BY <1>2 DEF RunningIsOwned
  <2>2. CASE o = r
    <3>1. Owes(r)'  BY <2>1, <2>2 DEF OwnerStep
    <3> QED BY <1>0, <2>1, <2>2, <3>1
  <2>3. CASE o # r
    <3>1. Owes(o)'  BY <2>1, <2>3 DEF OwnerStep
    <3> QED BY <1>0, <2>1, <3>1
  <2> QED BY <2>2, <2>3
<1> QED BY <1>1, <1>2 DEF OwnerStep

\* Every step of a run is such a step.
LEMMA RequestOwner ==
  ASSUME TypeInv, NEW r \in Runs, StartRun(r) \/ Cancel(r)
  PROVE  OwnerStep(r)
<1>1. CASE StartRun(r)
  BY <1>1 DEF TypeInv, TypeOK, StartRun, GoTo, dbVars, OwnerStep, Owes
<1>2. CASE Cancel(r)
  BY <1>2 DEF Cancel, dbVars, wfVars, OwnerStep, Owes
<1> QED BY <1>1, <1>2

LEMMA ReadOwner ==
  ASSUME TypeInv, NEW r \in Runs,
         ResolveTask(r) \/ DetectConflict(r) \/ RestartCompletion(r)
  PROVE  OwnerStep(r)
<1> USE DEF TypeInv, TypeOK, GoTo, dbVars, envVars, wfVars, OwnerStep, Owes
<1>1. CASE ResolveTask(r)        BY <1>1 DEF ResolveTask
<1>2. CASE DetectConflict(r)     BY <1>2 DEF DetectConflict
<1>3. CASE RestartCompletion(r)  BY <1>3 DEF RestartCompletion
<1> QED BY <1>1, <1>2, <1>3

LEMMA CompletionOwner ==
  ASSUME TypeInv, NEW r \in Runs, LoadLatest(r) \/ FinishTopic(r)
  PROVE  OwnerStep(r)
<1> USE DEF TypeInv, TypeOK, GoTo, envVars, wfVars, OwnerStep, Owes
<1>1. CASE LoadLatest(r)
  <2>1. \A t \in Tasks : row'[t].status = row[t].status
    BY <1>1 DEF LoadLatest, TaskRow
  <2> QED BY <1>1, <2>1 DEF LoadLatest
<1>2. CASE FinishTopic(r)  BY <1>2 DEF FinishTopic
<1> QED BY <1>1, <1>2

LEMMA ActivityOwner ==
  ASSUME TypeInv, NEW r \in Runs, NEW ok \in BOOLEAN, Activity(r, ok)
  PROVE  OwnerStep(r)
<1>0. /\ pc \in [Runs -> Labels]
      /\ row \in [Tasks -> TaskRow]
      /\ \A t \in Tasks : t # TaskOf(r) => row'[t] = row[t]
  BY DEF TypeInv, TypeOK, Activity, TimeoutTopics, SetRunning, BackfillModelConfig,
         RunAgentExecution, PauseAfterFailure, CountTopic, AddTaskTopic,
         UpdateHeartbeat, Settle, dbVars
<1> USE DEF GoTo, Advance, envVars, wfVars, dbVars, OwnerStep, Owes
<1>1. CASE TimeoutTopics(r, ok)        BY <1>0, <1>1 DEF TimeoutTopics
<1>2. CASE SetRunning(r, ok)           BY <1>0, <1>2 DEF SetRunning
<1>3. CASE BackfillModelConfig(r, ok)
  <2>1. \A t \in Tasks : row'[t].status = row[t].status
    BY <1>0, <1>3 DEF BackfillModelConfig, TaskRow
  <2> QED BY <1>0, <1>3, <2>1 DEF BackfillModelConfig
<1>4. CASE RunAgentExecution(r, ok)    BY <1>0, <1>4 DEF RunAgentExecution
<1>5. CASE PauseAfterFailure(r, ok)
  <2>1. TaskOf(r) \in Tasks => row'[TaskOf(r)].status = "paused"
    BY <1>0, <1>5 DEF PauseAfterFailure, TaskRow
  <2> QED BY <1>0, <1>5, <2>1 DEF PauseAfterFailure
<1>6. CASE CountTopic(r, ok)           BY <1>0, <1>6 DEF CountTopic
<1>7. CASE AddTaskTopic(r, ok)         BY <1>0, <1>7 DEF AddTaskTopic
<1>8. CASE UpdateHeartbeat(r, ok)
  <2>1. \A t \in Tasks : row'[t].status = row[t].status
    BY <1>0, <1>8 DEF UpdateHeartbeat, TaskRow
  <2> QED BY <1>0, <1>8, <2>1 DEF UpdateHeartbeat
<1>9. CASE Settle(r, ok)
  <2>1. RestStatus(TaskOf(r)) # "running"  BY DEF RestStatus
  <2>2. TaskOf(r) \in Tasks /\ row'[TaskOf(r)].status = "running" => latest[r] # "running"
    BY <1>0, <1>9, <2>1 DEF Settle, TaskRow
  <2> QED BY <1>0, <1>9, <2>1, <2>2 DEF Settle
<1> QED BY <1>1, <1>2, <1>3, <1>4, <1>5, <1>6, <1>7, <1>8, <1>9 DEF Activity

\* The web application never writes "running".
LEMMA EditOwner ==
  ASSUME TypeInv, RunningIsOwned, NEW t \in Tasks, NEW s \in UserStatuses, UserEdit(t, s)
  PROVE  RunningIsOwned'
<1>1. s # "running"  BY RunningIsOursAssumption
<1>2. \A u \in Tasks : row'[u].status = "running" => row[u].status = "running"
  BY <1>1 DEF UserEdit, TypeInv, TypeOK, TaskRow
<1> QED BY <1>2 DEF UserEdit, RunningIsOwned, TaskOf, Owes, wfVars

\* A task whose row says "running" always has a run that will still write its
\* status: for any number of runs and tasks, with every retry of an activity, every
\* crash inside OnTopicComplete and every write of the web application.
THEOREM RunningOwned == Spec => []RunningIsOwned
<1>1. Init => RunningIsOwned
  <2> SUFFICES ASSUME Init PROVE \A t \in Tasks : row[t].status # "running"
    BY DEF RunningIsOwned
  <2>1. \A t \in Tasks : row[t].status \in InitStatuses  BY DEF Init
  <2> QED BY <2>1, RunningIsOursAssumption
<1>2. TypeInv /\ RunningIsOwned /\ [Next]_vars => RunningIsOwned'
  <2> SUFFICES ASSUME TypeInv, RunningIsOwned, [Next]_vars PROVE RunningIsOwned'
    OBVIOUS
  <2>1. CASE UNCHANGED vars
    BY <2>1 DEF RunningIsOwned, Owes, TaskOf, vars, dbVars, wfVars, envVars
  <2>2. CASE Next
    BY <2>2, OwnerStepKeeps, RequestOwner, ReadOwner, CompletionOwner, ActivityOwner,
       EditOwner DEF Next
  <2> QED BY <2>1, <2>2
<1> QED BY TypeInvariant, <1>1, <1>2, PTL DEF Spec

\* Once every run of a task is over, the task is not running.
THEOREM QuiescentTasks == Spec => []QuiescentNotRunning
<1>1. RunningIsOwned => QuiescentNotRunning
  BY DEF RunningIsOwned, QuiescentNotRunning, Owes, Open, Closed
<1> QED BY RunningOwned, <1>1, PTL

-----------------------------------------------------------------------------
(* A topic linked as running has an open run *)

\* The strengthening: the run is between AddTaskTopic and the statement that
\* completes its topic, and only a run that minted its topic links one.
TopicOwned ==
  \A r \in Runs :
    /\ link[r] = "running" => pc[r] \in {"link", "heartbeat", "load", "finishTopic"}
    /\ pc[r] \in {"count", "link"} \/ link[r] # "absent" => req[r].cont = None

LEMMA TopicOwnedStep ==
  ASSUME ~StoreFaults, TypeInv, TopicOwned, NEW r \in Runs,
         \/ StartRun(r) \/ Cancel(r) \/ ResolveTask(r) \/ DetectConflict(r)
         \/ LoadLatest(r) \/ FinishTopic(r) \/ RestartCompletion(r)
         \/ \E ok \in BOOLEAN : Activity(r, ok)
  PROVE  TopicOwned'
<1>0. /\ pc \in [Runs -> Labels]
      /\ link \in [Runs -> TopicStatuses \cup {"absent"}]
      /\ req' = req
  BY DEF TypeInv, TypeOK, StartRun, Cancel, ResolveTask, DetectConflict, LoadLatest,
         FinishTopic, RestartCompletion, Activity, TimeoutTopics, SetRunning,
         BackfillModelConfig, RunAgentExecution, PauseAfterFailure, CountTopic,
         AddTaskTopic, UpdateHeartbeat, Settle, envVars
<1>1. CASE link' = link /\ UNCHANGED pc
  BY <1>0, <1>1 DEF TopicOwned
<1>2. CASE FinishTopic(r)
  <2>1. \A x \in Runs : x # r => pc'[x] = pc[x]
    BY <1>0, <1>2 DEF FinishTopic, GoTo
  <2>2. pc'[r] = "settle"  BY <1>0, <1>2 DEF FinishTopic, GoTo
  <2>3. link' = [x \in Runs |->
                   IF x = TopicOf(r) /\ TaskOf(x) = TaskOf(r) /\ link[x] # "absent"
                   THEN "completed" ELSE link[x]]
    BY <1>2 DEF FinishTopic
  <2>4. link'[r] # "running"
    BY <1>0, <2>3 DEF TopicOwned, TopicOf
  <2> QED BY <1>0, <2>1, <2>2, <2>3, <2>4 DEF TopicOwned
<1>3. ASSUME NEW ok \in BOOLEAN, Activity(r, ok) PROVE TopicOwned'
  <2> USE <1>0 DEF TopicOwned, GoTo, Advance, dbVars
  <2>1. CASE TimeoutTopics(r, ok)
    <3>1. \A x \in Runs : link'[x] \in {link[x], "failed"} /\
                          (link'[x] # "absent" => link[x] # "absent")
      BY <2>1 DEF TimeoutTopics, RunningTopics
    <3>2. \A x \in Runs : pc'[x] = pc[x] \/ (x = r /\ pc[r] = "timeout" /\ pc'[r] = "setRunning")
      BY <2>1 DEF TimeoutTopics
    <3> QED BY <3>1, <3>2
  <2>2. CASE SetRunning(r, ok)           BY <2>2 DEF SetRunning
  <2>3. CASE BackfillModelConfig(r, ok)  BY <2>3 DEF BackfillModelConfig
  <2>4. CASE RunAgentExecution(r, ok)    BY <2>4 DEF RunAgentExecution
  <2>5. CASE PauseAfterFailure(r, ok)    BY <2>5 DEF PauseAfterFailure
  <2>6. CASE CountTopic(r, ok)           BY <2>6 DEF CountTopic
  <2>7. CASE AddTaskTopic(r, ok)         BY <2>7 DEF AddTaskTopic
  <2>8. CASE UpdateHeartbeat(r, ok)      BY <2>8 DEF UpdateHeartbeat
  <2>9. CASE Settle(r, ok)               BY <2>9 DEF Settle
  <2> QED BY <1>3, <2>1, <2>2, <2>3, <2>4, <2>5, <2>6, <2>7, <2>8, <2>9 DEF Activity
<1>4. CASE StartRun(r) \/ ResolveTask(r) \/ DetectConflict(r) \/ LoadLatest(r)
           \/ RestartCompletion(r)
  BY <1>0, <1>4 DEF TopicOwned, GoTo, dbVars, StartRun, ResolveTask, DetectConflict,
                    LoadLatest, RestartCompletion
<1>5. CASE Cancel(r)  BY <1>1, <1>5 DEF Cancel, dbVars
<1> QED BY <1>2, <1>3, <1>4, <1>5

LEMMA TopicOwnedInvariant == ~StoreFaults => (Spec => []TopicOwned)
<1> SUFFICES ASSUME ~StoreFaults PROVE Spec => []TopicOwned  OBVIOUS
<1>1. Init => TopicOwned  BY DEF Init, TopicOwned
<1>2. TypeInv /\ TopicOwned /\ [Next]_vars => TopicOwned'
  <2> SUFFICES ASSUME TypeInv, TopicOwned, [Next]_vars PROVE TopicOwned'  OBVIOUS
  <2>1. CASE UNCHANGED vars
    BY <2>1 DEF TopicOwned, vars, dbVars, envVars
  <2>2. ASSUME NEW t \in Tasks, NEW s \in UserStatuses, UserEdit(t, s) PROVE TopicOwned'
    BY <2>2 DEF UserEdit, TopicOwned
  <2> QED BY <2>1, <2>2, TopicOwnedStep DEF Next
<1> QED BY TypeInvariant, <1>1, <1>2, PTL DEF Spec

\* As long as the topic update of OnTopicComplete does not fail, a topic linked as
\* running belongs to an open run, so DetectConflict never turns a run away because
\* of a run that is over: for any number of runs, whatever is retried.
THEOREM TopicsHaveRuns == ~StoreFaults => (Spec => []ActiveTopicHasRun)
<1>1. TopicOwned => ActiveTopicHasRun
  BY DEF TopicOwned, ActiveTopicHasRun, Open, Closed
<1> QED BY TopicOwnedInvariant, <1>1, PTL

-----------------------------------------------------------------------------
(* One open run per workflow id *)

\* Two open runs never share a workflow id.
OneOpen ==
  \A q, r \in Runs :
    q # r /\ WorkflowId(q) = WorkflowId(r) => ~(Open(q) /\ Open(r))

\* Every step but StartRun opens nothing.
LEMMA OpensNothing ==
  ASSUME TypeInv, NEW r \in Runs,
         \/ Cancel(r) \/ ResolveTask(r) \/ DetectConflict(r)
         \/ LoadLatest(r) \/ FinishTopic(r) \/ RestartCompletion(r)
         \/ \E ok \in BOOLEAN : Activity(r, ok)
  PROVE  req' = req /\ \A q \in Runs : Open(q)' => Open(q)
<1>1. Open(r) /\ req' = req
  BY DEF Open, Closed, Cancel, ResolveTask, DetectConflict, LoadLatest,
         FinishTopic, RestartCompletion, Activity, TimeoutTopics, SetRunning,
         BackfillModelConfig, RunAgentExecution, PauseAfterFailure, CountTopic,
         AddTaskTopic, UpdateHeartbeat, Settle, envVars
<1>2. pc \in [Runs -> Labels]  BY DEF TypeInv, TypeOK
<1>3. \A q \in Runs : q # r => pc'[q] = pc[q]
  BY <1>2 DEF GoTo, Advance, Cancel, ResolveTask, DetectConflict, LoadLatest,
         FinishTopic, RestartCompletion, Activity, TimeoutTopics, SetRunning,
         BackfillModelConfig, RunAgentExecution, PauseAfterFailure, CountTopic,
         AddTaskTopic, UpdateHeartbeat, Settle
<1> QED BY <1>1, <1>3 DEF Open

LEMMA StartKeepsOneOpen ==
  ASSUME TypeInv, OneOpen, NEW r \in Runs, StartRun(r)
  PROVE  OneOpen'
<1>1. req' = req /\ pc \in [Runs -> Labels]  BY DEF StartRun, TypeInv, TypeOK
<1>2. \A q \in Runs : q # r => (Open(q)' <=> Open(q))
  BY <1>1 DEF StartRun, GoTo, Open
<1>3. Open(r)' => \A q \in Runs : Open(q) => WorkflowId(q) # WorkflowId(r)
  BY <1>1 DEF StartRun, GoTo, Open, Closed
<1> QED BY <1>1, <1>2, <1>3 DEF OneOpen, WorkflowId

LEMMA OneOpenInvariant == Spec => []OneOpen
<1>1. Init => OneOpen  BY DEF Init, OneOpen, Open
<1>2. TypeInv /\ OneOpen /\ [Next]_vars => OneOpen'
  <2> SUFFICES ASSUME TypeInv, OneOpen, [Next]_vars PROVE OneOpen'  OBVIOUS
  <2>1. CASE UNCHANGED vars
    BY <2>1 DEF OneOpen, Open, WorkflowId, vars, envVars
  <2>2. ASSUME NEW t \in Tasks, NEW s \in UserStatuses, UserEdit(t, s) PROVE OneOpen'
    BY <2>2 DEF UserEdit, OneOpen, Open, WorkflowId
  <2>3. ASSUME req' = req, \A q \in Runs : Open(q)' => Open(q) PROVE OneOpen'
    BY <2>3 DEF OneOpen, WorkflowId
  <2> QED BY <2>1, <2>2, <2>3, StartKeepsOneOpen, OpensNothing DEF Next
<1> QED BY TypeInvariant, <1>1, <1>2, PTL DEF Spec

\* With one way to name a task, its runs have one workflow id.
LEMMA OnlyOneOpen ==
  ASSUME \A j, k \in Keys : j = k, TypeInv, OneOpen,
         NEW q \in Runs, NEW r \in Runs, q # r, TaskOf(q) = TaskOf(r), Open(q)
  PROVE  ~Open(r)
<1>1. req[q].key \in Keys /\ req[r].key \in Keys
  BY DEF TypeInv, TypeOK, Request
<1>2. WorkflowId(q) = WorkflowId(r)  BY <1>1 DEF WorkflowId, TaskOf
<1> QED BY <1>2 DEF OneOpen

\* When all requests name a task the same way, Temporal's deduplication by workflow
\* id leaves at most one agent execution of a task in flight.
THEOREM OneExecution ==
  ASSUME \A j, k \in Keys : j = k
  PROVE  Spec => []SingleExecution
<1>1. TypeInv /\ OneOpen => SingleExecution
  BY OnlyOneOpen DEF SingleExecution, Open, Closed
<1> QED BY TypeInvariant, OneOpenInvariant, <1>1, PTL

-----------------------------------------------------------------------------
(* The attempts of the agent and of the workflow *)

\* Which executions a run may have begun: those of the attempts before this one, and
\* those of this one, none before it reaches the agent.
AttemptsCounted ==
  \A r \in Runs :
    /\ pc[r] \in {"idle", "joined"} => attempt[r] = 0 /\ tries[r] = 0 /\ execs[r] = 0
    /\ pc[r] \notin {"idle", "joined"} =>
         /\ attempt[r] <= MaxAttempts
         /\ execs[r] + AgentTries <= attempt[r] * AgentTries + tries[r]
    /\ pc[r] \in {"resolve", "conflict", "timeout", "setRunning", "backfill", "blocked"} =>
         tries[r] = 0
    /\ pc[r] = "agent" => tries[r] < AgentTries
    /\ tries[r] <= AgentTries

LEMMA OneMore ==
  ASSUME NEW a \in Nat, NEW k \in Nat
  PROVE  a * k \in Nat /\ (a + 1) * k = a * k + k
  OBVIOUS

LEMMA TimesGrows ==
  ASSUME NEW a \in Nat, NEW b \in Nat, NEW k \in Nat, a <= b
  PROVE  a * k <= b * k
<1>1. (b - a) * k >= 0  OBVIOUS
<1> QED BY <1>1

LEMMA CountedStep ==
  ASSUME TypeInv, AttemptsCounted, NEW r \in Runs,
         \/ StartRun(r) \/ Cancel(r) \/ ResolveTask(r) \/ DetectConflict(r)
         \/ LoadLatest(r) \/ FinishTopic(r) \/ RestartCompletion(r)
         \/ \E ok \in BOOLEAN : Activity(r, ok)
  PROVE  AttemptsCounted'
<1>0. /\ pc \in [Runs -> Labels] /\ attempt \in [Runs -> Nat]
      /\ tries \in [Runs -> Nat] /\ execs \in [Runs -> Nat]
      /\ MaxAttempts \in Nat \ {0} /\ AgentTries \in Nat \ {0}
  BY ConstantsAssumption DEF TypeInv, TypeOK
<1>1. CASE StartRun(r)
  <2>1. 1 * AgentTries = AgentTries  BY <1>0
  <2> QED BY <1>0, <1>1, <2>1 DEF StartRun, GoTo, AttemptsCounted
<1>2. CASE \/ Cancel(r) \/ ResolveTask(r) \/ DetectConflict(r)
           \/ LoadLatest(r) \/ FinishTopic(r) \/ RestartCompletion(r)
  BY <1>0, <1>2 DEF Cancel, ResolveTask, DetectConflict, LoadLatest, FinishTopic,
     RestartCompletion, GoTo, wfVars, AttemptsCounted
<1>3. ASSUME NEW ok \in BOOLEAN, Activity(r, ok) PROVE AttemptsCounted'
  <2>1. CASE RunAgentExecution(r, ok)
    BY <1>0, <2>1 DEF RunAgentExecution, GoTo, AttemptsCounted
  <2>2. CASE PauseAfterFailure(r, ok)
    <3>1. attempt[r] * AgentTries \in Nat
          /\ (attempt[r] + 1) * AgentTries = attempt[r] * AgentTries + AgentTries
      BY <1>0, OneMore
    <3> QED BY <1>0, <2>2, <3>1 DEF PauseAfterFailure, GoTo, AttemptsCounted
  <2>3. CASE \/ TimeoutTopics(r, ok) \/ SetRunning(r, ok) \/ BackfillModelConfig(r, ok)
             \/ CountTopic(r, ok) \/ AddTaskTopic(r, ok) \/ UpdateHeartbeat(r, ok)
             \/ Settle(r, ok)
    BY <1>0, <2>3 DEF TimeoutTopics, SetRunning, BackfillModelConfig, CountTopic,
       AddTaskTopic, UpdateHeartbeat, Settle, GoTo, Advance, wfVars, AttemptsCounted
  <2> QED BY <1>3, <2>1, <2>2, <2>3 DEF Activity
<1> QED BY <1>1, <1>2, <1>3

\* A run executes the agent at most MaxAttempts * AgentTries times, whatever both
\* bounds are, whichever activities are executed again and whatever the user does.
THEOREM RetriesMultiply == Spec => []ExecutionsBounded
<1>1. Init => AttemptsCounted
  BY ConstantsAssumption DEF Init, AttemptsCounted
<1>2. TypeInv /\ AttemptsCounted /\ [Next]_vars => AttemptsCounted'
  <2> SUFFICES ASSUME TypeInv, AttemptsCounted, [Next]_vars PROVE AttemptsCounted'
    OBVIOUS
  <2>1. CASE UNCHANGED vars
    BY <2>1 DEF AttemptsCounted, vars, wfVars
  <2>2. ASSUME NEW t \in Tasks, NEW s \in UserStatuses, UserEdit(t, s)
        PROVE  AttemptsCounted'
    BY <2>2 DEF UserEdit, AttemptsCounted, wfVars
  <2> QED BY <2>1, <2>2, CountedStep DEF Next
<1>3. TypeInv /\ AttemptsCounted => ExecutionsBounded
  <2> SUFFICES ASSUME TypeInv, AttemptsCounted, NEW r \in Runs
               PROVE  execs[r] <= MaxAttempts * AgentTries
    BY DEF ExecutionsBounded
  <2>1. /\ attempt[r] \in Nat /\ tries[r] \in Nat /\ execs[r] \in Nat
        /\ MaxAttempts \in Nat /\ AgentTries \in Nat
    BY ConstantsAssumption DEF TypeInv, TypeOK
  <2>2. MaxAttempts * AgentTries \in Nat /\ attempt[r] * AgentTries \in Nat
    BY <2>1, OneMore
  <2>3. CASE pc[r] \in {"idle", "joined"}
    BY <2>1, <2>2, <2>3 DEF AttemptsCounted
  <2>4. CASE pc[r] \notin {"idle", "joined"}
    <3>1. attempt[r] * AgentTries <= MaxAttempts * AgentTries
      BY <2>1, <2>4, TimesGrows DEF AttemptsCounted
    <3>2. execs[r] + AgentTries <= attempt[r] * AgentTries + tries[r]
          /\ tries[r] <= AgentTries
      BY <2>4 DEF AttemptsCounted
    <3> QED BY <2>1, <2>2, <3>1, <3>2
  <2> QED BY <2>3, <2>4
<1> QED BY TypeInvariant, <1>1, <1>2, <1>3, PTL DEF Spec

-----------------------------------------------------------------------------
(* No run is turned away *)

\* Only DetectConflict turns a run away.
LEMMA OnlyDetect ==
  ASSUME TypeInv, NoConflict, NEW r \in Runs,
         \/ StartRun(r) \/ Cancel(r) \/ ResolveTask(r)
         \/ LoadLatest(r) \/ FinishTopic(r) \/ RestartCompletion(r)
         \/ \E ok \in BOOLEAN : Activity(r, ok)
  PROVE  NoConflict'
BY DEF TypeInv, TypeOK, NoConflict, GoTo, Advance, StartRun, Cancel, ResolveTask,
       LoadLatest, FinishTopic, RestartCompletion, Activity, TimeoutTopics, SetRunning,
       BackfillModelConfig, RunAgentExecution, PauseAfterFailure, CountTopic,
       AddTaskTopic, UpdateHeartbeat, Settle

\* When all requests name a task the same way and the topic update does not fail, the
\* conflict check turns no run away: a running topic has an open run, and there is
\* no other open run.
THEOREM NothingConflicts ==
  ASSUME \A j, k \in Keys : j = k, ~StoreFaults
  PROVE  Spec => []NoConflict
<1>1. Init => NoConflict  BY DEF Init, NoConflict
<1>2. TypeInv /\ OneOpen /\ TopicOwned /\ NoConflict /\ [Next]_vars => NoConflict'
  <2> SUFFICES ASSUME TypeInv, OneOpen, TopicOwned, NoConflict, [Next]_vars
               PROVE  NoConflict'
    OBVIOUS
  <2>1. CASE UNCHANGED vars
    BY <2>1 DEF NoConflict, vars
  <2>2. ASSUME NEW t \in Tasks, NEW s \in UserStatuses, UserEdit(t, s) PROVE NoConflict'
    BY <2>2 DEF UserEdit, NoConflict
  <2>3. ASSUME NEW r \in Runs, DetectConflict(r) PROVE NoConflict'
    <3>1. Open(r)  BY <2>3 DEF DetectConflict, Open, Closed
    <3>2. \A x \in Runs : link[x] = "running" => Open(x) /\ x # r
      BY <2>3 DEF DetectConflict, TopicOwned, Open, Closed
    <3>3. RunningTopics(TaskOf(r)) = {}
      BY <3>1, <3>2, OnlyOneOpen DEF RunningTopics
    <3>4. pc' = [pc EXCEPT ![r] = "timeout"]
      BY <2>3, <3>3 DEF DetectConflict, GoTo
    <3> QED BY <3>4 DEF NoConflict, TypeInv, TypeOK
  <2> QED BY <2>1, <2>2, <2>3, OnlyDetect DEF Next
<1> QED
  BY TypeInvariant, OneOpenInvariant, TopicOwnedInvariant, <1>1, <1>2, PTL DEF Spec

-----------------------------------------------------------------------------
(* The numbers of topics *)

\* The copy of the row that a run will count from.
Counting(r) ==
  pc[r] \in {"conflict", "timeout", "setRunning", "backfill", "agent", "count", "link"}

\* Only a run that has reached AddTaskTopic is linked, a run at AddTaskTopic has counted
\* one more than its copy, and no topic of the task is numbered beyond that copy.
NumbersAhead ==
  /\ TopicsNumbered
  /\ \A x \in Runs : link[x] # "absent" =>
       pc[x] \in {"link", "heartbeat", "load", "finishTopic", "settle", "done"}
  /\ \A r, x \in Runs :
       Counting(r) /\ link[x] # "absent" /\ x # r /\ TaskOf(x) = TaskOf(r) =>
         seq[x] <= snap[r].total
  /\ \A r \in Runs : pc[r] = "link" => row[TaskOf(r)].total = snap[r].total + 1

\* A step that links nothing and counts nothing.
Uncounted ==
  /\ UNCHANGED <<seq, req>>
  /\ \A x \in Runs : link[x] = "absent" <=> link'[x] = "absent"
  /\ \A t \in Tasks : row'[t].total = row[t].total

LEMMA UncountedKeeps ==
  ASSUME TypeInv, NumbersAhead, NEW r \in Runs, Uncounted,
         \A x \in Runs \ {r} : pc'[x] = pc[x] /\ snap'[x] = snap[x],
         pc'[r] = pc[r] \/ (Counting(r)' => Counting(r) /\ pc'[r] # "link"),
         Counting(r)' => snap'[r] = snap[r],
         link[r] # "absent" =>
           pc'[r] \in {"link", "heartbeat", "load", "finishTopic", "settle", "done"}
  PROVE  NumbersAhead'
<1>0. /\ \A x \in Runs : TaskOf(x)' = TaskOf(x)
      /\ \A x \in Runs : link[x] # "absent" \/ pc[x] = "link" => TaskOf(x) \in Tasks
  BY DEF Uncounted, TaskOf, TypeInv, KnownTask, NumbersAhead
<1>1. TopicsNumbered'
  BY <1>0 DEF NumbersAhead, TopicsNumbered, Uncounted
<1>2. \A x \in Runs : link'[x] # "absent" =>
        pc'[x] \in {"link", "heartbeat", "load", "finishTopic", "settle", "done"}
  BY DEF NumbersAhead, Uncounted
<1>3. \A q, x \in Runs :
        Counting(q)' /\ link'[x] # "absent" /\ x # q /\ TaskOf(x) = TaskOf(q) =>
          seq'[x] <= snap'[q].total
  <2> SUFFICES ASSUME NEW q \in Runs, NEW x \in Runs, Counting(q)', link'[x] # "absent",
                      x # q, TaskOf(x) = TaskOf(q)
               PROVE  seq'[x] <= snap'[q].total
    OBVIOUS
  <2>1. Counting(q) /\ snap'[q] = snap[q]  BY DEF Counting
  <2> QED BY <2>1 DEF NumbersAhead, Uncounted
<1>4. \A q \in Runs : pc'[q] = "link" => row'[TaskOf(q)].total = snap'[q].total + 1
  <2> SUFFICES ASSUME NEW q \in Runs, pc'[q] = "link"
               PROVE  row'[TaskOf(q)].total = snap'[q].total + 1
    OBVIOUS
  <2>1. pc[q] = "link" /\ snap'[q] = snap[q]  BY DEF Counting
  <2> QED BY <1>0, <2>1 DEF NumbersAhead, Uncounted
<1> QED BY <1>0, <1>1, <1>2, <1>3, <1>4 DEF NumbersAhead

\* Every step but the reading of the row and the two that number a topic.
LEMMA UncountedStep ==
  ASSUME TypeInv, NumbersAhead, NEW r \in Runs,
         \/ StartRun(r) \/ Cancel(r) \/ DetectConflict(r)
         \/ LoadLatest(r) \/ FinishTopic(r) \/ RestartCompletion(r)
         \/ \E ok \in BOOLEAN :
              \/ TimeoutTopics(r, ok) \/ SetRunning(r, ok) \/ BackfillModelConfig(r, ok)
              \/ RunAgentExecution(r, ok) \/ PauseAfterFailure(r, ok)
              \/ UpdateHeartbeat(r, ok) \/ Settle(r, ok)
  PROVE  NumbersAhead'
<1>0. /\ pc \in [Runs -> Labels] /\ snap \in [Runs -> TaskRow]
      /\ row \in [Tasks -> TaskRow]
      /\ link \in [Runs -> TopicStatuses \cup {"absent"}]
  BY DEF TypeInv, TypeOK
<1> USE DEF GoTo, Advance, dbVars, wfVars, envVars
<1>1. UNCHANGED <<seq, req>>
  BY DEF StartRun, Cancel, DetectConflict, LoadLatest, FinishTopic, RestartCompletion,
         TimeoutTopics, SetRunning, BackfillModelConfig, RunAgentExecution,
         PauseAfterFailure, UpdateHeartbeat, Settle
<1>2. \A x \in Runs : link[x] = "absent" <=> link'[x] = "absent"
  <2>1. ASSUME NEW ok \in BOOLEAN, TimeoutTopics(r, ok)
        PROVE  \A x \in Runs : link[x] = "absent" <=> link'[x] = "absent"
    BY <2>1 DEF TimeoutTopics, RunningTopics
  <2>2. CASE FinishTopic(r)  BY <2>2 DEF FinishTopic
  <2>3. CASE link' = link  BY <2>3
  <2> QED
    BY <2>1, <2>2, <2>3
    DEF StartRun, Cancel, DetectConflict, LoadLatest, RestartCompletion, SetRunning,
        BackfillModelConfig, RunAgentExecution, PauseAfterFailure, UpdateHeartbeat, Settle
<1>3. \A t \in Tasks : row'[t].total = row[t].total
  BY <1>0 DEF TaskRow, StartRun, Cancel, DetectConflict, LoadLatest, FinishTopic,
         RestartCompletion, TimeoutTopics, SetRunning, BackfillModelConfig,
         RunAgentExecution, PauseAfterFailure, UpdateHeartbeat, Settle
<1>4. snap' = snap /\ \A x \in Runs \ {r} : pc'[x] = pc[x]
  BY <1>0 DEF StartRun, Cancel, DetectConflict, LoadLatest, FinishTopic, RestartCompletion,
         TimeoutTopics, SetRunning, BackfillModelConfig, RunAgentExecution,
         PauseAfterFailure, UpdateHeartbeat, Settle
<1>5. pc'[r] = pc[r] \/ (Counting(r)' => Counting(r) /\ pc'[r] # "link")
  BY <1>0 DEF Counting, StartRun, Cancel, DetectConflict, LoadLatest, FinishTopic,
         RestartCompletion, TimeoutTopics, SetRunning, BackfillModelConfig,
         RunAgentExecution, PauseAfterFailure, UpdateHeartbeat, Settle
<1>6. link[r] # "absent" =>
        pc'[r] \in {"link", "heartbeat", "load", "finishTopic", "settle", "done"}
  BY <1>0 DEF NumbersAhead, StartRun, Cancel, DetectConflict, LoadLatest, FinishTopic,
         RestartCompletion, TimeoutTopics, SetRunning, BackfillModelConfig,
         RunAgentExecution, PauseAfterFailure, UpdateHeartbeat, Settle
<1> HIDE DEF GoTo, Advance, dbVars, wfVars, envVars
<1>7. Uncounted  BY <1>1, <1>2, <1>3 DEF Uncounted
<1> QED BY <1>4, <1>5, <1>6, <1>7, UncountedKeeps

LEMMA ResolveNumbers ==
  ASSUME TypeInv, NumbersAhead, NEW r \in Runs, ResolveTask(r)
  PROVE  NumbersAhead'
<1>0. /\ pc \in [Runs -> Labels] /\ snap \in [Runs -> TaskRow]
      /\ UNCHANGED <<row, link, seq, req>> /\ pc[r] = "resolve" /\ link[r] = "absent"
  BY DEF TypeInv, TypeOK, ResolveTask, dbVars, envVars, NumbersAhead
<1>1. \A x \in Runs \ {r} : pc'[x] = pc[x] /\ snap'[x] = snap[x]
  BY <1>0 DEF ResolveTask, GoTo
<1>2. pc'[r] = "notFound" \/ (pc'[r] = "conflict" /\ snap'[r] = row[TaskOf(r)])
  BY <1>0 DEF ResolveTask, GoTo
<1>3. TopicsNumbered'
  BY <1>0 DEF NumbersAhead, TopicsNumbered, TaskOf
<1>4. \A x \in Runs : link[x] # "absent" /\ TaskOf(x) = TaskOf(r) =>
        seq[x] <= row[TaskOf(r)].total
  BY DEF NumbersAhead, TopicsNumbered
<1> QED
  BY <1>0, <1>1, <1>2, <1>3, <1>4 DEF NumbersAhead, Counting, TaskOf

LEMMA CountNumbers ==
  ASSUME \A j, k \in Keys : j = k, TypeInv, OneOpen, NumbersAhead,
         NEW r \in Runs, NEW ok \in BOOLEAN, CountTopic(r, ok)
  PROVE  NumbersAhead'
<1>0. /\ pc \in [Runs -> Labels] /\ snap \in [Runs -> TaskRow]
      /\ row \in [Tasks -> TaskRow] /\ seq \in [Runs -> Nat]
      /\ UNCHANGED <<link, seq, req, snap>> /\ pc[r] = "count" /\ link[r] = "absent"
      /\ TaskOf(r) \in Tasks
  BY DEF TypeInv, TypeOK, KnownTask, CountTopic, envVars, wfVars, NumbersAhead
<1>1. /\ \A x \in Runs \ {r} : pc'[x] = pc[x]
      /\ pc'[r] \in {"count", "link"}
  BY <1>0 DEF CountTopic, Advance
<1>2. /\ row'[TaskOf(r)].total = snap[r].total + 1
      /\ \A t \in Tasks \ {TaskOf(r)} : row'[t] = row[t]
  BY <1>0 DEF CountTopic, TaskRow
<1>3. \A x \in Runs \ {r} : pc[x] = "link" => TaskOf(x) # TaskOf(r) /\ TaskOf(x) \in Tasks
  <2>1. Open(r)  BY <1>0 DEF Open, Closed
  <2> QED BY <2>1, OnlyOneOpen DEF Open, Closed, TypeInv, KnownTask
<1>4. \A x \in Runs : link[x] # "absent" /\ TaskOf(x) = TaskOf(r) =>
        seq[x] <= snap[r].total
  BY <1>0 DEF NumbersAhead, Counting
<1>5. snap[r].total \in Nat  BY <1>0, RowFields
<1>6. \A x \in Runs : link[x] # "absent" => seq[x] <= row'[TaskOf(x)].total
  <2> SUFFICES ASSUME NEW x \in Runs, link[x] # "absent"
               PROVE  seq[x] <= row'[TaskOf(x)].total
    OBVIOUS
  <2>1. CASE TaskOf(x) = TaskOf(r)  BY <1>0, <1>2, <1>4, <1>5, <2>1
  <2>2. CASE TaskOf(x) # TaskOf(r)
    <3>1. TaskOf(x) \in Tasks  BY DEF NumbersAhead, TypeInv, KnownTask
    <3> QED BY <1>2, <2>2, <3>1 DEF NumbersAhead, TopicsNumbered
  <2> QED BY <2>1, <2>2
<1>7. TopicsNumbered'
  BY <1>0, <1>6 DEF NumbersAhead, TopicsNumbered, TaskOf
<1>8. \A q \in Runs : pc'[q] = "link" => row'[TaskOf(q)].total = snap[q].total + 1
  BY <1>1, <1>2, <1>3 DEF NumbersAhead
<1>9. \A q \in Runs : Counting(q)' => Counting(q)
  BY <1>0, <1>1 DEF Counting
<1> QED
  BY <1>0, <1>1, <1>7, <1>8, <1>9 DEF NumbersAhead, TaskOf

LEMMA LinkNumbers ==
  ASSUME \A j, k \in Keys : j = k, TypeInv, OneOpen, NumbersAhead,
         NEW r \in Runs, NEW ok \in BOOLEAN, AddTaskTopic(r, ok)
  PROVE  NumbersAhead'
<1>0. /\ pc \in [Runs -> Labels] /\ snap \in [Runs -> TaskRow]
      /\ seq \in [Runs -> Nat] /\ link \in [Runs -> TopicStatuses \cup {"absent"}]
      /\ UNCHANGED <<row, req, snap>> /\ pc[r] = "link"
  BY DEF TypeInv, TypeOK, AddTaskTopic, envVars, wfVars
<1>1. /\ \A x \in Runs \ {r} : pc'[x] = pc[x] /\ link'[x] = link[x] /\ seq'[x] = seq[x]
      /\ pc'[r] \in {"link", "heartbeat"}
  BY <1>0 DEF AddTaskTopic, Advance
<1>2. \/ link'[r] = link[r] /\ seq'[r] = seq[r]
      \/ link[r] = "absent" /\ seq'[r] = snap[r].total + 1
  BY <1>0 DEF AddTaskTopic
<1>3. \A x \in Runs \ {r} : Open(x) => TaskOf(x) # TaskOf(r)
  <2>1. Open(r)  BY <1>0 DEF Open, Closed
  <2> QED BY <2>1, OnlyOneOpen
<1>4. /\ \A x \in Runs \ {r} : link[x] # "absent" /\ TaskOf(x) = TaskOf(r) =>
           seq[x] <= snap[r].total
      /\ row[TaskOf(r)].total = snap[r].total + 1
      /\ snap[r].total \in Nat
  BY <1>0, RowFields DEF NumbersAhead, Counting
<1>5. \A q \in Runs : Counting(q)' => Counting(q) /\ Open(q)
  BY <1>0, <1>1 DEF Counting, Open, Closed
<1>6. TopicsNumbered'
  <2>1. CASE link'[r] = link[r] /\ seq'[r] = seq[r]
    BY <1>0, <1>1, <2>1 DEF NumbersAhead, TopicsNumbered, TaskOf
  <2>2. CASE link[r] = "absent" /\ seq'[r] = snap[r].total + 1
    BY <1>0, <1>1, <1>4, <2>2 DEF NumbersAhead, TopicsNumbered, TaskOf
  <2> QED BY <1>2, <2>1, <2>2
<1>7. \A q, x \in Runs :
        Counting(q)' /\ link'[x] # "absent" /\ x # q /\ TaskOf(x) = TaskOf(q) =>
          seq'[x] <= snap[q].total
  BY <1>1, <1>3, <1>5 DEF NumbersAhead
<1> QED
  BY <1>0, <1>1, <1>6, <1>7 DEF NumbersAhead, TaskOf

\* When all requests name a task the same way, the topics of a task have numbers of their
\* own, none beyond the task's count, although each run counts from a copy of the row
\* and its activities are executed again: nobody counts between its copy and its link.
THEOREM TopicsAreNumbered ==
  ASSUME \A j, k \in Keys : j = k
  PROVE  Spec => []TopicsNumbered
<1>1. Init => NumbersAhead
  BY DEF Init, NumbersAhead, TopicsNumbered, Counting
<1>2. TypeInv /\ OneOpen /\ NumbersAhead /\ [Next]_vars => NumbersAhead'
  <2> SUFFICES ASSUME TypeInv, OneOpen, NumbersAhead, [Next]_vars PROVE NumbersAhead'
    OBVIOUS
  <2>1. CASE UNCHANGED vars
    BY <2>1 DEF NumbersAhead, TopicsNumbered, Counting, TaskOf, vars, dbVars, wfVars, envVars
  <2>2. ASSUME NEW t \in Tasks, NEW s \in UserStatuses, UserEdit(t, s)
        PROVE  NumbersAhead'
    <3>1. UNCHANGED <<link, seq, snap, req, pc>>
          /\ \A u \in Tasks : row'[u].total = row[u].total
      BY <2>2 DEF UserEdit, wfVars, TypeInv, TypeOK, TaskRow
    <3>2. \A x \in Runs : link[x] # "absent" \/ pc[x] = "link" => TaskOf(x) \in Tasks
      BY DEF NumbersAhead, TypeInv, KnownTask
    <3> QED BY <3>1, <3>2 DEF NumbersAhead, TopicsNumbered, Counting, TaskOf
  <2> QED
    BY <2>1, <2>2, UncountedStep, ResolveNumbers, CountNumbers, LinkNumbers
    DEF Next, Activity
<1>3. NumbersAhead => TopicsNumbered  BY DEF NumbersAhead
<1> QED BY TypeInvariant, OneOpenInvariant, <1>1, <1>2, <1>3, PTL DEF Spec

=============================================================================
