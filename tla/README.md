# Formal models of egent-lobehub

TLA+ modules of the parts of egent-lobehub in which several actors, several stores or
several attempts meet, the TLC runs that check them on small instances, and TLAPS proofs of
properties that hold for every instance. File and line numbers are those of the
repository's `src/`.

## 1. Inventory

| Component | State it keeps | Operations | Talks to |
|---|---|---|---|
| **Task runs** `runtime/task/{workflow,activities,worker,pg_store}.go` | rows of `tasks` and `task_topics`; Temporal's workflow histories | `POST /v1/tasks/run`, cancel, status query; `TaskRunWorkflow` and its activities | Temporal, Postgres, the agent executor; the web application writes the same `tasks` rows |
| **Task agent executor** `runtime/task/agent_executor.go` | the topic and operation id of one run | execute one agent turn and drain its stream | runtime, tools |
| **MCP manager** `mcp/manager.go` | table of connections, `closed`, a WaitGroup, a `reconnectMu` per connection | `LoadFromConfig`, `ConnectServer`, `CallTool`, `reconnectServer`, `Close` | MCP servers that may forget sessions |
| **MCP stdio transport** `mcp/stdio_transport.go` | a child process, its pipes, a queue of messages | read, write, close | child process, MCP library |
| **Workspaces** `workspace_handlers.go`, `authz/client.go` | tables `workspaces`, `workspace_members`; Keto's relation tuples | create, bootstrap, add or update a member, remove, leave, delete; the membership gate | Postgres and Keto, with no common transaction |
| **Edit lock** `lock/mutex.go` | one Redis key per resource | acquire, release, `CanWrite` | Redis; the TypeScript stack writes the same keys |
| **Agent execution** `agent_exec_handler.go`, `runtime/aiAgent.go` | rows of `agent_operations`, `topics`, `messages`; the map agent ↔ operation | run an agent, collect or stream its events | agent library, Postgres, the client |
| Approval gate, interventions `runtime/approval.go`, `intervention_handlers.go` | a gate and a store of interventions; nothing builds the one or fills the other | interrupt, resume | nothing |
| **Runtime**, tool resolver `runtime/*.go` | `started`, a runner, a registry of tools | register, resolve, start, query, close | model providers, every tool |
| **Tool middleware** `middleware/*.go` | none | permission gate, error classification, truncation | wraps every tool |
| **Memory palace** `memory/palace/*.go` | `user_memories` and five layer tables | create, update, delete, delete all, search | Postgres |
| **Memory manager, MuninnDB store** `memory/*.go` | a cache of engram ids | store, recall, delete, list, purge | MuninnDB |
| **Memory extraction** `extraction_handler.go` | a row of `async_tasks`, jobs of `river_job` | start, poll | Postgres; a worker in another program |
| **Composio connector** `connectors/composio/*.go`, `composio_handlers.go` | `composioConns`; accounts at Composio; rows of `user_installed_plugins` | connect, poll, update, delete, execute an action | Composio, the table's REST service |
| **Chat handlers** `chat_handlers.go`, `handlers.go` | rows of `topics`, `threads`, `messages`, `documents` | send, archive a tool result, completions | Postgres, runtime |
| Others: MCP configuration and adapter, palace search, connector handlers, documents, knowledge, key vault, agent construction, configuration, tracing, `main.go` | none that two actors share | parse, search, encrypt, embed, wire | |

Bold components have a module. What is hard, and what makes each one correct:

* *Task runs.* A run is a sequence of activities that Temporal repeats until their completion
  is recorded; runs of one task, writes of the web application and crashes interleave
  between them; every decision of a run uses a copy of the task read in its first step.
  Correct when no task is left `running` with nobody to move it on, no topic stays `running`
  after its run, topic numbers do not clash, one agent executes at a time, every run ends.
* *MCP manager.* Calls use a connection after they have released the lock; two calls
  reconnect one server; loading and `Close` race with both. Correct when no session leaks, no
  closed session can be found, nothing is registered after `Close`, calls and `Close` end.
* *MCP stdio transport.* A decoder, a reader, writers and `Close` meet over two pipes and an
  unbuffered channel. Correct when messages are read in order and once, and everybody
  returns when the connection is closed, whatever the child does.
* *Workspaces.* Two stores, written one after the other, requests that interleave, calls
  that fail in between. Correct when access implies a row (now or before), "ok" can be
  believed, and a workspace that has no owner does not get one by accident.
* *Edit lock.* The key expires while its holder works, answers of Redis are lost, and every
  way out of a call deletes a key. Correct when nobody frees the lock of another.
* *Agent execution.* Statements use the request's context, which ends with the client, and their
  errors are dropped. Correct when row and client are never told opposite things.
* *Tool middleware.* A failed tool may have had its effect, and a result may be cut in the middle of a rune. Correct
  when an unknown failure is not called retryable, and a cut result is still text.
* *Memory palace.* Multi-statement transactions at read committed, and callers who supply ids. Correct when a memory
  has both its rows and no third, a deletion answered "ok" is complete, and waiting requests are answered.
* *MuninnDB store.* A cache filled and emptied in steps of its own after remote calls, and batches that fail
  half-way. Correct when an id never stands for another memory.
* *Extraction, chat.* Several statements, with and without a transaction, any of which fails or
  loses its answer. Correct when the answer does not claim what was not done, and nothing is half stored.
* *Composio.* Accounts looked up in a table of all users while others write to it. Correct
  when an action runs on an account of the caller.

`PROJECT.json` lists the hazards of the code line by line, with the property that covers each
or the reason why none does.

## 2. Modules

### `TaskRun` (`MCTaskRun`, `TaskRunProofs`)

A run `r` is one `POST /v1/tasks/run`; its name stands also for the topic and the operation
that request mints. `row` is the table `tasks` (status, error, `total_topics`, current topic,
whether a heartbeat was ever stamped, the shape of `config`), `link` and `seq` are
`task_topics`, `snap[r]` is the workflow's variable `task`, read once in step 1 and used for every
later decision. One action per step of `TaskRunWorkflow`:

| Action | Code |
|---|---|
| `StartRun` | `handleRunTask`, `StartTaskWorkflow`: the workflow id is the text of the request (`worker.go:207`); Temporal hands back an open workflow with that id |
| `ResolveTask`, `DetectConflict`, `TimeoutTopics` | `workflow.go` steps 1, 1c, 1d |
| `SetRunning`, `BackfillModelConfig` | steps 2 to 4 |
| `RunAgentExecution`, `PauseAfterFailure` | step 5 with its two retry policies and the failure branch |
| `CountTopic`, `AddTaskTopic`, `UpdateHeartbeat` | steps 5b, 5c |
| `LoadLatest`, `FinishTopic`, `Settle`, `RestartCompletion` | `OnTopicComplete`, statement by statement, and the death of its worker |
| `Cancel`, `UserEdit` | the cancel signal, which nothing receives; a write of the web application |

An activity takes a parameter `ok`: with `ok = FALSE` the writes are done and the completion
is not recorded, so the activity runs again. `serving`, `reported` and `signalled` are what the
endpoints show; no property constrains them (see section 6).

### `McpManager` (`MCMcpManager`, `McpManagerProofs`)

A step is a locked region of `Manager.mu` or one call of a session; the read lock of `CallTool`
spans two steps because `Close` swaps `closed` without a lock. `servers` is the table, `session[k]` the
state of each connection ever made (unused, open, lost by the server, closed), `pc[c]` the progress
of a call, `conn[c]` and `fresh[c]` its variables. `Holding(k)` is the set of calls inside the `reconnectMu` of
`k`; `Counted` the calls the WaitGroup counts. `CloseResume` models `sync.WaitGroup.Wait`, which
panics when the counter is positive again after it was woken.

### `Workspaces` (`MCWorkspaces`, `WorkspacesProofs`)

A step is one statement, or one transaction, on one store. `workspaces` and `role` are the
tables, `tuples` is Keto, `pc[r]` and `req[r]` a request under way. `deleted` is a history variable: the
rows that requests have deleted. `PageSize` is the page of `ListTuples`; with `KetoFaults` every call
of Keto may fail, and a request may stop between the two stores.

### `EditLock`, `Lease` (`MCServices`, `EditLockProofs`)

`EditLock` is the lock on one resource. `key` is the value of the Redis key: free, the token of a call of
`Acquire` (the call stands for its token, which redsync draws at random) or the payload of a session of the
TypeScript stack. `SetKey` is the moment Redis executes `SET NX EX`; `Granted` and `Denied` what the caller
learns of it, which may be an error although the `SET` took effect. Before `Lock` returns without the lock,
redsync deletes its own token (`Undo`). `Release` does not look at the result of `Unlock`. `ExpireKey` is the end of
the 30 seconds; it may come at any time. `enabled = FALSE` is the stack without Redis, in which everybody is granted.

`Lease` is the abstract specification: one owner at a time, who loses the lease by giving it back or by its
expiry, and by nothing anybody else does. The refinement mapping takes `owner` from `key`, and `client[o]` from how
far each call and session has come: "out" until its `SET` took effect, "in" until it has given up or released.
So a call that believes it was refused, whose `SET` has succeeded, is "in" and leaves with its `Undo`.

### `AgentExec` (`MCHandlers`, `HandlersProofs`)

The two endpoints that run an agent, each with or without a stream (`mode`). `row` is `agent_operations`, `stored` the
other rows, `opOf` and `taskOf` the two maps of `opIDMap`, `run` the agent with its unread events, `said` what
the client got. A statement (`Put`, `Set`) has its effect only while the client is connected, since it uses the request's context,
and even then may fail; the handler goes on either way and `lost` remembers it. `CheckClient` is the
`select` on the context in the stream's loop.

### `StdioConn` (`MCHandlers`, `HandlersProofs`)

The child writes values, each a batch of messages, a value that is none, or text that does not parse. `decoder`
is the goroutine that offers them on an unbuffered channel, `reader` the one caller of `Read`, `msgs` the
`queue` of `stdioConn`, `writer` the callers of `Write`, `closer` the waits of `Close`: end of input, SIGTERM, SIGKILL.
The child need not react to any of them.

### `SendChat` (`MCHandlers`, `HandlersProofs`)

`POST /v1/chat/send` as one transaction, a statement at a time; each message names the one before as its
parent. Two statements drop their error (`UpdateUnchecked`): the transaction is then `aborted` in the database, its later
statements fail, its commit is a rollback. What the answer lists is left out: the loops over the rows do not ask for an error when they
end (section 6), so the code promises nothing of the list. `archiveToolResult` is the same with one row. A topic that a request creates gets an id that no older topic has
(`NewTopicsAssumption`).

### `Palace` (`MCHandlers`, `PalaceProofs`)

The transactions of one user, a statement at a time. Committed rows are `memory` (child to parent id) and `parents`;
what an open transaction has inserted follows from its place `pc[r]`, what it has deleted is
`gone[r]` and `goneParents[r]` and blocks others (`Blockers`). A `DELETE` over a set is two steps: the rows
it finds when it starts (`FindRows`, `FindParents`), and their deletion once nobody holds them. `CheckParents` is the foreign
key check at the end of the parents' `DELETE`, which also waits; `BreakDeadlock` is Postgres'
detector. A parent row carries the child it was created with, so that an id that is deleted
and inserted again is another row. Callers of all layers but contexts may supply any id, used or not. `orphaned` is a history
variable: the ids whose parent was deleted while a row still named it. Only a context can lose its parent so: contexts have no foreign
key. The database itself (locks, foreign keys, deadlock
detection) is external code, modelled from what `pgstore.go` and its comments rely on.

### `EngramCache` (`MCServices`, `EngramCacheProofs`)

`engram` and `forgotten` are the remote database, `idCache` the cache of the store, `memory[m]` the calls under way. Every
remote call is one step, every write to the cache another. `WriteBatch` answers for each item of its chunk with an id, with nothing or with an
error, and the index of the item in the chunk; `CacheResult` takes one result at a time and stops at an error. A sweep (`Search`,
`List`, `Activate`) caches whatever it was given, later. `PurgeOlderThan` lists and then deletes.

### `Extraction` (`MCServices`, `ServicesProofs`)

A request writes a row, lists the topics, inserts one job for each and writes the status. `Write` may have no effect, an
insert may take effect without an acknowledgement; `Count` counts the acknowledged ones.

### `ToolResult` (`MCServices`, `ServicesProofs`)

`ToolResult` is a pure function over bounded inputs: `ClassifyKind` (the code, then the status
number found in the message, then the keywords, by rank) over all combinations, and `Cutoff` over all results of up to `MaxRunes` runes of 1 to 4 bytes;
`Ends` gives the byte offset at which each rune ends.

### `Connections` (`MCServices`, `MCConnections`, `ServicesProofs`)

`account` and `linkedBy` are Composio's, `conn` is `composioConns`, `plugin` the table that the web application
writes. `AccountOf` is what `RESTAccountStore.Resolve` makes of the row it was sent; `Resolvable` the rows the service may send,
since the query names the app, not the user, and asks for one. A row without a user or a status is accepted, as in the code
(`prest_store.go:152`, `:159`), but `SavePlugin`, the web application's write, never leaves one: it is external, and `AccountIsMine` rests on it.

### Composition

`MCServices` and `MCHandlers` check components that share no state in one run: `part` says which of them steps,
the others stay as they start. Every behaviour is one of one component; no property speaks of two of them. The proofs do the same: a step of the
composition is a step of each component or leaves it unchanged (`PartsStep`, `ServicesStep`), so what each keeps by itself they keep together.

## 3. Runs

| Run | Instance | Shows |
|---|---|---|
| `two` | 2 runs of 1 automated task, named by id or identifier, 2 workflow attempts of 2 agent tries, config NULL or pinned, crashes, heartbeats; fairness | `RunningIsOwned`, `ActiveTopicHasRun`; `RunsSettle`, `RunningEnds` |
| `one` | 3 runs of 1 task named one way, 2 workflow attempts of 2 agent tries, 1 continued topic, 1 cancel, 1 write of the application, crashes, config NULL or unpinned | `RunningIsOwned`, `SingleExecution`, `TopicsNumbered`, `NoConflict`, `ExecutionsBounded` |
| `mcp` | 1 server, 3 calls, 2 lost sessions, 4 connections, loading and `Close`; `FairSpec` | `SessionsOwned`, `TableIsLive`, `SingleReconnect`; `CallsAndCloseEnd` |
| `serial` | 2 users and their default workspaces, 1 request at a time, failing Keto | `OkMeansGranted` |
| `all` | 2 users, 1 generated workspace, 2 requests, 2 roles | `AccessNeedsRow`, `OwnerlessIsFrozen` |
| `services` | lock: 2 calls, 2 sessions, 2 editors; cache: 3 engrams, 2 concepts, 2 calls, batches of 2 in chunks of 1; extraction: 2 requests, 2 topics; results: 4 runes against a limit of 5 bytes, every error; connections: 2 users, 2 accounts, 1 request | `LockIsLease` (refinement), `CachedIdsMatch`, `ExtractionHonest`, `RetryIsExplicit`, `CutsOnRunes`, `AccountIsMine` |
| `handlers` | agent: 1 operation, 4 modes, up to 3 events; stdio: 2 writers, 3 values of the child; chat: 2 requests, up to 2 preloaded messages; palace: 2 requests reused without end, 2 children (identities or contexts), 2 parent ids that may be supplied again, failures anywhere | `StoryAgrees`, `ReadInOrder`, `SentWhole`, `MemoriesWhole`, `OkMeansGone`; `OpsSettle`, `ConnectionEnds`, `RequestsEnd` |

Five more runs show the disagreements of section 5. The types are checked in `two`, `mcp`, `serial`, `services` and `handlers`. Why the bounds are enough: the races in question need two writers of one task, two calls
that find one session lost and a third that still uses it, two requests on one member, two transactions on one memory (and two memories on one id), a call whose lock has expired and
one that has it now, a batch of two chunks, a rune that crosses the limit at each of its bytes; each instance has that many and lets processes start at any
time. Three runs in `one` allow a third topic number after a continued topic. Two operations of one agent change nothing but the map
`opIDMap`, whose reverse half nobody reads, so one is enough in `handlers`; one request is enough for `AccountIsMine`, which
compares one request with what the users and the web application write meanwhile. Requests of `Workspaces`, `Palace`,
`EngramCache` and `Connections` return to idle and are reused, so histories are not bounded there. Bounds that are artefacts:
`MaxEdits`, `MaxSignals`, `MaxLosses`, `MaxEvents`, `MaxValues`, `MaxRunes`, `BatchLength`, `Preloads`, the number of `Conns`, `Children`, `FreshIds`, `Engrams`
and `Accounts`. Symmetry is used where no definition tells the values apart (runs with the same rights, requests, users, engrams, memory calls) and no
liveness is checked. In `handlers`, where it is, `InOrder` lets creations take the ids of the palace in one order instead; no fairness condition speaks of a creation, so
no behaviour is lost but for names. `CHECK_DEADLOCK FALSE` is set where the system stops once all requests are over or ids are used up.

Each property comes with a mutant, a plausible slip in the code (a stale copy instead of a
reload, a missing look at `closed`, a deletion without the comparison of the token, an index into the wrong list, a forgotten rollback), kept beside
the original as the definition marked "Mutant"; with it TLC finds the property violated.

### Fairness

* `TaskRun`: Temporal reschedules an activity until its completion is recorded, so a step that stays
  possible is taken with `ok = TRUE` (weak fairness). A crash inside `OnTopicComplete` moves the run
  back, so its statements need strong fairness: some attempt is not interrupted. The agent activity may
  fail every time. Clients and users owe nothing. A run that has read a NULL config is blocked for good (section 6): that is `Stuck`, which
  the liveness properties name as the one exception, and `two` starts from such a config too.
* `McpManager`: goroutines run, the network answers or fails. Waiters of `reconnectMu` and of `Manager.mu`
  get them in the end: `sync.Mutex` hands over to a starving waiter and `sync.RWMutex` holds off new readers.
  Nobody has to call `Close`, no call has to be made.
* `AgentExec`: a handler goes on, and the agent ends its run, since it has a limit of iterations. No client has to stay or to leave.
* `StdioConn`: goroutines run, the waits of `Close` elapse, a closed pipe or channel lets go those who wait for it. Nothing is assumed of
  the child, which need not exit even on SIGKILL, nor of the library, which need not read or close.
* `Palace`: Postgres grants row locks in the order they are asked for, and looks for deadlocks.
* `Workspaces` and the components of `MCServices` have no liveness property: nothing makes a request go on after the server has died.

## 4. What is proved

`tlapm` checks the theorems for all values of the constants that satisfy the named assumptions.

`TaskRunProofs`
* `TypeCorrect`: `Spec => []TypeOK`.
* `RunningOwned`: `[]RunningIsOwned`. The property alone is not inductive. The invariant adds what the
  workflow's variables say of the row: a run that is about to settle with a reloaded status other than
  `running` may find the row running only if another run owes it. The case that
  matters is `Settle`'s early return: it leaves the row alone on a stale reload, and the row is then running
  only by a run that set it after the reload, which still owes. `RunningIsOursAssumption` says that
  the application does not write `running` itself.
* `QuiescentTasks`: `[]QuiescentNotRunning`, a corollary that no run checks.
* `TopicsHaveRuns`: `[]ActiveTopicHasRun`, for `StoreFaults = FALSE`.
* `OneExecution`: `[]SingleExecution`, for requests that name each task in one way.
* `RetriesMultiply`: `[]ExecutionsBounded`. The invariant `AttemptsCounted` charges each execution to a try of an attempt.
* `NothingConflicts`: `[]NoConflict`, for one name per task and `StoreFaults = FALSE`. One run per task is open (`OneOpen`), and a
  topic that is running has a run that has not finished it (`TopicOwned`), so the conflict check finds none.
* `TopicsAreNumbered`: `[]TopicsNumbered`, for one name per task. The invariant `NumbersAhead` says that the copy of `total_topics` from
  which a run counts is at least every number given: nobody else counts between the copy and the link.

`WorkspacesProofs`
* `TypeCorrect`: `Spec => []TypeOK`, with the parameters of a request under way.
* `AccessHasRow`: `[]AccessNeedsRow`. The invariant adds that a request about to write a tuple has
  written its row, which may be deleted since. The lemma `AccessStep` says what a step must keep; each
  action is then a case. It holds with any number of requests, any page size and a failing Keto.
* `OwnerlessStaysFrozen`: the action property `OwnerlessIsFrozen`. Once nobody may manage the workspace, every later request
  on it fails its check, so none comes to a statement that adds a row or a tuple; members may still leave.
* `OkGrantsRow`: `Spec /\ []PagesHold => OkMeansGranted`, an action property, for one request at a time: Keto gives everybody the answer is about what the role
  of the row gives, and nothing without a row. The converse is false, since a change of role leaves the old relation (run `demote`). Each hypothesis is needed: two requests on
  one member overtake each other between the stores, and a deletion in a workspace that has more tuples than one page of Keto (`PagesHold` fails) leaves
  some; section 6 has both. The invariant `Halfway` says what a request has done at each of its steps: the row before the tuples, and no tuple
  it ought to delete outside the page it has read. A user has at most three tuples in a workspace, so `3 * Cardinality(Users) <= PageSize` gives
  `PagesHold` for good (`OkWithFewUsers`); the run has this bound.

`EditLockProofs`
* `LockTypeCorrect`, and `LockIsALease`: `LockSpec => LockIsLease`, the refinement of `Lease`. The initial states map to
  initial states (`RefinesInit`), and each step to `Grab`, `GiveBack`, `Leave`, `Expire` or a stutter
  (`RefinesStep`). The invariant `LockInv` is needed for the late `Undo` of a call whose `SET` never
  took effect: the key is not its own, so the deletion maps to nothing. Without Redis every step is a stutter.

`McpManagerProofs`
* `TypeCorrect`, `NoSessionLeaks` (`[]SessionsOwned`), `TableStaysLive` (`[]TableIsLive`), `OneReconnects`
  (`[]SingleReconnect`). One invariant, `McpInv`, says who owns each connection: the table, the goroutine that loads a
  server, or the call that reconnects it, and never two of them; what they own was not closed. That `reconnectMu` admits one call per
  connection (`Mutex`) is what keeps two calls from installing over each other, and `TableOnTime` that
  nobody installs once `Close` has swapped the table.

`EngramCacheProofs`
* `CacheNamesRightMemory` (`[]CachedIdsMatch`). The invariant adds that what a call was answered and has not
  yet put into the cache is true of the database, which keeps what it wrote: an id stays true while it waits, whatever is cached before it.
* `CacheTypes`. That a call forgets only what was written needs that whatever it looked up, cached or remote, was an engram of the database.

`PalaceProofs`
* `MemoriesStayWhole` (`[]MemoriesWhole`), `SuccessIsComplete` (the action property `OkMeansGone`) and `PalaceTypes`. `PalaceInv` adds four parts to
  the types. `RowsInv`: but for orphaned ids, each committed parent names the child it was created with and that child names it; a row without its parent is a context whose
  id is orphaned. `CreatorsInv`: the child of an open creation is new, two creations share no child, and an id of a parent that both were given is inserted by one of them.
  `LocksInv`: no two deletions hold one parent, a deletion holds with each child its parent, and with each parent, once `CheckParents` has waited for the others,
  every child that refers to it by foreign key. `TargetsInv`: how far a deletion has come, so that at its commit no row that was there at its start is left. A row that
  DeleteAll has found may be deleted by another meanwhile, and its parent's id supplied again; the proof needs that the row itself then never comes back (`Settled`), and
  `OwnParents` that the new parent is told from the old one.

`HandlersProofs`
* `AgentInvariant` and `StoriesAgree` (`[]StoryAgrees`). `AgentInv` says for each step of the handlers what the client may have been told, whether
  the agent's run has events left, and what the row may say (`Tells`); the property is what remains of it in the last step. Statements that take no effect change
  nothing that it relies on.
* `StdioInvariant` and `ReadsInOrder` (`[]ReadInOrder`). `Flow`: the queue, the value the decoder offers and the values in the pipe
  hold, in this order and without a gap, the messages after the last one that was returned, up to the last one sent while the child runs. A decoder
  that has failed offers nothing any more, and the rest of the pipe is then lost but never out of order.
* `ChatInvariant` and `SendsAreWhole` (`[]SentWhole`). A transaction's draft is a chain of messages as long as its progress says (`DraftOf`,
  with `Written`), and the table has of each request nothing, or the finished chain (`TableOf`); it has the chain once the request fetches its answer.
* `HandlersInvariant` and `HandlersTypes`: the four components, composed as in `MCHandlers`, keep their invariants and the types.

`ServicesProofs`
* `ExtractionIsHonest` (`[]ExtractionHonest`). The invariant relates a request's step, its counter, its jobs and its row.
* `RetriesAreExplicit` (`[]RetryIsExplicit`), by cases on code, status and words.
* `CutsAreOnRunes` (`[]CutsOnRunes`), for results of any length and any limit. The offsets of `Ends` are defined by recursion; that they exist, are numbers
  and grow is shown by induction (`InductionOnSet`), which follows from the least element of a set of numbers (`LeastNumber`) and needs no
  theorem with an operator parameter. Then the first rune that ends beyond the limit is the only one that can cross it, and it starts within the last three bytes
  or exactly at the limit, so the three offsets of the loop are enough (`CutoffIsAnEnd`).
* `AccountIsAlwaysMine` (`[]AccountIsMine`). The invariant adds whose account each row and
  each request names, and that a row says ACTIVE only of an account whose user has consented, which a later change of the row keeps. It rests on `SavePlugin`: rows name their user.
* `ServicesInvariant` and `ServicesTypes`: the five components, composed as in `MCServices`.

Every safety property that a passing run checks is thus a theorem. Only model-checked are the liveness properties (`RunsSettle`, `RunningEnds`, `CallsAndCloseEnd`,
`OpsSettle`, `ConnectionEnds`, `RequestsEnd`: fairness and `ENABLED` are beyond the prover) and the five disagreements below, whose runs are
counterexamples. The theorems' hypotheses on constants are the named assumptions of the modules, and the ones said above.

## 5. Disagreements that a run shows

| Run | Statement | What happens |
|---|---|---|
| `twice` | `worker.go:203`: duplicate calls for a task are deduplicated | the id and the identifier of one task are two workflow ids, and the topic that the conflict check looks for is inserted after the execution: two agents execute |
| `conflict` | `store.go:65-66`, `activities.go:808-809`: running topics are listed to detect concurrent runs | a failed topic update is only logged (`activities.go:326-328`) and the check precedes the timeout of stale topics: the topic of a run that is over turns later runs away, and no run is concurrent |
| `close` | `manager.go:421`: `Close` closes all connections | a call admitted before the swap and counted after the wake-up makes `WaitGroup.Wait` panic |
| `demote` | `workspace_handlers.go:16-18`: the rows and the tuples must agree | an owner who is added again as a member is answered ok, and keeps the tuple of an owner in Keto, which decides (`:265-278`) |
| `account` | `eino/adapter.go:65-66`: no account is found "when the user has no active connection" | the query asks for one row of the app, of whichever user: the row of another hides the caller's own |

## 6. Read in the code, and checked by no run

Task runs:
* A second request for an open workflow is answered with ids the workflow does not use
  (`worker.go:258-264`; `serving`).
* `SignalCancel` says the task becomes canceled (`worker.go:196`); the workflow has no channel for it.
* A task in a terminal status is set to running again (`workflow.go:216`; `types.go:68`).
* `MaxAgentExecutionAttempts` does not cap the agent executions: the workflow's and the activity's policies
  multiply (`ExecutionsBounded` states what holds), and the task ends paused, not failed (`types.go:324`).
* The status query of an automated task ends with paused while the task is scheduled (`workflow.go:353-368`).
* A task whose config is NULL panics in the workflow on every replay (`workflow.go:286`; label `blocked`, `Stuck`): it stays running.
* The backfill rewrites `config` from a field that is not in the activity's JSON input (`activities.go:664`, `types.go:246`): the sections beside model and
  provider are lost (`"stripped"`).

Workspaces and memories:
* The tuple of an addition that was checked before the member's removal is written after it (`workspace_handlers.go:310`, `:430`).
* Two owners who leave together, or the last one who gives himself another role, leave a workspace without an owner (`:416`, `:467`, `:477`).
* Deletion clears one page of tuples; a request answered "retry" is refused when it is repeated (`:294`, `:500`).
* An owner who was removed after his request passed its check still adds members (`:254`).
* A context created between two statements of `DeleteAll` loses its parent: contexts have no foreign key
  (`pgstore.go:294-298`). Two deletions of one memory may both be answered "ok".
  If a caller supplies the id of such a lost parent, an identity and the context have one parent, and two deletions that count each other's row (`:698-705`) leave it
  without a child: the exception that `MemoriesWhole` states. A parent that is supplied again between the count and the `DELETE` (`:709`) makes it fail on its foreign key.
* The cache of engram ids may keep the id of a forgotten engram: a lost answer of `Forget` skips the eviction, and a late search caches it
  again (`muninn_store.go:190-205`, `:242`). `Get` then fails until the key is written again.

Lock, agent and tools:
* `CanWrite` answers with the decoder's error while a caller of `Acquire` holds the key (`mutex.go:262`).
* The end of a stream is sent before the row is written with the request's context: a client that closes on it leaves
  the row `running` (`agent_exec_handler.go:319-342`); a client that leaves earlier gets no final statement at all (`:307`). The buffered answer says `running`,
  and marks `done` although `CollectResult` skips failed events (`:245`). The reverse half of `opIDMap` has no reader (`:41`).
  The placeholder of a streamed answer is never filled. Titles are cut at byte 100 (`:155`).
* The memory tools that an agent gets are added without a permission gate (`aiAgent.go:259-271`), where `permission.go:37` says that disabled tools are always blocked; but nothing
  outside tests configures a gate, a checker or a disabled tool, nor assembles the approval gate (`approval.go:59`, `:203`).
* `ToolResolver.Disable` has no effect: `Resolve` does not look at the flag. `needs_approval` is not enforced by the permission gate (`permission.go:20`, `:100-122`).
* A three-digit number anywhere in a message can decide its class: "512 ms" is retryable (`error_classify.go:179-192`).
* Nothing calls `AddIntervention`, so the interventions that the endpoints list and answer are always none.
* After the decoder of a child process has failed, a further `Read` waits until `Close`; `cmd.Wait` drops output nobody has read
  (`stdio_transport.go:75`, `:137`).

Requests:
* A lost answer of the commit, or a failed query after it, answers 500 to a message that was stored; sending again stores it twice (`chat_handlers.go`).
* Nobody asks for the error after the loops over the rows (`chat_handlers.go:339`, `fetchChatMessages`): a query that breaks is answered 200 with a part of the messages, or none.
* Jobs of an extraction carry no id of the task, so its row stays `pending` (`extraction_handler.go:301`).
* `WithUserID` has no caller, so the adapter that gives Composio's actions to an agent always fails (`connectors/composio/eino/adapter.go:250`);
  `composioConns` is written and shown, and no decision reads it.

## 7. Not modelled

* MCP configuration and Eino adapter, agent and tool construction, configuration, tracing, wiring, `main.go`: start-up code and one-to-one
  wrappers, without state of their own. What they start is in the modules.
* Palace search, embedding and authentication; `ListWorkspacesForUser`: they only read.
* Connector handlers, key vault: one request encrypts or decrypts one column; cryptography is not for a model checker.
* Documents and knowledge: `persistDocument` (`documents_handler.go:130-178`) is one transaction whose every error rolls back, after an
  embedding call; no statement of it can interleave to an effect, and a search is limited to the ids the caller names.
* The store of interventions (empty in every execution), the approval and permission gates (never assembled), the registry of tools (filled once, before a request is served),
  the Composio adapter (always an error).
* Of task runs: the handoff, briefs and reviews are stubs that log, the cascade needs a status no run reaches; `InMemoryStore` is a test double.
* Of the stdio transport: an error of closing the child's input, which ends `Close` early.

## 8. Plan

Left, in this order:
1. An abstract life of a task (resting, running, owed) and an abstract register of members, which `TaskRun` and `Workspaces` would
   implement as `EditLock` implements `Lease`.
2. `OneRowPerMemory`-like properties for documents, should `persistDocument` lose its transaction.
