----------------------------- MODULE AgentExec -----------------------------
(***************************************************************************)
(* The requests that run an agent and hand its events to a client: POST    *)
(* /v1/agent/exec (agent_exec_handler.go), which keeps rows about the      *)
(* operation, and POST /v1/chat/completions (handlers.go), which keeps     *)
(* none.  Each answers at once or as a stream of events.                   *)
(*                                                                         *)
(* The agent runs in a goroutine of the agent library and feeds an         *)
(* unbounded iterator; the handler reads it.  Every statement uses the     *)
(* context of the request: when the client goes away, or the database      *)
(* fails, the statement has no effect, and the handler goes on.            *)
(***************************************************************************)
EXTENDS Naturals, Sequences

CONSTANTS
  Ops,        \* requests, each with its operation id
  Agents,     \* the ids of agents
  AgentOf,    \* the agent each request names
  NoOp,       \* no operation id
  MaxEvents   \* bound on the events of one run

ASSUME AgentAssumption == AgentOf \in [Ops -> Agents]
ASSUME NoOpAssumption == NoOp \notin Ops
ASSUME EventsAssumption == MaxEvents \in Nat

VARIABLES
  step,       \* where each handler stands
  mode,       \* what was requested: the endpoint and whether it streams
  row,        \* agent_operations.status of each operation
  stored,     \* the other rows: the topic, the user's message, the answer
  opOf,       \* operationIDMap.backward
  taskOf,     \* the operations in operationIDMap.forward
  run,        \* the run of each agent: whether it goes on, and its unread events
  said,       \* what the client was sent, apart from pieces of the answer
  connected,  \* whether the client is still there
  lost        \* operations with a statement that had no effect

agentVars == <<step, mode, row, stored, opOf, taskOf, run, said, connected, lost>>
records == <<row, stored, lost>>
ids == <<opOf, taskOf>>

-----------------------------------------------------------------------------
ExecModes == {"exec", "exec stream"}
Modes == ExecModes \cup {"chat", "chat stream"}
Events == {"piece", "error"}
Answers == {"start", "error", "end"}
NoRun == [on |-> FALSE, events |-> <<>>, emitted |-> 0]

AgentInit ==
  /\ step = [o \in Ops |-> "idle"]
  /\ mode \in [Ops -> Modes]
  /\ row = [o \in Ops |-> "absent"]
  /\ stored = [o \in Ops |-> {}]
  /\ opOf = [a \in Agents |-> NoOp]
  /\ taskOf = {}
  /\ run = [o \in Ops |-> NoRun]
  /\ said = [o \in Ops |-> {}]
  /\ connected = [o \in Ops |-> TRUE]
  /\ lost = {}

At(o, s) == step[o] = s
Go(o, s) == step' = [step EXCEPT ![o] = s]
Say(o, what) == said' = [said EXCEPT ![o] = @ \cup what]

\* A statement of the handler of o that has no effect, which is only logged.
Lose(o) == lost' = lost \cup {o} /\ UNCHANGED <<row, stored>>

Put(o, what) ==
  \/ connected[o] /\ stored' = [stored EXCEPT ![o] = @ \cup {what}] /\ UNCHANGED <<row, lost>>
  \/ Lose(o)

Set(o, status) ==
  \/ connected[o] /\ row' = [row EXCEPT ![o] = status] /\ UNCHANGED <<stored, lost>>
  \/ Lose(o)

\* An UPDATE of a row that was never inserted changes nothing.
UpdateRow(o, status) ==
  IF row[o] = "absent" THEN UNCHANGED records ELSE Set(o, status)

-----------------------------------------------------------------------------
(* makeAgentExecHandler up to the agent's run *)

ReceiveExec(o) ==
  /\ At(o, "idle") /\ mode[o] \in ExecModes
  /\ \/ Go(o, "topic")
     \/ Go(o, "message")  \* the request names a topic
  /\ UNCHANGED <<mode, records, ids, run, said, connected>>

\* The title is cut at byte 100: the database refuses half a character.
InsertTopic(o) ==
  At(o, "topic") /\ Put(o, "topic") /\ Go(o, "message") /\ UNCHANGED <<mode, ids, run, said, connected>>

InsertUserMessage(o) ==
  At(o, "message") /\ Put(o, "user") /\ Go(o, "operation") /\ UNCHANGED <<mode, ids, run, said, connected>>

InsertOperation(o) ==
  At(o, "operation") /\ Set(o, "running") /\ Go(o, "answer") /\ UNCHANGED <<mode, ids, run, said, connected>>

InsertAssistantMessage(o) ==
  At(o, "answer") /\ Put(o, "placeholder") /\ Go(o, "ids") /\ UNCHANGED <<mode, ids, run, said, connected>>

\* opIDMap.Put: two stores, and the second is keyed by the agent.
PutOperationID(o) ==
  /\ At(o, "ids")
  /\ taskOf' = taskOf \cup {o}
  /\ opOf' = [opOf EXCEPT ![AgentOf[o]] = o]
  /\ Go(o, "run")
  /\ UNCHANGED <<mode, records, run, said, connected>>

\* The agent is made and its run started, or that fails.
ExecAgent(o) ==
  /\ At(o, "run")
  /\ \/ /\ run' = [run EXCEPT ![o].on = TRUE]
        /\ IF mode[o] = "exec" THEN Go(o, "collect") /\ UNCHANGED said
           ELSE Go(o, "check") /\ Say(o, {"start"})
     \/ Go(o, "fail") /\ UNCHANGED <<run, said>>
  /\ UNCHANGED <<mode, records, ids, connected>>

\* chatCompletionsHandler does the same through Runtime.Query, and has no rows to write.
Query(o) ==
  /\ At(o, "idle") /\ mode[o] \notin ExecModes
  /\ \/ run' = [run EXCEPT ![o].on = TRUE] /\ Go(o, "next") /\ UNCHANGED said
     \/ Go(o, "over") /\ Say(o, {"error"}) /\ UNCHANGED run
  /\ UNCHANGED <<mode, records, ids, connected>>

-----------------------------------------------------------------------------
(* The agent and the client *)

Emit(o, event) ==
  /\ run[o].on /\ run[o].emitted < MaxEvents
  /\ run' = [run EXCEPT ![o].events = Append(@, event), ![o].emitted = @ + 1,
                        ![o].on = event = "piece"]
  /\ UNCHANGED <<step, mode, records, ids, said, connected>>

AgentEnds(o) ==
  /\ run[o].on
  /\ run' = [run EXCEPT ![o].on = FALSE]
  /\ UNCHANGED <<step, mode, records, ids, said, connected>>

Disconnect(o) ==
  /\ connected[o] /\ ~At(o, "idle") /\ ~At(o, "over")
  /\ connected' = [connected EXCEPT ![o] = FALSE]
  /\ UNCHANGED <<step, mode, records, ids, run, said>>

-----------------------------------------------------------------------------
(* The four loops over the events: where they stand, and what they do of each event *)

Takes(o, event) ==
  /\ run[o].events # <<>> /\ Head(run[o].events) = event
  /\ run' = [run EXCEPT ![o].events = Tail(@)]

Drained(o) == run[o].events = <<>> /\ ~run[o].on /\ UNCHANGED run

\* CollectResult, of a request that does not stream: an error is logged.
Collect(o) ==
  /\ At(o, "collect")
  /\ \/ \E event \in Events : Takes(o, event) /\ UNCHANGED step
     \/ Drained(o) /\ Go(o, "save")
  /\ UNCHANGED <<mode, records, ids, said, connected>>

\* streamAgentExecWithIDs looks whether the client is there before each event.
CheckClient(o) ==
  /\ At(o, "check")
  /\ IF connected[o] THEN Go(o, "event") /\ UNCHANGED said
                     ELSE Go(o, "over") /\ Say(o, {"error"})
  /\ UNCHANGED <<mode, records, ids, run, connected>>

StreamPiece(o) ==
  /\ At(o, "event") /\ Takes(o, "piece")
  /\ Go(o, "check")
  /\ UNCHANGED <<mode, records, ids, said, connected>>

\* Mutant: the stream goes on after an error, as CollectResult does.
StreamErrorSkipped(o) ==
  /\ At(o, "event") /\ Takes(o, "error")
  /\ Say(o, {"error"}) /\ Go(o, "check")
  /\ UNCHANGED <<mode, records, ids, connected>>

\* Mutant: the row of a stream that fails is left as it is.
StreamErrorUnrecorded(o) ==
  /\ At(o, "event") /\ Takes(o, "error")
  /\ Say(o, {"error"}) /\ Go(o, "over")
  /\ UNCHANGED <<mode, records, ids, connected>>

StreamError(o) ==
  /\ At(o, "event") /\ Takes(o, "error")
  /\ Say(o, {"error"}) /\ Go(o, "fail")
  /\ UNCHANGED <<mode, records, ids, connected>>

\* The client is told of the end before the row is written.
StreamEnd(o) ==
  /\ At(o, "event") /\ Drained(o)
  /\ Say(o, {"end"}) /\ Go(o, "finish")
  /\ UNCHANGED <<mode, records, ids, connected>>

\* handleNonStreamingResponse answers an error or the whole text.
ChatAnswer(o) ==
  /\ At(o, "next") /\ mode[o] = "chat"
  /\ \/ Takes(o, "piece") /\ UNCHANGED <<step, said>>
     \/ Takes(o, "error") /\ Say(o, {"error"}) /\ Go(o, "over")
     \/ Drained(o) /\ Say(o, {"end"}) /\ Go(o, "over")
  /\ UNCHANGED <<mode, records, ids, connected>>

\* handleStreamingResponse sends an error as a piece of text and ends as after an answer.
ChatStream(o) ==
  /\ At(o, "next") /\ mode[o] = "chat stream"
  /\ \/ Takes(o, "piece") /\ UNCHANGED <<step, said>>
     \/ Takes(o, "error") /\ Say(o, {"error", "end"}) /\ Go(o, "over")
     \/ Drained(o) /\ Say(o, {"end"}) /\ Go(o, "over")
  /\ UNCHANGED <<mode, records, ids, connected>>

-----------------------------------------------------------------------------
(* The last statements *)

SaveContent(o) ==
  /\ At(o, "save")
  /\ IF "placeholder" \in stored[o] THEN Put(o, "content") ELSE UNCHANGED records
  /\ Go(o, "finish")
  /\ UNCHANGED <<mode, ids, run, said, connected>>

\* The answer of the request that does not stream comes after both.
FinishOperation(o) ==
  /\ At(o, "finish")
  /\ UpdateRow(o, "done")
  /\ Say(o, {"end"})
  /\ Go(o, "over")
  /\ UNCHANGED <<mode, ids, run, connected>>

\* The 500 of an agent that could not be started comes after the row.
FailOperation(o) ==
  /\ At(o, "fail")
  /\ UpdateRow(o, "error")
  /\ Say(o, {"error"})
  /\ Go(o, "over")
  /\ UNCHANGED <<mode, ids, run, connected>>

Handler(o) ==
  \/ InsertTopic(o) \/ InsertUserMessage(o) \/ InsertOperation(o)
  \/ InsertAssistantMessage(o) \/ PutOperationID(o) \/ ExecAgent(o)
  \/ Collect(o) \/ CheckClient(o) \/ StreamPiece(o) \/ StreamError(o) \/ StreamEnd(o)
  \/ ChatAnswer(o) \/ ChatStream(o)
  \/ SaveContent(o) \/ FinishOperation(o) \/ FailOperation(o)

AgentNext ==
  \E o \in Ops :
    \/ ReceiveExec(o) \/ Query(o) \/ Handler(o) \/ AgentEnds(o) \/ Disconnect(o)
    \/ \E event \in Events : Emit(o, event)

\* Goroutines run on, and the agent ends its run (it has a limit of iterations).
AgentFairness == \A o \in Ops : WF_agentVars(Handler(o)) /\ WF_agentVars(AgentEnds(o))

AgentSpec == AgentInit /\ [][AgentNext]_agentVars /\ AgentFairness

-----------------------------------------------------------------------------
AgentTypeOK ==
  /\ step \in [Ops -> {"idle", "topic", "message", "operation", "answer", "ids", "run",
                       "collect", "check", "event", "next", "save", "finish", "fail", "over"}]
  /\ mode \in [Ops -> Modes]
  /\ row \in [Ops -> {"absent", "running", "done", "error"}]
  /\ stored \in [Ops -> SUBSET {"topic", "user", "placeholder", "content"}]
  /\ opOf \in [Agents -> Ops \cup {NoOp}]
  /\ taskOf \subseteq Ops
  /\ run \in [Ops -> [on : BOOLEAN, events : Seq(Events), emitted : 0..MaxEvents]]
  /\ said \in [Ops -> SUBSET Answers]
  /\ connected \in [Ops -> BOOLEAN]
  /\ lost \subseteq Ops

\* What the row says of an operation and what its client was told never contradict
\* each other, whatever was lost on the way: "done" only after the events were read to
\* their end and no error was sent, "error" only if one was sent and no end.  And a
\* client that stays is told one of the two (both loops and all early returns of
\* agent_exec_handler.go).
StoryAgrees ==
  \A o \in Ops : mode[o] \in ExecModes =>
    /\ row[o] = "done" => run[o].events = <<>> /\ ~run[o].on /\ "error" \notin said[o]
    /\ row[o] = "error" => "error" \in said[o] /\ "end" \notin said[o]
    /\ At(o, "over") /\ connected[o] => ("end" \in said[o]) # ("error" \in said[o])

\* Every request comes to its end, and no operation stays "running" after it unless
\* one of its statements was lost or its client went away (then streamAgentExecWithIDs
\* returns without a statement, or the statement fails with the request's context).
OpsSettle ==
  \A o \in Ops :
    ~At(o, "idle") ~> /\ At(o, "over")
                      /\ row[o] = "running" => o \in lost \/ ~connected[o]

=============================================================================
