--------------------------- MODULE HandlersProofs ---------------------------
(***************************************************************************)
(* The components of MCHandlers: the agent's handler, the connection to a  *)
(* child process and the chat's transactions, each by an induction with an *)
(* invariant of its own, and then all of them with the memory palace as    *)
(* the run of MCHandlers composes them.                                    *)
(***************************************************************************)
EXTENDS MCHandlers, PalaceProofs, TLAPS

-----------------------------------------------------------------------------
(* The run of an agent and its rows *)

BeforeRun == {"idle", "topic", "message", "operation", "answer", "ids", "run"}
Steps == BeforeRun \cup {"collect", "check", "event", "next", "save", "finish", "fail", "over"}
Runs == [on : BOOLEAN, events : Seq(Events), emitted : 0..MaxEvents]

ReadToEnd(r) == ~r.on /\ r.events = <<>>

\* What the handler's step s tells of what was said, of the run and of the row.
Tells(s, what, r, status) ==
  /\ s # "next"
  /\ s \in BeforeRun \cup {"collect", "save"} => what = {}
  /\ s \in {"check", "event"} => what = {"start"}
  /\ s \in BeforeRun \cup {"save", "finish"} => ReadToEnd(r)
  /\ s = "finish" => "error" \notin what
  /\ s = "fail" => "end" \notin what
  /\ s = "over" => ("end" \in what) # ("error" \in what)
  /\ status \in {"done", "error"} => s = "over"
  /\ status = "done" => ReadToEnd(r) /\ "error" \notin what
  /\ status = "error" => "error" \in what /\ "end" \notin what

Story(o) == mode[o] \in ExecModes => Tells(step[o], said[o], run[o], row[o])

AgentInv == AgentTypeOK /\ \A o \in Ops : Story(o)

LEMMA AgentTypes ==
  AgentTypeOK <=>
    /\ step \in [Ops -> Steps] /\ mode \in [Ops -> Modes] /\ run \in [Ops -> Runs]
    /\ row \in [Ops -> {"absent", "running", "done", "error"}]
    /\ stored \in [Ops -> SUBSET {"topic", "user", "placeholder", "content"}]
    /\ opOf \in [Agents -> Ops \cup {NoOp}] /\ taskOf \subseteq Ops
    /\ said \in [Ops -> SUBSET Answers] /\ connected \in [Ops -> BOOLEAN] /\ lost \subseteq Ops
<1>1. Steps = {"idle", "topic", "message", "operation", "answer", "ids", "run",
               "collect", "check", "event", "next", "save", "finish", "fail", "over"}
  BY DEF Steps, BeforeRun
<1> QED BY <1>1 DEF AgentTypeOK, Runs

LEMMA AgentInvInit == AgentInit => AgentInv
<1> SUFFICES ASSUME AgentInit PROVE AgentInv  OBVIOUS
<1>1. NoRun \in Runs /\ ReadToEnd(NoRun)
  BY EventsAssumption DEF NoRun, Runs, ReadToEnd
<1>2. AgentTypeOK  BY <1>1, AgentTypes DEF AgentInit, Steps, BeforeRun
<1>3. \A o \in Ops : Story(o)  BY <1>1 DEF AgentInit, Story, Tells, BeforeRun
<1> QED BY <1>2, <1>3 DEF AgentInv

\* A step of the request o, from where it stands to s.
LEMMA RequestSteps ==
  ASSUME AgentInv, NEW o \in Ops, UNCHANGED mode, AgentTypeOK',
         \A q \in Ops \ {o} : /\ step'[q] = step[q] /\ row'[q] = row[q]
                              /\ run'[q] = run[q] /\ said'[q] = said[q],
         mode[o] \in ExecModes => Tells(step'[o], said'[o], run'[o], row'[o])
  PROVE  AgentInv'
<1>1. ASSUME NEW q \in Ops PROVE Story(q)'
  BY DEF AgentInv, Story
<1> QED BY <1>1 DEF AgentInv

\* A step that writes no row.
LEMMA HandlerSteps ==
  ASSUME AgentInv, NEW o \in Ops, UNCHANGED <<mode, records, ids>>,
         connected' \in [Ops -> BOOLEAN],
         NEW s \in Steps, Go(o, s) \/ (UNCHANGED step /\ s = step[o]),
         NEW what \in SUBSET Answers, Say(o, what) \/ (UNCHANGED said /\ what = {}),
         NEW r \in Runs, run' = [run EXCEPT ![o] = r] \/ (UNCHANGED run /\ r = run[o]),
         mode[o] \in ExecModes => Tells(s, said[o] \cup what, r, row[o])
  PROVE  AgentInv'
<1>0. step \in [Ops -> Steps] /\ said \in [Ops -> SUBSET Answers] /\ run \in [Ops -> Runs]
  BY AgentTypes DEF AgentInv
<1>1. step' = [step EXCEPT ![o] = s] /\ step' \in [Ops -> Steps]
  BY <1>0 DEF Go
<1>2. said' = [said EXCEPT ![o] = said[o] \cup what] /\ said' \in [Ops -> SUBSET Answers]
  BY <1>0 DEF Say
<1>3. run' = [run EXCEPT ![o] = r] /\ run' \in [Ops -> Runs]
  BY <1>0
<1>4. UNCHANGED <<row, stored, lost, opOf, taskOf>>
  BY DEF records, ids
<1>5. AgentTypeOK'
  BY <1>1, <1>2, <1>3, <1>4, AgentTypes DEF AgentInv, AgentTypeOK, Steps, BeforeRun, Runs
<1> QED BY <1>0, <1>1, <1>2, <1>3, <1>4, <1>5, RequestSteps

\* A statement: rows change as it says, or not at all.
LEMMA StatementSteps ==
  ASSUME AgentInv, NEW o \in Ops, UNCHANGED <<mode, ids, run, connected>>,
         NEW s \in Steps, Go(o, s), NEW what \in SUBSET Answers,
         Say(o, what) \/ (UNCHANGED said /\ what = {}),
         NEW status \in {"absent", "running", "done", "error"},
         \/ \E item \in {"topic", "user", "placeholder", "content"} : Put(o, item)
         \/ status # "absent" /\ (Set(o, status) \/ UpdateRow(o, status))
         \/ UNCHANGED records,
         mode[o] \in ExecModes =>
           /\ Tells(s, said[o] \cup what, run[o], row[o])
           /\ status # "absent" => Tells(s, said[o] \cup what, run[o], status)
  PROVE  AgentInv'
<1>0. /\ step \in [Ops -> Steps] /\ said \in [Ops -> SUBSET Answers]
      /\ row \in [Ops -> {"absent", "running", "done", "error"}]
      /\ stored \in [Ops -> SUBSET {"topic", "user", "placeholder", "content"}]
      /\ lost \subseteq Ops
  BY AgentTypes DEF AgentInv
<1>1. step' = [step EXCEPT ![o] = s] /\ step' \in [Ops -> Steps]
  BY <1>0 DEF Go
<1>2. said' = [said EXCEPT ![o] = said[o] \cup what] /\ said' \in [Ops -> SUBSET Answers]
  BY <1>0 DEF Say
<1>3. /\ row' = row \/ (status # "absent" /\ row' = [row EXCEPT ![o] = status])
      /\ stored' \in [Ops -> SUBSET {"topic", "user", "placeholder", "content"}]
      /\ lost' \subseteq Ops
  <2>1. CASE UNCHANGED records  BY <1>0, <2>1 DEF records
  <2>2. CASE Lose(o)  BY <1>0, <2>2 DEF Lose
  <2>3. ASSUME NEW item \in {"topic", "user", "placeholder", "content"},
               stored' = [stored EXCEPT ![o] = @ \cup {item}], UNCHANGED <<row, lost>>
        PROVE  stored' \in [Ops -> SUBSET {"topic", "user", "placeholder", "content"}]
    BY <1>0, <2>3
  <2> QED BY <1>0, <2>1, <2>2, <2>3 DEF Put, Set, UpdateRow
<1>4. /\ row' \in [Ops -> {"absent", "running", "done", "error"}]
      /\ \A q \in Ops \ {o} : row'[q] = row[q]
      /\ row'[o] = row[o] \/ (status # "absent" /\ row'[o] = status)
  BY <1>0, <1>3
<1>5. /\ mode \in [Ops -> Modes] /\ run \in [Ops -> Runs] /\ taskOf \subseteq Ops
      /\ opOf \in [Agents -> Ops \cup {NoOp}] /\ connected \in [Ops -> BOOLEAN]
  BY AgentTypes DEF AgentInv
<1>6. AgentTypeOK'
  BY <1>1, <1>2, <1>3, <1>4, <1>5 DEF AgentTypeOK, Steps, BeforeRun, Runs, ids
<1>7. mode[o] \in ExecModes => Tells(step'[o], said'[o], run'[o], row'[o])
  BY <1>0, <1>1, <1>2, <1>4
<1>8. \A q \in Ops \ {o} : step'[q] = step[q] /\ said'[q] = said[q]
  BY <1>0, <1>1, <1>2
<1> QED BY <1>4, <1>6, <1>7, <1>8, RequestSteps

\* The handler up to the run.
LEMMA PrepareKeeps ==
  ASSUME AgentInv, NEW o \in Ops,
         \/ ReceiveExec(o) \/ InsertTopic(o) \/ InsertUserMessage(o) \/ InsertOperation(o)
         \/ InsertAssistantMessage(o)
  PROVE  AgentInv'
<1>0. step[o] \in {"idle", "topic", "message", "operation", "answer"}
      /\ (mode[o] \in ExecModes => Tells(step[o], said[o], run[o], row[o]))
  BY DEF ReceiveExec, InsertTopic, InsertUserMessage, InsertOperation, InsertAssistantMessage, At,
     AgentInv, Story
<1>1. ASSUME NEW s \in BeforeRun, NEW status \in {"absent", "running"}
      PROVE  mode[o] \in ExecModes =>
               /\ Tells(s, said[o] \cup {}, run[o], row[o])
               /\ status # "absent" => Tells(s, said[o] \cup {}, run[o], status)
  BY <1>0 DEF Tells, BeforeRun
<1>2. PICK s \in BeforeRun \ {"idle"} : Go(o, s)
  BY DEF ReceiveExec, InsertTopic, InsertUserMessage, InsertOperation, InsertAssistantMessage,
     BeforeRun
<1>3. UNCHANGED <<mode, ids, run, said, connected>> /\ s \in Steps
  BY <1>2 DEF ReceiveExec, InsertTopic, InsertUserMessage, InsertOperation, InsertAssistantMessage,
     Steps
<1>4. CASE InsertOperation(o)
  <2>1. mode[o] \in ExecModes =>
          /\ Tells(s, said[o] \cup {}, run[o], row[o])
          /\ Tells(s, said[o] \cup {}, run[o], "running")
    BY <1>1
  <2>2. Set(o, "running")  BY <1>4 DEF InsertOperation
  <2>3. {} \in SUBSET Answers  OBVIOUS
  <2> QED BY <1>2, <1>3, <2>1, <2>2, <2>3, StatementSteps
<1>5. CASE ~InsertOperation(o)
  <2>1. \/ \E item \in {"topic", "user", "placeholder", "content"} : Put(o, item)
        \/ UNCHANGED records
    BY <1>5 DEF ReceiveExec, InsertTopic, InsertUserMessage, InsertAssistantMessage
  <2>2. mode[o] \in ExecModes => Tells(s, said[o] \cup {}, run[o], row[o])
    BY <1>1
  <2>3. {} \in SUBSET Answers  OBVIOUS
  <2> QED BY <1>2, <1>3, <2>1, <2>2, <2>3, StatementSteps
<1> QED BY <1>4, <1>5

LEMMA PutOperationIDKeeps ==
  ASSUME AgentInv, NEW o \in Ops, PutOperationID(o)
  PROVE  AgentInv'
<1>1. /\ step \in [Ops -> Steps] /\ opOf \in [Agents -> Ops \cup {NoOp}] /\ taskOf \subseteq Ops
      /\ step[o] = "ids" /\ Story(o)
  BY AgentTypes DEF AgentInv, PutOperationID, At
<1>2. /\ step' = [step EXCEPT ![o] = "run"] /\ "run" \in Steps
      /\ UNCHANGED <<mode, row, stored, lost, run, said, connected>>
      /\ opOf' \in [Agents -> Ops \cup {NoOp}] /\ taskOf' \subseteq Ops
  BY <1>1 DEF PutOperationID, Go, records, Steps, BeforeRun
<1>3. AgentTypeOK'
  BY <1>1, <1>2 DEF AgentInv, AgentTypeOK, Steps, BeforeRun
<1>4. mode[o] \in ExecModes => Tells(step'[o], said'[o], run'[o], row'[o])
  BY <1>1, <1>2 DEF Story, Tells, BeforeRun
<1> QED BY <1>1, <1>2, <1>3, <1>4, RequestSteps

\* The run begins.
LEMMA RunBegins ==
  ASSUME AgentInv, NEW o \in Ops, ExecAgent(o) \/ Query(o)
  PROVE  AgentInv'
<1> DEFINE started == [run[o] EXCEPT !.on = TRUE]
<1>0. run[o] \in Runs /\ run \in [Ops -> Runs] /\ connected \in [Ops -> BOOLEAN] /\ Story(o)
  BY AgentTypes DEF AgentInv
<1>1. started \in Runs /\ (run' = [run EXCEPT ![o].on = TRUE] => run' = [run EXCEPT ![o] = started])
  BY <1>0 DEF Runs
<1>2. UNCHANGED <<mode, records, ids, connected>>
  BY DEF ExecAgent, Query
<1>3. /\ {"collect", "check", "next", "fail", "over"} \subseteq Steps
      /\ {} \in SUBSET Answers /\ {"start"} \in SUBSET Answers /\ {"error"} \in SUBSET Answers
  BY DEF Steps, Answers
<1> HIDE DEF started
<1>4. CASE ExecAgent(o)
  <2>1. step[o] = "run"  BY <1>4 DEF ExecAgent, At
  <2>2. mode[o] \in ExecModes =>
          /\ Tells("collect", said[o] \cup {}, started, row[o])
          /\ Tells("check", said[o] \cup {"start"}, started, row[o])
          /\ Tells("fail", said[o] \cup {}, run[o], row[o])
    BY <1>0, <2>1 DEF Story, Tells, BeforeRun
  <2>3. CASE Go(o, "fail") /\ UNCHANGED <<run, said>>
    BY <1>0, <1>2, <1>3, <2>2, <2>3, HandlerSteps
  <2>4. CASE run' = [run EXCEPT ![o].on = TRUE] /\ Go(o, "collect") /\ UNCHANGED said
    BY <1>0, <1>1, <1>2, <1>3, <2>2, <2>4, HandlerSteps
  <2>5. CASE run' = [run EXCEPT ![o].on = TRUE] /\ Go(o, "check") /\ Say(o, {"start"})
    BY <1>0, <1>1, <1>2, <1>3, <2>2, <2>5, HandlerSteps
  <2> QED BY <1>4, <2>3, <2>4, <2>5 DEF ExecAgent
<1>5. CASE Query(o)
  <2>1. mode[o] \notin ExecModes  BY <1>5 DEF Query
  <2>2. CASE run' = [run EXCEPT ![o].on = TRUE] /\ Go(o, "next") /\ UNCHANGED said
    BY <1>0, <1>1, <1>2, <1>3, <2>1, <2>2, HandlerSteps
  <2>3. CASE Go(o, "over") /\ Say(o, {"error"}) /\ UNCHANGED run
    BY <1>0, <1>2, <1>3, <2>1, <2>3, HandlerSteps
  <2> QED BY <1>5, <2>2, <2>3 DEF Query
<1> QED BY <1>4, <1>5

\* The agent and its client.
LEMMA AgentMoves ==
  ASSUME AgentInv, NEW o \in Ops,
         AgentEnds(o) \/ Disconnect(o) \/ \E event \in Events : Emit(o, event)
  PROVE  AgentInv'
<1>0. /\ run[o] \in Runs /\ run \in [Ops -> Runs] /\ connected \in [Ops -> BOOLEAN] /\ Story(o)
      /\ step[o] \in Steps
  BY AgentTypes DEF AgentInv
<1>1. /\ UNCHANGED <<step, mode, records, ids, said>> /\ connected' \in [Ops -> BOOLEAN]
      /\ {} \in SUBSET Answers
  BY <1>0 DEF AgentEnds, Disconnect, Emit
<1>2. ASSUME NEW r \in Runs, run' = [run EXCEPT ![o] = r], run[o].on
      PROVE  AgentInv'
  <2>1. mode[o] \in ExecModes => Tells(step[o], said[o] \cup {}, r, row[o])
    BY <1>0, <1>2 DEF Story, Tells, ReadToEnd
  <2> QED BY <1>0, <1>1, <1>2, <2>1, HandlerSteps
<1>3. CASE AgentEnds(o)
  <2>1. [run[o] EXCEPT !.on = FALSE] \in Runs  BY <1>0 DEF Runs
  <2>2. run' = [run EXCEPT ![o] = [run[o] EXCEPT !.on = FALSE]] /\ run[o].on
    BY <1>0, <1>3 DEF AgentEnds
  <2> QED BY <1>2, <2>1, <2>2
<1>4. CASE Disconnect(o)
  <2>1. mode[o] \in ExecModes => Tells(step[o], said[o] \cup {}, run[o], row[o])
    BY <1>0 DEF Story
  <2> QED BY <1>0, <1>1, <1>4, <2>1, HandlerSteps DEF Disconnect
<1>5. ASSUME NEW event \in Events, Emit(o, event)
      PROVE  AgentInv'
  <2> DEFINE on == event = "piece"
             r == [run[o] EXCEPT !.events = Append(@, event), !.emitted = @ + 1, !.on = on]
  <2>1. run[o].on /\ run[o].emitted < MaxEvents
    BY <1>5 DEF Emit
  <2>2. r \in Runs
    <3>1. on \in BOOLEAN  OBVIOUS
    <3> HIDE DEF on
    <3>2. Append(run[o].events, event) \in Seq(Events)  BY <1>0 DEF Runs
    <3>3. run[o].emitted + 1 \in 0..MaxEvents
      BY <1>0, <2>1, EventsAssumption DEF Runs
    <3> QED BY <1>0, <3>1, <3>2, <3>3 DEF Runs
  <2>3. run' = [run EXCEPT ![o].events = Append(@, event), ![o].emitted = @ + 1,
                           ![o].on = event = "piece"]
    BY <1>5 DEF Emit
  <2>4. run' = [run EXCEPT ![o] = r]
    BY <1>0, <2>3
  <2> HIDE DEF r
  <2> QED BY <1>2, <2>1, <2>2, <2>4
<1> QED BY <1>3, <1>4, <1>5

\* The loops over the events.
LEMMA LoopsKeep ==
  ASSUME AgentInv, NEW o \in Ops,
         \/ Collect(o) \/ CheckClient(o) \/ StreamPiece(o) \/ StreamError(o) \/ StreamEnd(o)
         \/ ChatAnswer(o) \/ ChatStream(o)
  PROVE  AgentInv'
<1> DEFINE rest == [run[o] EXCEPT !.events = Tail(run[o].events)]
<1>0. /\ run[o] \in Runs /\ run \in [Ops -> Runs] /\ connected \in [Ops -> BOOLEAN] /\ Story(o)
      /\ step[o] \in Steps
  BY AgentTypes DEF AgentInv
<1>1. ASSUME NEW event, Takes(o, event)
      PROVE  rest \in Runs /\ run' = [run EXCEPT ![o] = rest]
  <2>1. run[o].events # <<>> /\ run' = [run EXCEPT ![o].events = Tail(@)]
    BY <1>1 DEF Takes
  <2>2. Tail(run[o].events) \in Seq(Events)  BY <1>0, <2>1 DEF Runs
  <2> QED BY <1>0, <2>1, <2>2 DEF Runs
<1>2. UNCHANGED <<mode, records, ids, connected>>
  BY DEF Collect, CheckClient, StreamPiece, StreamError, StreamEnd, ChatAnswer, ChatStream
<1>3. /\ {"check", "event", "save", "finish", "fail", "over"} \subseteq Steps
      /\ {} \in SUBSET Answers /\ {"end"} \in SUBSET Answers /\ {"error"} \in SUBSET Answers
      /\ {"error", "end"} \in SUBSET Answers
  BY DEF Steps, Answers
<1> HIDE DEF rest
<1>4. CASE Collect(o)
  <2>1. step[o] = "collect"  BY <1>4 DEF Collect, At
  <2>2. ASSUME NEW event \in Events, Takes(o, event), UNCHANGED <<step, said>>
        PROVE  AgentInv'
    <3>1. mode[o] \in ExecModes => Tells(step[o], said[o] \cup {}, rest, row[o])
      BY <1>0, <2>1 DEF Story, Tells, BeforeRun
    <3> QED BY <1>0, <1>1, <1>2, <1>3, <2>2, <3>1, HandlerSteps
  <2>3. CASE Drained(o) /\ Go(o, "save") /\ UNCHANGED said
    <3>1. mode[o] \in ExecModes => Tells("save", said[o] \cup {}, run[o], row[o])
      BY <1>0, <2>1, <2>3 DEF Story, Tells, BeforeRun, Drained, ReadToEnd
    <3> QED BY <1>0, <1>2, <1>3, <2>3, <3>1, HandlerSteps DEF Drained
  <2> QED BY <1>4, <2>2, <2>3 DEF Collect
<1>5. CASE CheckClient(o)
  <2>1. step[o] = "check" /\ UNCHANGED run  BY <1>5 DEF CheckClient, At
  <2>2. mode[o] \in ExecModes =>
          /\ Tells("event", said[o] \cup {}, run[o], row[o])
          /\ Tells("over", said[o] \cup {"error"}, run[o], row[o])
    BY <1>0, <2>1 DEF Story, Tells, BeforeRun
  <2>3. CASE Go(o, "event") /\ UNCHANGED said
    BY <1>0, <1>2, <1>3, <2>1, <2>2, <2>3, HandlerSteps
  <2>4. CASE Go(o, "over") /\ Say(o, {"error"})
    BY <1>0, <1>2, <1>3, <2>1, <2>2, <2>4, HandlerSteps
  <2> QED BY <1>5, <2>3, <2>4 DEF CheckClient
<1>6. CASE StreamPiece(o) \/ StreamError(o)
  <2>1. step[o] = "event"  BY <1>6 DEF StreamPiece, StreamError, At
  <2>2. mode[o] \in ExecModes =>
          /\ Tells("check", said[o] \cup {}, rest, row[o])
          /\ Tells("fail", said[o] \cup {"error"}, rest, row[o])
    BY <1>0, <2>1 DEF Story, Tells, BeforeRun
  <2>3. CASE StreamPiece(o)
    BY <1>0, <1>1, <1>2, <1>3, <2>2, <2>3, HandlerSteps DEF StreamPiece
  <2>4. CASE StreamError(o)
    BY <1>0, <1>1, <1>2, <1>3, <2>2, <2>4, HandlerSteps DEF StreamError
  <2> QED BY <1>6, <2>3, <2>4
<1>7. CASE StreamEnd(o)
  <2>1. mode[o] \in ExecModes => Tells("finish", said[o] \cup {"end"}, run[o], row[o])
    BY <1>0, <1>7 DEF StreamEnd, At, Drained, ReadToEnd, Story, Tells, BeforeRun
  <2> QED BY <1>0, <1>2, <1>3, <1>7, <2>1, HandlerSteps DEF StreamEnd, Drained
<1>8. CASE ChatAnswer(o) \/ ChatStream(o)
  <2>1. mode[o] \notin ExecModes
    BY <1>8 DEF ChatAnswer, ChatStream, ExecModes
  <2>2. CASE Takes(o, "piece") /\ UNCHANGED <<step, said>>
    BY <1>0, <1>1, <1>2, <1>3, <2>1, <2>2, HandlerSteps
  <2>3. CASE Takes(o, "error") /\ (Say(o, {"error"}) \/ Say(o, {"error", "end"})) /\ Go(o, "over")
    BY <1>0, <1>1, <1>2, <1>3, <2>1, <2>3, HandlerSteps
  <2>4. CASE Drained(o) /\ Say(o, {"end"}) /\ Go(o, "over")
    BY <1>0, <1>2, <1>3, <2>1, <2>4, HandlerSteps DEF Drained
  <2> QED BY <1>8, <2>2, <2>3, <2>4 DEF ChatAnswer, ChatStream
<1> QED BY <1>4, <1>5, <1>6, <1>7, <1>8

\* The last statements.
LEMMA LastKeep ==
  ASSUME AgentInv, NEW o \in Ops, SaveContent(o) \/ FinishOperation(o) \/ FailOperation(o)
  PROVE  AgentInv'
<1>0. Story(o)  BY DEF AgentInv
<1>1. UNCHANGED <<mode, ids, run, connected>>
  BY DEF SaveContent, FinishOperation, FailOperation
<1>2. /\ {"finish", "over"} \subseteq Steps
      /\ {} \in SUBSET Answers /\ {"end"} \in SUBSET Answers /\ {"error"} \in SUBSET Answers
  BY DEF Steps, Answers
<1>3. CASE SaveContent(o)
  <2>1. mode[o] \in ExecModes => Tells("finish", said[o] \cup {}, run[o], row[o])
    BY <1>0, <1>3 DEF SaveContent, At, Story, Tells, BeforeRun
  <2>2. /\ \/ \E item \in {"topic", "user", "placeholder", "content"} : Put(o, item)
           \/ UNCHANGED records
        /\ Go(o, "finish") /\ UNCHANGED said
    BY <1>3 DEF SaveContent
  <2> QED BY <1>1, <1>2, <2>1, <2>2, StatementSteps
<1>4. CASE FinishOperation(o)
  <2>1. mode[o] \in ExecModes =>
          /\ Tells("over", said[o] \cup {"end"}, run[o], row[o])
          /\ Tells("over", said[o] \cup {"end"}, run[o], "done")
    BY <1>0, <1>4 DEF FinishOperation, At, Story, Tells, BeforeRun
  <2> QED BY <1>1, <1>2, <1>4, <2>1, StatementSteps DEF FinishOperation
<1>5. CASE FailOperation(o)
  <2>1. mode[o] \in ExecModes =>
          /\ Tells("over", said[o] \cup {"error"}, run[o], row[o])
          /\ Tells("over", said[o] \cup {"error"}, run[o], "error")
    BY <1>0, <1>5 DEF FailOperation, At, Story, Tells, BeforeRun
  <2> QED BY <1>1, <1>2, <1>5, <2>1, StatementSteps DEF FailOperation
<1> QED BY <1>3, <1>4, <1>5

LEMMA AgentStep == AgentInv /\ [AgentNext]_agentVars => AgentInv'
<1> SUFFICES ASSUME AgentInv, [AgentNext]_agentVars PROVE AgentInv'  OBVIOUS
<1>1. CASE UNCHANGED agentVars
  BY <1>1 DEF agentVars, AgentInv, AgentTypeOK, Story
<1>2. CASE AgentNext
  BY <1>2, PrepareKeeps, PutOperationIDKeeps, RunBegins, AgentMoves, LoopsKeep, LastKeep
  DEF AgentNext, Handler
<1> QED BY <1>1, <1>2

\* At every step of the two handlers, what the client was told, the agent's run and the row
\* fit together (agent_exec_handler.go).
THEOREM AgentInvariant == AgentInit /\ [][AgentNext]_agentVars => []AgentInv
BY AgentInvInit, AgentStep, PTL

\* The rows of an operation and what its client was told never contradict each other, with
\* any operations and agents, and any number of events in a run.
THEOREM StoriesAgree == AgentSpec => []StoryAgrees
<1>1. AgentInv => StoryAgrees
  BY DEF AgentInv, Story, Tells, ReadToEnd, StoryAgrees, At
<1> QED BY <1>1, AgentInvariant, PTL DEF AgentSpec

-----------------------------------------------------------------------------
(* The messages of a child process *)

\* After a messages the value v brings those up to b.
Brings(v, a, b) ==
  IF v.kind = "batch" THEN a < b /\ Len(v.batch) = b - a /\ \A k \in 1..b - a : v.batch[k] = a + k
                      ELSE a = b

\* The values in the pipe bring the messages after the first a, up to b.
PipeBrings(values, a, b) ==
  \E before \in [1..Len(values) + 1 -> Nat] :
    /\ before[1] = a /\ before[Len(values) + 1] = b
    /\ \A i \in 1..Len(values) : Brings(values[i], before[i], before[i + 1])

\* Read has returned a prefix of what was written; the rest is in the queue, with the
\* decoder and in the pipe, in that order, and none is missing as long as the child lives.
Flow ==
  /\ \A i \in 1..Len(got) : got[i] = i
  /\ \A i \in 1..Len(msgs) : msgs[i] = Len(got) + i
  /\ reader = "waiting" => msgs = <<>>
  /\ decoder.does = "decode" => decoder.offers = Nothing
  /\ decoder.does # "stopped" =>
       \E a, b \in Nat :
         /\ Brings(decoder.offers, Len(got) + Len(msgs), a)
         /\ PipeBrings(output, a, b)
         /\ child = "running" => b = sent.messages

StdioInv == StdioTypeOK /\ sent.messages <= 2 * sent.values /\ Flow

\* A pipe that is empty, that is read from, that is written to.
LEMMA EmptyPipe == ASSUME NEW a \in Nat PROVE PipeBrings(<<>>, a, a)
<1> DEFINE before == [i \in 1..1 |-> a]
<1>1. before \in [1..Len(<<>>) + 1 -> Nat] /\ before[1] = a /\ before[Len(<<>>) + 1] = a
  OBVIOUS
<1> HIDE DEF before
<1> QED BY <1>1 DEF PipeBrings

LEMMA PipeRead ==
  ASSUME NEW values \in Seq(Values), values # <<>>, NEW a \in Nat, NEW b \in Nat,
         PipeBrings(values, a, b)
  PROVE  \E n \in Nat : Brings(Head(values), a, n) /\ PipeBrings(Tail(values), n, b)
<1>1. PICK before \in [1..Len(values) + 1 -> Nat] :
        /\ before[1] = a /\ before[Len(values) + 1] = b
        /\ \A i \in 1..Len(values) : Brings(values[i], before[i], before[i + 1])
  BY DEF PipeBrings
<1> DEFINE after == [i \in 1..Len(Tail(values)) + 1 |-> before[i + 1]]
<1>2. /\ Len(values) \in Nat \ {0} /\ Len(Tail(values)) = Len(values) - 1
      /\ \A i \in 1..Len(Tail(values)) : Tail(values)[i] = values[i + 1]
      /\ Head(values) = values[1]
  OBVIOUS
<1>3. /\ after \in [1..Len(Tail(values)) + 1 -> Nat]
      /\ \A i \in 1..Len(Tail(values)) + 1 : after[i] = before[i + 1]
  BY <1>2
<1> HIDE DEF after
<1>4. PipeBrings(Tail(values), before[2], b)
  <2>1. after[1] = before[2] /\ after[Len(Tail(values)) + 1] = b
    BY <1>1, <1>2, <1>3
  <2>2. \A i \in 1..Len(Tail(values)) : Brings(Tail(values)[i], after[i], after[i + 1])
    BY <1>1, <1>2, <1>3
  <2> QED BY <1>3, <2>1, <2>2 DEF PipeBrings
<1>5. Brings(Head(values), a, before[2]) /\ before[2] \in Nat
  BY <1>1, <1>2
<1> QED BY <1>4, <1>5

LEMMA PipeWrite ==
  ASSUME NEW values \in Seq(Values), NEW a \in Nat, NEW b \in Nat, NEW n \in Nat, NEW v \in Values,
         PipeBrings(values, a, b), Brings(v, b, n)
  PROVE  PipeBrings(Append(values, v), a, n)
<1>1. PICK before \in [1..Len(values) + 1 -> Nat] :
        /\ before[1] = a /\ before[Len(values) + 1] = b
        /\ \A i \in 1..Len(values) : Brings(values[i], before[i], before[i + 1])
  BY DEF PipeBrings
<1> DEFINE more == Append(values, v)
           after == [i \in 1..Len(more) + 1 |-> IF i <= Len(values) + 1 THEN before[i] ELSE n]
<1>2. /\ Len(values) \in Nat /\ Len(more) = Len(values) + 1
      /\ \A i \in 1..Len(values) : more[i] = values[i]
      /\ more[Len(values) + 1] = v
  OBVIOUS
<1>3. /\ after \in [1..Len(more) + 1 -> Nat]
      /\ \A i \in 1..Len(values) + 1 : after[i] = before[i]
      /\ after[Len(more) + 1] = n
  BY <1>2
<1> HIDE DEF after, more
<1>4. \A i \in 1..Len(more) : Brings(more[i], after[i], after[i + 1])
  <2> SUFFICES ASSUME NEW i \in 1..Len(more) PROVE Brings(more[i], after[i], after[i + 1])
    OBVIOUS
  <2>1. CASE i <= Len(values)  BY <1>1, <1>2, <1>3, <2>1
  <2>2. CASE i = Len(values) + 1
    <3>1. after[i] = b /\ after[i + 1] = n /\ more[i] = v
      BY <1>1, <1>2, <1>3, <2>2
    <3> QED BY <3>1
  <2> QED BY <1>2, <2>1, <2>2
<1>5. after[1] = a  BY <1>1, <1>2, <1>3
<1>6. PipeBrings(more, a, n)  BY <1>3, <1>4, <1>5 DEF PipeBrings
<1> QED BY <1>6 DEF more

\* What the child writes.
LEMMA NoMessages ==
  ASSUME NEW m \in Nat, NEW v, v \in {Garbage, NoBatch}
  PROVE  v \in Values /\ Brings(v, m, m)
<1>1. CASE v = Garbage  BY <1>1 DEF Garbage, Values, Brings
<1>2. CASE v = NoBatch  BY <1>2 DEF NoBatch, Values, Brings
<1> QED BY <1>1, <1>2

LEMMA BatchBrings ==
  ASSUME NEW m \in Nat, NEW size \in Nat \ {0}
  PROVE  Batch(m + 1, m + size) \in Values /\ Brings(Batch(m + 1, m + size), m, m + size)
<1> DEFINE v == Batch(m + 1, m + size)
           f == [i \in 1..size |-> m + i]
<1>1. f \in Seq(Nat) /\ Len(f) = size /\ \A k \in 1..size : f[k] = m + k
  OBVIOUS
<1>2. v.kind = "batch" /\ v.batch = f /\ v = [kind |-> "batch", batch |-> f]
  <2>1. m + size - (m + 1) + 1 = size  OBVIOUS
  <2>2. [i \in 1..m + size - (m + 1) + 1 |-> (m + 1) + i - 1] = f
    <3>1. \A i \in 1..size : (m + 1) + i - 1 = m + i  OBVIOUS
    <3> QED BY <2>1, <3>1
  <2>3. v = [kind |-> "batch",
             batch |-> [i \in 1..m + size - (m + 1) + 1 |-> (m + 1) + i - 1]]
    BY DEF Batch
  <2> HIDE DEF v, f
  <2>4. v = [kind |-> "batch", batch |-> f]  BY <2>2, <2>3
  <2> QED BY <2>4
<1> HIDE DEF v, f
<1>3. m + size - m = size /\ m < m + size  OBVIOUS
<1>4. Brings(v, m, m + size)  BY <1>1, <1>2, <1>3 DEF Brings
<1>5. v \in Values  BY <1>1, <1>2 DEF Values
<1> QED BY <1>4, <1>5 DEF v

LEMMA StdioInvInit == StdioInit => StdioInv
<1> SUFFICES ASSUME StdioInit PROVE StdioInv  OBVIOUS
<1>1. Nothing \in Values  BY DEF Nothing, Values
<1>2. StdioTypeOK
  <2>1. <<>> \in Seq(Values) /\ <<>> \in Seq(Nat)  OBVIOUS
  <2>2. 0 \in 0..MaxValues /\ 0 \in 0..2 * MaxValues  BY ValuesAssumption
  <2> QED BY <1>1, <2>1, <2>2 DEF StdioInit, StdioTypeOK
<1>3. Brings(decoder.offers, Len(got) + Len(msgs), 0)
  BY DEF StdioInit, Brings, Nothing
<1>4. PipeBrings(output, 0, 0)  BY EmptyPipe DEF StdioInit
<1> QED BY <1>2, <1>3, <1>4 DEF StdioInit, StdioInv, Flow

LEMMA TwoToAValue ==
  ASSUME NEW m \in Nat, NEW v \in Nat, NEW max \in Nat, NEW size \in 0..2,
         m <= 2 * v, v + 1 \in 0..max
  PROVE  m + size <= 2 * (v + 1) /\ m + size \in 0..2 * max
OBVIOUS

\* Steps of the child.
LEMMA ChildKeeps ==
  ASSUME StdioInv, ChildWrites \/ ChildExits \/ Reap
  PROVE  StdioInv'
<1>1. CASE ChildWrites
  <2>0. PICK size \in 0..2 :
          \E value \in IF size = 0 THEN {Garbage, NoBatch}
                       ELSE {Batch(sent.messages + 1, sent.messages + size)} :
            /\ output' = Append(output, value)
            /\ sent' = [values |-> sent.values + 1, messages |-> sent.messages + size]
    BY <1>1 DEF ChildWrites
  <2>1. PICK value \in IF size = 0 THEN {Garbage, NoBatch}
                       ELSE {Batch(sent.messages + 1, sent.messages + size)} :
          /\ output' = Append(output, value)
          /\ sent' = [values |-> sent.values + 1, messages |-> sent.messages + size]
    BY <2>0
  <2>2. /\ child = "running" /\ sent.values < MaxValues
        /\ UNCHANGED <<child, stdoutOpen, stdinOpen, reading, writer, closer, closedChan>>
    BY <1>1 DEF ChildWrites
  <2>3. sent.messages \in Nat /\ sent.values \in Nat /\ output \in Seq(Values)
    BY DEF StdioInv, StdioTypeOK
  <2>4. value \in Values /\ Brings(value, sent.messages, sent.messages + size)
    <3>1. CASE size = 0
      <4>1. value \in {Garbage, NoBatch} /\ sent.messages = sent.messages + size
        BY <2>1, <2>3, <3>1
      <4> QED BY <2>3, <4>1, NoMessages
    <3>2. CASE size # 0
      <4>1. value = Batch(sent.messages + 1, sent.messages + size)
        BY <2>1, <3>2
      <4> QED BY <2>3, <3>2, <4>1, BatchBrings
    <3> QED BY <3>1, <3>2
  <2>5. StdioTypeOK' /\ sent'.messages <= 2 * sent'.values
    <3>1. output' \in Seq(Values)  BY <2>1, <2>3, <2>4
    <3>2. sent' \in [values : 0..MaxValues, messages : 0..2 * MaxValues]
          /\ sent'.messages <= 2 * sent'.values
      <4>1. sent.values + 1 \in 0..MaxValues /\ sent.messages <= 2 * sent.values
        BY <2>2, <2>3, ValuesAssumption DEF StdioInv, StdioTypeOK
      <4>2. sent.messages + size <= 2 * (sent.values + 1)
            /\ sent.messages + size \in 0..2 * MaxValues
        BY ONLY size \in 0..2, <2>3, <4>1, ValuesAssumption, TwoToAValue
      <4> QED BY <2>1, <4>1, <4>2
    <3> QED BY <2>2, <3>1, <3>2 DEF StdioInv, StdioTypeOK, reading
  <2>6. ASSUME decoder.does # "stopped"
        PROVE  \E a, b \in Nat : /\ Brings(decoder.offers, Len(got) + Len(msgs), a)
                                 /\ PipeBrings(output', a, b) /\ b = sent'.messages
    <3>1. PICK a \in Nat, b \in Nat : /\ Brings(decoder.offers, Len(got) + Len(msgs), a)
                                      /\ PipeBrings(output, a, b) /\ b = sent.messages
      BY <2>2, <2>6 DEF StdioInv, Flow
    <3>2. PipeBrings(output', a, sent.messages + size)
      BY <2>1, <2>3, <2>4, <3>1, PipeWrite
    <3> QED BY <2>1, <2>3, <3>1, <3>2
  <2>7. Flow'  BY <2>2, <2>6 DEF StdioInv, Flow, reading
  <2> QED BY <2>5, <2>7 DEF StdioInv
<1>2. CASE ChildExits
  <2>1. Flow'  BY <1>2 DEF ChildExits, StdioInv, Flow, reading
  <2> QED BY <1>2, <2>1 DEF ChildExits, StdioInv, StdioTypeOK, reading
<1>3. CASE Reap
  <2>0. output' = <<>> /\ <<>> \in Seq(Values)  BY <1>3 DEF Reap
  <2>1. StdioTypeOK' /\ sent' = sent
    BY <1>3, <2>0 DEF Reap, StdioInv, StdioTypeOK, reading
  <2>2. ASSUME decoder.does # "stopped"
        PROVE  \E a, b \in Nat : /\ Brings(decoder.offers, Len(got) + Len(msgs), a)
                                 /\ PipeBrings(output', a, b)
    <3>1. PICK a \in Nat : Brings(decoder.offers, Len(got) + Len(msgs), a)
      BY <2>2 DEF StdioInv, Flow
    <3> QED BY <1>3, <3>1, EmptyPipe DEF Reap
  <2>3. Flow'  BY <1>3, <2>2 DEF Reap, StdioInv, Flow, reading
  <2> QED BY <2>1, <2>3 DEF StdioInv
<1> QED BY <1>1, <1>2, <1>3

\* Steps of the decoder.
LEMMA DecoderKeeps ==
  ASSUME StdioInv, Decode \/ StopDecoder
  PROVE  StdioInv'
<1>0. output \in Seq(Values) /\ got \in Seq(Nat) /\ msgs \in Seq(Nat)
  BY DEF StdioInv, StdioTypeOK
<1>1. CASE Decode /\ output # <<>>
  <2>1. /\ decoder.does = "decode" /\ decoder' = [does |-> "offer", offers |-> Head(output)]
        /\ output' = Tail(output)
        /\ UNCHANGED <<child, sent, stdoutOpen, stdinOpen, reader, msgs, got, broken, writer,
                       closer, closedChan>>
    BY <1>1 DEF Decode
  <2>2. Head(output) \in Values /\ Tail(output) \in Seq(Values)
    BY <1>0, <1>1
  <2>3. PICK a \in Nat, b \in Nat : /\ Brings(decoder.offers, Len(got) + Len(msgs), a)
                                    /\ PipeBrings(output, a, b)
                                    /\ child = "running" => b = sent.messages
    BY <2>1 DEF StdioInv, Flow
  <2>4. a = Len(got) + Len(msgs)
    BY <2>1, <2>3 DEF StdioInv, Flow, Brings, Nothing
  <2>5. PICK n \in Nat : Brings(Head(output), a, n) /\ PipeBrings(Tail(output), n, b)
    BY <1>0, <1>1, <2>3, PipeRead
  <2>6. Flow'  BY <2>1, <2>3, <2>4, <2>5 DEF StdioInv, Flow
  <2> QED BY <2>1, <2>2, <2>6 DEF StdioInv, StdioTypeOK
<1>2. CASE Decode /\ output = <<>>
  <2>1. /\ decoder.does = "decode" /\ decoder' = [does |-> "offer", offers |-> EndOfFile]
        /\ UNCHANGED <<output, child, sent, stdoutOpen, stdinOpen, reader, msgs, got, broken, writer,
                       closer, closedChan>>
    BY <1>2 DEF Decode
  <2>2. EndOfFile \in Values  BY DEF EndOfFile, Values
  <2>3. PICK a \in Nat, b \in Nat : /\ Brings(decoder.offers, Len(got) + Len(msgs), a)
                                    /\ PipeBrings(output, a, b)
                                    /\ child = "running" => b = sent.messages
    BY <2>1 DEF StdioInv, Flow
  <2>4. Brings(EndOfFile, Len(got) + Len(msgs), a)
    BY <2>1, <2>3 DEF StdioInv, Flow, Brings, Nothing, EndOfFile
  <2>5. Flow'  BY <2>1, <2>3, <2>4 DEF StdioInv, Flow
  <2> QED BY <2>1, <2>2, <2>5 DEF StdioInv, StdioTypeOK
<1>3. CASE StopDecoder
  <2>1. Nothing \in Values  BY DEF Nothing, Values
  <2>2. Flow'  BY <1>3 DEF StopDecoder, StdioInv, Flow, process
  <2> QED BY <1>3, <2>1, <2>2 DEF StopDecoder, StdioInv, StdioTypeOK, process
<1> QED BY <1>1, <1>2, <1>3

\* Steps of Read.
LEMMA ReadKeeps ==
  ASSUME StdioInv, Read \/ Receive \/ ReadFails
  PROVE  StdioInv'
<1>0. /\ output \in Seq(Values) /\ got \in Seq(Nat) /\ msgs \in Seq(Nat)
      /\ decoder \in [does : {"decode", "offer", "stopped"}, offers : Values]
  BY DEF StdioInv, StdioTypeOK
<1>1. CASE Read /\ msgs # <<>>
  <2>1. /\ got' = Append(got, Head(msgs)) /\ msgs' = Tail(msgs)
        /\ UNCHANGED <<process, decoder, reader, broken, writer, closer, closedChan>>
    BY <1>1 DEF Read
  <2>2. /\ got' \in Seq(Nat) /\ msgs' \in Seq(Nat)
        /\ Len(got') = Len(got) + 1 /\ Len(msgs') = Len(msgs) - 1 /\ Len(msgs) \in Nat \ {0}
        /\ \A i \in 1..Len(got) : got'[i] = got[i]
        /\ got'[Len(got) + 1] = msgs[1]
        /\ \A i \in 1..Len(msgs') : msgs'[i] = msgs[i + 1]
    BY <1>0, <1>1, <2>1
  <2>3. /\ \A i \in 1..Len(got') : got'[i] = i
        /\ \A i \in 1..Len(msgs') : msgs'[i] = Len(got') + i
        /\ Len(got') + Len(msgs') = Len(got) + Len(msgs)
    <3>1. Len(got) \in Nat /\ Len(got') + Len(msgs') = Len(got) + Len(msgs)  BY <1>0, <2>2
    <3>2. \A i \in 1..Len(got') : got'[i] = i
      <4>1. msgs[1] = Len(got) + 1  BY <2>2 DEF StdioInv, Flow
      <4>2. \A i \in 1..Len(got) : got'[i] = i  BY <2>2 DEF StdioInv, Flow
      <4> QED BY <2>2, <3>1, <4>1, <4>2
    <3>3. \A i \in 1..Len(msgs') : msgs'[i] = Len(got') + i
      <4>1. \A i \in 1..Len(msgs') : msgs[i + 1] = Len(got) + (i + 1)
        BY <2>2 DEF StdioInv, Flow
      <4> QED BY <2>2, <3>1, <4>1
    <3> QED BY <3>1, <3>2, <3>3
  <2>4. reader = "idle"  BY <1>1 DEF Read
  <2>5. Flow'  BY <2>1, <2>3, <2>4 DEF StdioInv, Flow, process
  <2> QED BY <2>1, <2>2, <2>5 DEF StdioInv, StdioTypeOK, process
<1>2. CASE Read /\ msgs = <<>>
  <2>1. Flow'  BY <1>2 DEF Read, StdioInv, Flow, process
  <2> QED BY <1>2, <2>1 DEF Read, StdioInv, StdioTypeOK, process
<1>3. CASE Receive
  <2> DEFINE v == decoder.offers
  <2>1. /\ reader = "waiting" /\ decoder.does = "offer" /\ msgs = <<>> /\ v \in Values
        /\ reader' = "idle" /\ UNCHANGED <<process, writer, closer, closedChan>>
        /\ decoder' = [does |-> IF v.kind \in {"garbage", "end"} THEN "stopped" ELSE "decode",
                       offers |-> Nothing]
    BY <1>0, <1>3 DEF Receive, StdioInv, Flow
  <2>2. PICK a \in Nat, b \in Nat : /\ Brings(v, Len(got), a)
                                    /\ PipeBrings(output, a, b)
                                    /\ child = "running" => b = sent.messages
    BY <1>0, <2>1 DEF StdioInv, Flow
  <2>3. Nothing \in Values /\ Brings(Nothing, a, a)
    BY DEF Nothing, Values, Brings
  <2>4. CASE v.kind = "batch"
    <3>1. got' = Append(got, Head(v.batch)) /\ msgs' = Tail(v.batch) /\ UNCHANGED broken
      BY <1>3, <2>4 DEF Receive
    <3>2. /\ v.batch \in Seq(Nat) /\ Len(v.batch) = a - Len(got) /\ Len(got) < a
          /\ \A k \in 1..a - Len(got) : v.batch[k] = Len(got) + k
      BY <2>1, <2>2, <2>4 DEF Brings, Values
    <3>3. /\ Len(got) \in Nat /\ v.batch # <<>> /\ Head(v.batch) = Len(got) + 1
      BY <1>0, <3>2
    <3>4. /\ got' \in Seq(Nat) /\ Len(got') = Len(got) + 1
          /\ \A i \in 1..Len(got) : got'[i] = got[i]
          /\ got'[Len(got) + 1] = Len(got) + 1
      BY <1>0, <3>1, <3>3
    <3>5. /\ msgs' \in Seq(Nat) /\ Len(msgs') = a - Len(got) - 1
          /\ \A i \in 1..Len(msgs') : msgs'[i] = v.batch[i + 1]
      BY <3>1, <3>2, <3>3
    <3>6. /\ \A i \in 1..Len(got') : got'[i] = i
          /\ \A i \in 1..Len(msgs') : msgs'[i] = Len(got') + i
          /\ Len(got') + Len(msgs') = a
      <4>1. \A i \in 1..Len(got') : got'[i] = i
        <5>1. \A i \in 1..Len(got) : got'[i] = i  BY <3>4 DEF StdioInv, Flow
        <5> QED BY <3>3, <3>4, <5>1
      <4>2. \A i \in 1..Len(msgs') : msgs'[i] = Len(got) + (i + 1)
        <5>1. \A i \in 1..Len(msgs') : i + 1 \in 1..a - Len(got)  BY <3>3, <3>5
        <5> QED BY <3>2, <3>5, <5>1
      <4>3. Len(got') + Len(msgs') = a  BY <3>3, <3>4, <3>5
      <4>4. \A i \in 1..Len(msgs') : Len(got) + (i + 1) = Len(got') + i  BY <3>3, <3>4, <3>5
      <4> QED BY <4>1, <4>2, <4>3, <4>4
    <3>7. Flow'  BY <2>1, <2>2, <2>3, <3>6 DEF Flow, process
    <3> QED BY <2>1, <2>3, <3>1, <3>4, <3>5, <3>7 DEF StdioInv, StdioTypeOK, process
  <2>5. CASE v.kind # "batch"
    <3>1. broken' = TRUE /\ UNCHANGED <<got, msgs>>
      BY <1>3, <2>5 DEF Receive
    <3>2. a = Len(got) + Len(msgs)  BY <1>0, <2>1, <2>2, <2>5 DEF Brings
    <3>3. Flow'  BY <2>1, <2>2, <2>3, <3>1, <3>2 DEF StdioInv, Flow, process
    <3> QED BY <2>1, <2>3, <3>1, <3>3 DEF StdioInv, StdioTypeOK, process
  <2> QED BY <2>4, <2>5
<1>4. CASE ReadFails
  <2>1. Flow'  BY <1>4 DEF ReadFails, StdioInv, Flow, process
  <2> QED BY <1>4, <2>1 DEF ReadFails, StdioInv, StdioTypeOK, process
<1> QED BY <1>1, <1>2, <1>3, <1>4 DEF Read

LEMMA StdioStep == StdioInv /\ [StdioNext]_stdioVars => StdioInv'
<1> SUFFICES ASSUME StdioInv, [StdioNext]_stdioVars PROVE StdioInv'  OBVIOUS
<1>1. ASSUME UNCHANGED <<process, reading>>, writer' \in [Writers -> {"idle", "writing"}],
             closer' \in {"no", "eof", "term", "kill", "returned"}, closedChan' \in BOOLEAN
      PROVE  StdioInv'
  <2>1. Flow'  BY <1>1 DEF StdioInv, Flow, process, reading
  <2> QED BY <1>1, <2>1 DEF StdioInv, StdioTypeOK, process, reading
<1>2. CASE UNCHANGED stdioVars
  BY <1>1, <1>2 DEF stdioVars, process, reading, StdioInv, StdioTypeOK
<1>3. CASE \E w \in Writers : LockWrite(w) \/ WriteReturns(w)
  BY <1>1, <1>3 DEF LockWrite, WriteReturns, StdioInv, StdioTypeOK
<1>4. CASE CloseStdin
  <2>1. Flow'  BY <1>4 DEF CloseStdin, StdioInv, Flow, reading
  <2> QED BY <1>4, <2>1 DEF CloseStdin, StdioInv, StdioTypeOK, reading
<1>5. CASE ChildAwaited \/ WaitElapses
  BY <1>1, <1>5 DEF ChildAwaited, WaitElapses, CloseReturns, StdioInv, StdioTypeOK
<1> QED BY <1>2, <1>3, <1>4, <1>5, ChildKeeps, DecoderKeeps, ReadKeeps DEF StdioNext

\* The queue of the connection, the value the decoder offers and the pipe hold, in this
\* order, what the child has written and Read has not yet returned.
THEOREM StdioInvariant == StdioInit /\ [][StdioNext]_stdioVars => []StdioInv
BY StdioInvInit, StdioStep, PTL

\* Read returns the messages in the order in which the child wrote them, each of them once,
\* whatever text stops the decoder and whenever the connection is closed.
THEOREM ReadsInOrder == StdioSpec => []ReadInOrder
<1>1. StdioInv => ReadInOrder
  BY DEF StdioInv, Flow, ReadInOrder
<1> QED BY <1>1, StdioInvariant, PTL DEF StdioSpec

-----------------------------------------------------------------------------
(* The messages of POST /v1/chat/send *)

\* The messages 1 to n of a request with p to preload.
RoleOf(p, i) == IF i <= p THEN "preload" ELSE IF i = p + 1 THEN "user" ELSE "assistant"
Written(s, t, p, n) == {Row(s, RoleOf(p, i), i, i - 1, t) : i \in 1..n}

SendSteps == {"topic", "agent", "thread", "messages", "assistant", "model", "commit",
              "fetch", "answered", "archive", "archived", "failed"}
Drafting == {"topic", "agent", "thread", "messages", "assistant", "model", "commit"}
Storing == [step : SendSteps, topic : OldTopics \cup Sends, last : 0..Preloads + 2,
            left : 0..Preloads]

Stored(s) == {m \in Messages(table) : m.of = s}

\* How many messages a request in its transaction has to preload in all.
Preloading(s) ==
  CASE send[s].step = "assistant"            -> send[s].last - 1
    [] send[s].step \in {"model", "commit"}  -> send[s].last - 2
    [] OTHER                                 -> send[s].last + send[s].left

\* The request is in the tables, all of it.
IsStored(s) ==
  /\ send[s].last \in 2..Preloads + 2
  /\ Stored(s) = Written(s, send[s].topic, send[s].last - 2, send[s].last)
  /\ send[s].topic = s => Row(s, "topic", 0, 0, s) \in table

\* A transaction holds the messages so far, with the topic if it is a new one, and
\* nothing of it is in the tables before the commit.
DraftOf(s) ==
  /\ \A m \in draft[s] : m.of = s
  /\ send[s].step \in {"idle", "archive"} => Messages(draft[s]) = {}
  /\ send[s].step \in Drafting =>
       /\ Preloading(s) \in 0..Preloads
       /\ Messages(draft[s]) = Written(s, send[s].topic, Preloading(s), send[s].last)
       /\ send[s].step \in {"topic", "agent", "thread"} => send[s].last = 0
       /\ send[s].step # "topic" /\ send[s].topic = s => Row(s, "topic", 0, 0, s) \in draft[s]
       /\ send[s].step \in {"topic", "agent"} => send[s].topic = s

TableOf(s) ==
  /\ send[s].step \in Drafting \cup {"idle", "archive", "archived"} => Stored(s) = {}
  /\ send[s].step \in {"fetch", "answered"} => IsStored(s)
  /\ send[s].step = "failed" => Stored(s) = {} \/ IsStored(s)

ChatInv == ChatTypeOK /\ \A s \in Sends : DraftOf(s) /\ TableOf(s)

-----------------------------------------------------------------------------
LEMMA WrittenMore ==
  ASSUME NEW s, NEW t, NEW p \in Nat, NEW n \in Nat
  PROVE  Written(s, t, p, n + 1)
           = Written(s, t, p, n) \cup {Row(s, RoleOf(p, n + 1), n + 1, n, t)}
<1>1. (n + 1) - 1 = n /\ 1..n + 1 = 1..n \cup {n + 1}
  OBVIOUS
<1> QED BY <1>1 DEF Written

LEMMA WrittenNone == ASSUME NEW s, NEW t, NEW p PROVE Written(s, t, p, 0) = {}
BY DEF Written

LEMMA AddMessage ==
  ASSUME NEW rowset, NEW added
  PROVE  /\ added.role \in MessageRoles => Messages(rowset \cup {added}) = Messages(rowset) \cup {added}
         /\ added.role \notin MessageRoles => Messages(rowset \cup {added}) = Messages(rowset)
BY DEF Messages

\* What all of a request is: a chain of messages that ends with the two of a turn.
IsChain(mine, t, n) ==
  /\ mine # {}
  /\ {m.at : m \in mine} = 1..n
  /\ {m.role : m \in {k \in mine : k.at = n}} = {"assistant"}
  /\ {m.role : m \in {k \in mine : k.at = n - 1}} = {"user"}
  /\ \A m \in mine : m.parent = m.at - 1 /\ m.topic = t

LEMMA WrittenIsChain ==
  ASSUME NEW s, NEW t, NEW n \in Nat, n >= 2, NEW mine, mine = Written(s, t, n - 2, n)
  PROVE  IsChain(mine, t, n)
<1> DEFINE R(i) == Row(s, RoleOf(n - 2, i), i, i - 1, t)
<1>1. \A i \in 1..n : /\ R(i) \in mine
                      /\ R(i).at = i /\ R(i).role = RoleOf(n - 2, i) /\ R(i).parent = i - 1
                      /\ R(i).topic = t
  BY DEF Written, Row
<1>2. \A m \in mine : \E i \in 1..n : m = R(i)
  BY DEF Written
<1>3. RoleOf(n - 2, n) = "assistant" /\ RoleOf(n - 2, n - 1) = "user"
  BY DEF RoleOf
<1> HIDE DEF R
<1>4. \A m \in mine : m.at \in 1..n /\ m = R(m.at)
  BY <1>1, <1>2
<1>5. n \in 1..n /\ n - 1 \in 1..n  OBVIOUS
<1>6. mine # {}  BY <1>1, <1>5
<1>7. {m.at : m \in mine} = 1..n  BY <1>1, <1>4
<1>8. {m.role : m \in {k \in mine : k.at = n}} = {"assistant"}
  BY <1>1, <1>3, <1>4, <1>5
<1>9. {m.role : m \in {k \in mine : k.at = n - 1}} = {"user"}
  BY <1>1, <1>3, <1>4, <1>5
<1>10. \A m \in mine : m.parent = m.at - 1 /\ m.topic = t
  BY <1>1, <1>4
<1> QED BY <1>6, <1>7, <1>8, <1>9, <1>10 DEF IsChain

LEMMA InStoring ==
  ASSUME ChatTypeOK, NEW s \in Sends, send[s].step # "idle"
  PROVE  send[s] \in Storing
BY DEF ChatTypeOK, Storing, SendSteps

LEMMA SteppedTo ==
  ASSUME ChatTypeOK, NEW s \in Sends, send[s].step # "idle", NEW what \in SendSteps,
         Stepped(s, what)
  PROVE  /\ send' \in [Sends -> [step : {"idle"}] \cup Storing]
         /\ send'[s].step = what /\ send'[s].topic = send[s].topic
         /\ send'[s].last = send[s].last /\ send'[s].left = send[s].left
         /\ \A x \in Sends \ {s} : send'[x] = send[x]
<1>1. send[s] \in Storing  BY InStoring
<1>2. send \in [Sends -> [step : {"idle"}] \cup Storing]
  BY DEF ChatTypeOK, Storing, SendSteps
<1>3. send'[s] = [send[s] EXCEPT !.step = what] /\ \A x \in Sends \ {s} : send'[x] = send[x]
  BY <1>2 DEF Stepped
<1>4. [send[s] EXCEPT !.step = what] \in Storing
  BY <1>1 DEF Storing
<1>5. /\ send'[s].step = what /\ send'[s].topic = send[s].topic
      /\ send'[s].last = send[s].last /\ send'[s].left = send[s].left
  BY <1>1, <1>3 DEF Storing
<1>6. send' = [send EXCEPT ![s] = [send[s] EXCEPT !.step = what]]
  BY <1>2 DEF Stepped
<1>7. send' \in [Sends -> [step : {"idle"}] \cup Storing]
  BY <1>2, <1>4, <1>6
<1> QED BY <1>3, <1>5, <1>7

\* A step of one request leaves what holds of the others.
LEMMA OtherSendsKeep ==
  ASSUME ChatInv, NEW s \in Sends, NEW x \in Sends, x # s,
         send'[x] = send[x], draft'[x] = draft[x],
         table' \in {table, table \cup draft[s]}
  PROVE  DraftOf(x)' /\ TableOf(x)'
<1>1. Stored(x)' = Stored(x)
  BY DEF ChatInv, DraftOf, Stored, Messages
<1>2. table \subseteq table'  OBVIOUS
<1>3. DraftOf(x)'
  <2>1. Preloading(x)' = Preloading(x)  BY DEF Preloading
  <2> QED BY <2>1 DEF ChatInv, DraftOf
<1>4. IsStored(x) => IsStored(x)'
  BY <1>1, <1>2 DEF IsStored
<1> QED BY <1>1, <1>3, <1>4 DEF ChatInv, TableOf

LEMMA ChatInvInit == ChatInit => ChatInv
<1> SUFFICES ASSUME ChatInit PROVE ChatInv  OBVIOUS
<1>1. ChatTypeOK  BY DEF ChatInit, ChatTypeOK
<1>2. ASSUME NEW s \in Sends PROVE DraftOf(s) /\ TableOf(s)
  BY DEF ChatInit, DraftOf, TableOf, Stored, Messages, Drafting
<1> QED BY <1>1, <1>2 DEF ChatInv

\* So it is enough to look at the request that steps.
LEMMA OneSendKeeps ==
  ASSUME ChatInv, NEW s \in Sends, DraftOf(s)', TableOf(s)',
         send' \in [Sends -> [step : {"idle"}] \cup Storing],
         draft' \in [Sends -> SUBSET ChatRows], aborted' \subseteq Sends,
         table' \in {table, table \cup draft[s]},
         \A x \in Sends \ {s} : send'[x] = send[x] /\ draft'[x] = draft[x]
  PROVE  ChatInv'
<1>1. table' \subseteq ChatRows  BY DEF ChatInv, ChatTypeOK
<1>2. ChatTypeOK'  BY <1>1 DEF ChatTypeOK, Storing, SendSteps
<1>3. ASSUME NEW x \in Sends PROVE DraftOf(x)' /\ TableOf(x)'
  BY <1>3, OtherSendsKeep
<1> QED BY <1>2, <1>3 DEF ChatInv

\* A statement that succeeds puts one row into the draft.
LEMMA ChatInsertKeeps ==
  ASSUME ChatInv, NEW s \in Sends, NEW added \in ChatRows, added.of = s, Insert(s, added)
  PROVE  /\ draft' \in [Sends -> SUBSET ChatRows] /\ draft'[s] = draft[s] \cup {added}
         /\ \A x \in Sends \ {s} : draft'[x] = draft[x]
         /\ \A m \in draft'[s] : m.of = s
         /\ UNCHANGED <<aborted, table>>
BY DEF Insert, ChatInv, ChatTypeOK, DraftOf

LEMMA ChatBeginKeeps == ASSUME ChatInv, NEW s \in Sends, Begin(s) PROVE ChatInv'
<1>1. PICK count \in 0..Preloads :
        \/ \E t \in OldTopics :
             send' = [send EXCEPT ![s] = [step |-> "thread", topic |-> t, last |-> 0, left |-> count]]
        \/ send' = [send EXCEPT ![s] = [step |-> "topic", topic |-> s, last |-> 0, left |-> count]]
  BY DEF Begin
<1>2. PICK first \in {"thread", "topic"}, t \in OldTopics \cup Sends :
        /\ send' = [send EXCEPT ![s] = [step |-> first, topic |-> t, last |-> 0, left |-> count]]
        /\ first = "topic" <=> t = s
  BY <1>1, NewTopicsAssumption
<1>3. /\ send \in [Sends -> [step : {"idle"}] \cup Storing]
      /\ draft \in [Sends -> SUBSET ChatRows] /\ aborted \subseteq Sends
  BY DEF ChatInv, ChatTypeOK, Storing, SendSteps
<1>4. [step |-> first, topic |-> t, last |-> 0, left |-> count] \in Storing
  BY PreloadsAssumption DEF Storing, SendSteps
<1>5. /\ send' \in [Sends -> [step : {"idle"}] \cup Storing]
      /\ send'[s].step = first /\ send'[s].topic = t /\ send'[s].last = 0 /\ send'[s].left = count
      /\ \A x \in Sends \ {s} : send'[x] = send[x]
  BY <1>2, <1>3, <1>4
<1>6. send[s].step = "idle" /\ UNCHANGED <<draft, aborted, table>>
  BY DEF Begin, Doing
<1>7. Preloading(s)' \in 0..Preloads
  BY <1>5, PreloadsAssumption DEF Preloading
<1>8. DraftOf(s)'
  <2>1. Messages(draft'[s]) = {} /\ \A m \in draft'[s] : m.of = s
    BY <1>6 DEF ChatInv, DraftOf
  <2>2. Written(s, t, Preloading(s)', 0) = {}  BY WrittenNone
  <2> QED BY <1>2, <1>5, <1>7, <2>1, <2>2 DEF DraftOf
<1>9. TableOf(s)'
  BY <1>5, <1>6 DEF ChatInv, TableOf, Stored, Drafting
<1> QED BY <1>3, <1>5, <1>6, <1>8, <1>9, OneSendKeeps

LEMMA TopicKeeps == ASSUME ChatInv, NEW s \in Sends, InsertNewTopic(s) PROVE ChatInv'
<1> DEFINE added == Row(s, "topic", 0, 0, s)
<1>1. /\ send[s].step = "topic" /\ send[s].topic = s /\ send[s].last = 0
      /\ Insert(s, added) /\ Stepped(s, "agent")
  BY DEF InsertNewTopic, Doing, ChatInv, DraftOf, Drafting
<1>2. added \in ChatRows /\ added.of = s /\ added.role \notin MessageRoles
  BY PreloadsAssumption DEF Row, ChatRows, MessageRoles
<1>3. /\ draft' \in [Sends -> SUBSET ChatRows] /\ draft'[s] = draft[s] \cup {added}
      /\ \A x \in Sends \ {s} : draft'[x] = draft[x]
      /\ \A m \in draft'[s] : m.of = s
      /\ UNCHANGED <<aborted, table>>
  BY <1>1, <1>2, ChatInsertKeeps
<1>4. /\ send' \in [Sends -> [step : {"idle"}] \cup Storing]
      /\ send'[s].step = "agent" /\ send'[s].topic = send[s].topic
      /\ send'[s].last = send[s].last /\ send'[s].left = send[s].left
      /\ \A x \in Sends \ {s} : send'[x] = send[x]
  BY <1>1, SteppedTo DEF ChatInv, SendSteps
<1>5. Messages(draft'[s]) = Messages(draft[s])
  BY <1>2, <1>3, AddMessage
<1>6. Preloading(s)' = Preloading(s)
  BY <1>1, <1>4 DEF Preloading
<1>7. DraftOf(s)'
  BY <1>1, <1>3, <1>4, <1>5, <1>6 DEF ChatInv, DraftOf, Drafting
<1>8. TableOf(s)'
  BY <1>1, <1>3, <1>4 DEF ChatInv, TableOf, Stored, Drafting
<1> HIDE DEF added
<1> QED BY <1>3, <1>4, <1>7, <1>8, OneSendKeeps DEF ChatInv, ChatTypeOK

LEMMA UpdateKeeps ==
  ASSUME ChatInv, NEW s \in Sends, TouchAgent(s) \/ SetModel(s)
  PROVE  ChatInv'
<1>1. PICK before \in {"agent", "model"}, after \in {"thread", "commit"} :
        /\ before = "agent" <=> after = "thread"
        /\ send[s].step = before /\ Stepped(s, after)
        /\ aborted' \in {aborted, aborted \cup {s}} /\ UNCHANGED <<draft, table>>
  BY DEF TouchAgent, SetModel, UpdateUnchecked, Doing
<1>2. /\ send' \in [Sends -> [step : {"idle"}] \cup Storing]
      /\ send'[s].step = after /\ send'[s].topic = send[s].topic
      /\ send'[s].last = send[s].last /\ send'[s].left = send[s].left
      /\ \A x \in Sends \ {s} : send'[x] = send[x]
  BY <1>1, SteppedTo DEF ChatInv, SendSteps
<1>3. Preloading(s)' = Preloading(s)
  BY <1>1, <1>2 DEF Preloading
<1>4. DraftOf(s)'
  BY <1>1, <1>2, <1>3 DEF ChatInv, DraftOf, Drafting
<1>5. TableOf(s)'
  BY <1>1, <1>2 DEF ChatInv, TableOf, Stored, Drafting
<1> QED BY <1>1, <1>2, <1>4, <1>5, OneSendKeeps DEF ChatInv, ChatTypeOK

LEMMA ThreadKeeps == ASSUME ChatInv, NEW s \in Sends, InsertThread(s) PROVE ChatInv'
<1> DEFINE added == Row(s, "thread", 0, 0, send[s].topic)
<1>1. send[s].step = "thread" /\ Stepped(s, "messages")
  BY DEF InsertThread, Doing
<1>2. /\ send' \in [Sends -> [step : {"idle"}] \cup Storing]
      /\ send'[s].step = "messages" /\ send'[s].topic = send[s].topic
      /\ send'[s].last = send[s].last /\ send'[s].left = send[s].left
      /\ \A x \in Sends \ {s} : send'[x] = send[x]
  BY <1>1, SteppedTo DEF ChatInv, SendSteps
<1>3. send[s].topic \in OldTopics \cup Sends
  BY <1>1, InStoring DEF ChatInv, Storing
<1>4. added \in ChatRows /\ added.of = s /\ added.role \notin MessageRoles
  BY <1>3, PreloadsAssumption DEF Row, ChatRows, MessageRoles
<1>5. /\ draft' \in [Sends -> SUBSET ChatRows]
      /\ draft[s] \subseteq draft'[s] /\ Messages(draft'[s]) = Messages(draft[s])
      /\ \A x \in Sends \ {s} : draft'[x] = draft[x]
      /\ \A m \in draft'[s] : m.of = s
      /\ UNCHANGED <<aborted, table>>
  <2>1. CASE Insert(s, added)  BY <1>4, <2>1, ChatInsertKeeps, AddMessage
  <2>2. CASE UNCHANGED <<draft, aborted, table>>
    BY <2>2 DEF ChatInv, ChatTypeOK, DraftOf
  <2> QED BY <2>1, <2>2 DEF InsertThread
<1>6. Preloading(s)' = Preloading(s)
  BY <1>1, <1>2 DEF Preloading
<1>7. DraftOf(s)'
  BY <1>1, <1>2, <1>5, <1>6 DEF ChatInv, DraftOf, Drafting
<1>8. TableOf(s)'
  BY <1>1, <1>2, <1>5 DEF ChatInv, TableOf, Stored, Drafting
<1> HIDE DEF added
<1> QED BY <1>2, <1>5, <1>7, <1>8, OneSendKeeps DEF ChatInv, ChatTypeOK

\* A message goes into the draft as the child of the last.
LEMMA MessageKeeps ==
  ASSUME ChatInv, NEW s \in Sends, NEW n, NEW t, NEW p, NEW role,
         n = send[s].last, t = send[s].topic, p = Preloading(s),
         send[s].step \in {"messages", "assistant"}, role = RoleOf(p, n + 1),
         n + 1 <= Preloads + 2, Insert(s, Row(s, role, n + 1, n, t)),
         send' \in [Sends -> [step : {"idle"}] \cup Storing],
         send'[s].step \in {"messages", "assistant", "model"},
         send'[s].topic = t, send'[s].last = n + 1, Preloading(s)' = p,
         \A x \in Sends \ {s} : send'[x] = send[x]
  PROVE  ChatInv'
<1> DEFINE added == Row(s, role, n + 1, n, t)
<1>1. /\ p \in 0..Preloads /\ Messages(draft[s]) = Written(s, t, p, n)
      /\ t = s => Row(s, "topic", 0, 0, s) \in draft[s]
      /\ Stored(s) = {}
  BY DEF ChatInv, DraftOf, TableOf, Drafting
<1>2. n \in 0..Preloads + 2 /\ t \in OldTopics \cup Sends
  BY InStoring DEF ChatInv, Storing
<1>3. role \in MessageRoles  BY DEF RoleOf, MessageRoles
<1>4. added \in ChatRows /\ added.of = s /\ added.role = role
  <2>1. n + 1 \in 0..Preloads + 2 /\ n \in 0..Preloads + 1
    BY <1>2, PreloadsAssumption
  <2> QED BY <1>2, <1>3, <2>1 DEF Row, ChatRows
<1>5. /\ draft' \in [Sends -> SUBSET ChatRows] /\ draft'[s] = draft[s] \cup {added}
      /\ \A x \in Sends \ {s} : draft'[x] = draft[x]
      /\ \A m \in draft'[s] : m.of = s
      /\ UNCHANGED <<aborted, table>>
  BY <1>4, ChatInsertKeeps
<1>6. Messages(draft'[s]) = Messages(draft[s]) \cup {added}
  BY <1>3, <1>4, <1>5, AddMessage
<1>7. Messages(draft'[s]) = Written(s, t, p, n + 1)
  BY <1>1, <1>2, <1>6, PreloadsAssumption, WrittenMore
<1> HIDE DEF added
<1>8. DraftOf(s)'  BY <1>1, <1>5, <1>7 DEF DraftOf
<1>9. TableOf(s)'  BY <1>1, <1>5 DEF TableOf, Stored
<1> QED BY <1>5, <1>8, <1>9, OneSendKeeps DEF ChatInv, ChatTypeOK

LEMMA PreloadKeeps == ASSUME ChatInv, NEW s \in Sends, Preload(s) PROVE ChatInv'
<1> DEFINE r == send[s]
           next == [[r EXCEPT !.left = @ - 1] EXCEPT !.last = r.last + 1]
<1>1. /\ r.step = "messages" /\ r.left > 0
      /\ Insert(s, Row(s, "preload", r.last + 1, r.last, r.topic))
      /\ send' = [send EXCEPT ![s] = next]
  BY DEF Preload, InsertMessage, Doing
<1>2. r \in Storing /\ send \in [Sends -> [step : {"idle"}] \cup Storing]
  BY <1>1, InStoring DEF ChatInv, ChatTypeOK, Storing, SendSteps
<1>3. /\ Preloading(s) = r.last + r.left /\ r.last + r.left <= Preloads
      /\ r.last \in Nat /\ r.left \in Nat \ {0}
  BY <1>1, <1>2 DEF ChatInv, DraftOf, Drafting, Preloading, Storing
<1>4. /\ r.left - 1 \in 0..Preloads /\ r.last + 1 \in 0..Preloads + 2
      /\ (r.last + 1) + (r.left - 1) = r.last + r.left
      /\ RoleOf(r.last + r.left, r.last + 1) = "preload"
  BY <1>3, PreloadsAssumption DEF RoleOf
<1>5. /\ next \in Storing /\ next.step = "messages" /\ next.topic = r.topic
      /\ next.last = r.last + 1 /\ next.left = r.left - 1
  BY <1>1, <1>2, <1>4 DEF Storing
<1> HIDE DEF next
<1>6. /\ send' \in [Sends -> [step : {"idle"}] \cup Storing]
      /\ send'[s] = next /\ \A x \in Sends \ {s} : send'[x] = send[x]
  BY <1>1, <1>2, <1>5
<1>7. Preloading(s)' = (r.last + 1) + (r.left - 1)  BY <1>5, <1>6 DEF Preloading
<1> HIDE DEF r
<1>8. /\ r = send[s] /\ r.last + 1 <= Preloads + 2 /\ Preloading(s)' = Preloading(s)
  BY <1>3, <1>4, <1>7 DEF r
<1> QED BY <1>1, <1>3, <1>4, <1>5, <1>6, <1>8, MessageKeeps

LEMMA UserKeeps == ASSUME ChatInv, NEW s \in Sends, InsertUser(s) PROVE ChatInv'
<1> DEFINE r == send[s]
           next == [[r EXCEPT !.step = "assistant"] EXCEPT !.last = r.last + 1]
<1>1. /\ r.step = "messages" /\ r.left = 0
      /\ Insert(s, Row(s, "user", r.last + 1, r.last, r.topic))
      /\ send' = [send EXCEPT ![s] = next]
  BY DEF InsertUser, InsertMessage, Doing
<1>2. r \in Storing /\ send \in [Sends -> [step : {"idle"}] \cup Storing]
  BY <1>1, InStoring DEF ChatInv, ChatTypeOK, Storing, SendSteps
<1>3. Preloading(s) = r.last + 0 /\ r.last <= Preloads /\ r.last \in Nat
  BY <1>1, <1>2 DEF ChatInv, DraftOf, Drafting, Preloading, Storing
<1>4. /\ r.last + 1 \in 0..Preloads + 2 /\ (r.last + 1) - 1 = r.last /\ r.last + 0 = r.last
      /\ RoleOf(r.last, r.last + 1) = "user"
  BY <1>3, PreloadsAssumption DEF RoleOf
<1>5. /\ next \in Storing /\ next.step = "assistant" /\ next.topic = r.topic
      /\ next.last = r.last + 1
  BY <1>1, <1>2, <1>4 DEF Storing, SendSteps
<1> HIDE DEF next
<1>6. /\ send' \in [Sends -> [step : {"idle"}] \cup Storing]
      /\ send'[s] = next /\ \A x \in Sends \ {s} : send'[x] = send[x]
  BY <1>1, <1>2, <1>5
<1>7. Preloading(s)' = (r.last + 1) - 1  BY <1>5, <1>6 DEF Preloading
<1> HIDE DEF r
<1>8. /\ r = send[s] /\ r.last + 1 <= Preloads + 2 /\ Preloading(s)' = Preloading(s)
      /\ Preloading(s) = r.last
  BY <1>3, <1>4, <1>7 DEF r
<1> QED BY <1>1, <1>4, <1>5, <1>6, <1>8, MessageKeeps

LEMMA AssistantKeeps == ASSUME ChatInv, NEW s \in Sends, InsertAssistant(s) PROVE ChatInv'
<1> DEFINE r == send[s]
           next == [[r EXCEPT !.step = "model"] EXCEPT !.last = r.last + 1]
<1>1. /\ r.step = "assistant"
      /\ Insert(s, Row(s, "assistant", r.last + 1, r.last, r.topic))
      /\ send' = [send EXCEPT ![s] = next]
  BY DEF InsertAssistant, InsertMessage, Doing
<1>2. r \in Storing /\ send \in [Sends -> [step : {"idle"}] \cup Storing]
  BY <1>1, InStoring DEF ChatInv, ChatTypeOK, Storing, SendSteps
<1>3. Preloading(s) = r.last - 1 /\ r.last - 1 \in 0..Preloads /\ r.last \in Nat
  BY <1>1, <1>2 DEF ChatInv, DraftOf, Drafting, Preloading, Storing
<1>4. /\ r.last + 1 \in 0..Preloads + 2 /\ (r.last + 1) - 2 = r.last - 1
      /\ RoleOf(r.last - 1, r.last + 1) = "assistant"
  BY <1>3, PreloadsAssumption DEF RoleOf
<1>5. /\ next \in Storing /\ next.step = "model" /\ next.topic = r.topic
      /\ next.last = r.last + 1
  BY <1>1, <1>2, <1>4 DEF Storing, SendSteps
<1> HIDE DEF next
<1>6. /\ send' \in [Sends -> [step : {"idle"}] \cup Storing]
      /\ send'[s] = next /\ \A x \in Sends \ {s} : send'[x] = send[x]
  BY <1>1, <1>2, <1>5
<1>7. Preloading(s)' = (r.last + 1) - 2  BY <1>5, <1>6 DEF Preloading
<1> HIDE DEF r
<1>8. /\ r = send[s] /\ r.last + 1 <= Preloads + 2 /\ Preloading(s)' = Preloading(s)
      /\ Preloading(s) = r.last - 1
  BY <1>3, <1>4, <1>7 DEF r
<1> QED BY <1>1, <1>4, <1>5, <1>6, <1>8, MessageKeeps

\* What is in the tables of a request after its commit.
LEMMA CommitKeeps == ASSUME ChatInv, NEW s \in Sends, Commit(s) PROVE ChatInv'
<1>1. PICK after \in {"fetch", "failed"} :
        /\ send[s].step = "commit" /\ Stepped(s, after)
        /\ table' = table \cup draft[s] /\ draft' = [draft EXCEPT ![s] = {}]
        /\ UNCHANGED aborted
  BY DEF Commit, Doing
<1>2. /\ send' \in [Sends -> [step : {"idle"}] \cup Storing]
      /\ send'[s].step = after /\ send'[s].topic = send[s].topic
      /\ send'[s].last = send[s].last
      /\ \A x \in Sends \ {s} : send'[x] = send[x]
  BY <1>1, SteppedTo DEF ChatInv, SendSteps
<1>3. draft' \in [Sends -> SUBSET ChatRows] /\ draft'[s] = {}
      /\ \A x \in Sends \ {s} : draft'[x] = draft[x]
  BY <1>1 DEF ChatInv, ChatTypeOK
<1>4. /\ Stored(s) = {} /\ \A m \in draft[s] : m.of = s
      /\ Messages(draft[s]) = Written(s, send[s].topic, send[s].last - 2, send[s].last)
      /\ send[s].topic = s => Row(s, "topic", 0, 0, s) \in draft[s]
      /\ send[s].last - 2 \in 0..Preloads
  BY <1>1 DEF ChatInv, DraftOf, TableOf, Drafting, Preloading
<1>5. Stored(s)' = Messages(draft[s])
  <2>1. Stored(s)' = Stored(s) \cup {m \in Messages(draft[s]) : m.of = s}
    BY <1>1 DEF Stored, Messages
  <2>2. {m \in Messages(draft[s]) : m.of = s} = Messages(draft[s])
    BY <1>4 DEF Messages
  <2> QED BY <1>4, <2>1, <2>2
<1>6. send[s].last \in 2..Preloads + 2
  BY <1>1, <1>4, InStoring, PreloadsAssumption DEF ChatInv, Storing
<1>7. IsStored(s)'  BY <1>1, <1>2, <1>4, <1>5, <1>6 DEF IsStored
<1>8. TableOf(s)'  BY <1>2, <1>7 DEF TableOf, Drafting
<1>9. DraftOf(s)'  BY <1>2, <1>3 DEF DraftOf, Drafting
<1> QED BY <1>1, <1>2, <1>3, <1>8, <1>9, OneSendKeeps DEF ChatInv, ChatTypeOK

LEMMA FetchKeeps == ASSUME ChatInv, NEW s \in Sends, FetchMessages(s) PROVE ChatInv'
<1>1. PICK after \in {"answered", "failed"} :
        send[s].step = "fetch" /\ Stepped(s, after) /\ UNCHANGED <<draft, aborted, table>>
  BY DEF FetchMessages, Doing
<1>2. /\ send' \in [Sends -> [step : {"idle"}] \cup Storing]
      /\ send'[s].step = after /\ send'[s].topic = send[s].topic
      /\ send'[s].last = send[s].last
      /\ \A x \in Sends \ {s} : send'[x] = send[x]
  BY <1>1, SteppedTo DEF ChatInv, SendSteps
<1>3. IsStored(s) /\ Stored(s)' = Stored(s)
  BY <1>1 DEF ChatInv, TableOf, Stored
<1>4. IsStored(s)'  BY <1>1, <1>2, <1>3 DEF IsStored
<1>5. TableOf(s)'  BY <1>2, <1>3, <1>4 DEF TableOf, Drafting
<1>6. DraftOf(s)'  BY <1>1, <1>2 DEF ChatInv, DraftOf, Drafting
<1> QED BY <1>1, <1>2, <1>5, <1>6, OneSendKeeps DEF ChatInv, ChatTypeOK

LEMMA FailureKeeps == ASSUME ChatInv, NEW s \in Sends, StatementFails(s) PROVE ChatInv'
<1>1. /\ send[s].step \in Drafting \cup {"fetch", "archive"} /\ Stepped(s, "failed")
      /\ draft' = [draft EXCEPT ![s] = {}] /\ aborted' = aborted \ {s}
      /\ UNCHANGED table
  BY DEF StatementFails, Drafting
<1>2. /\ send' \in [Sends -> [step : {"idle"}] \cup Storing]
      /\ send'[s].step = "failed" /\ send'[s].topic = send[s].topic
      /\ send'[s].last = send[s].last
      /\ \A x \in Sends \ {s} : send'[x] = send[x]
  BY <1>1, SteppedTo DEF ChatInv, SendSteps, Drafting
<1>3. draft' \in [Sends -> SUBSET ChatRows] /\ draft'[s] = {}
      /\ \A x \in Sends \ {s} : draft'[x] = draft[x]
  BY <1>1 DEF ChatInv, ChatTypeOK
<1>4. Stored(s)' = Stored(s) /\ (Stored(s) = {} \/ IsStored(s))
  BY <1>1 DEF ChatInv, TableOf, Stored
<1>5. IsStored(s) => IsStored(s)'  BY <1>1, <1>2, <1>4 DEF IsStored
<1>6. TableOf(s)'  BY <1>2, <1>4, <1>5 DEF TableOf, Drafting
<1>7. DraftOf(s)'  BY <1>2, <1>3 DEF DraftOf, Drafting
<1> QED BY <1>1, <1>2, <1>3, <1>6, <1>7, OneSendKeeps DEF ChatInv, ChatTypeOK

\* A document is no message.
LEMMA DocumentKeeps ==
  ASSUME ChatInv, NEW s \in Sends, InsertDocument(s) \/ CommitDocument(s)
  PROVE  ChatInv'
<1>1. CASE InsertDocument(s)
  <2> DEFINE added == Row(s, "document", 0, 0, s)
             next == [step |-> "archive", topic |-> s, last |-> 0, left |-> 0]
  <2>1. send[s].step = "idle" /\ Insert(s, added) /\ send' = [send EXCEPT ![s] = next]
    BY <1>1 DEF InsertDocument, Doing
  <2>2. added \in ChatRows /\ added.of = s /\ added.role \notin MessageRoles
    BY PreloadsAssumption DEF Row, ChatRows, MessageRoles
  <2>3. /\ draft' \in [Sends -> SUBSET ChatRows] /\ draft'[s] = draft[s] \cup {added}
        /\ \A x \in Sends \ {s} : draft'[x] = draft[x]
        /\ \A m \in draft'[s] : m.of = s
        /\ UNCHANGED <<aborted, table>>
    BY <2>1, <2>2, ChatInsertKeeps
  <2>4. Messages(draft'[s]) = {}
    BY <2>1, <2>2, <2>3, AddMessage DEF ChatInv, DraftOf
  <2>5. next \in Storing /\ next.step = "archive"
    BY PreloadsAssumption DEF Storing, SendSteps
  <2> HIDE DEF added, next
  <2>6. /\ send' \in [Sends -> [step : {"idle"}] \cup Storing]
        /\ send'[s] = next /\ \A x \in Sends \ {s} : send'[x] = send[x]
    BY <2>1, <2>5 DEF ChatInv, ChatTypeOK, Storing, SendSteps
  <2>7. DraftOf(s)'  BY <2>3, <2>4, <2>5, <2>6 DEF DraftOf, Drafting
  <2>8. TableOf(s)'  BY <2>1, <2>3, <2>5, <2>6 DEF ChatInv, TableOf, Stored, Drafting
  <2> QED BY <2>3, <2>6, <2>7, <2>8, OneSendKeeps DEF ChatInv, ChatTypeOK
<1>2. CASE CommitDocument(s)
  <2>1. PICK after \in {"archived", "failed"} :
          /\ send[s].step = "archive" /\ Stepped(s, after)
          /\ table' = table \cup draft[s] /\ draft' = [draft EXCEPT ![s] = {}]
          /\ UNCHANGED aborted
    BY <1>2 DEF CommitDocument, Doing
  <2>2. /\ send' \in [Sends -> [step : {"idle"}] \cup Storing]
        /\ send'[s].step = after
        /\ \A x \in Sends \ {s} : send'[x] = send[x]
    BY <2>1, SteppedTo DEF ChatInv, SendSteps
  <2>3. draft' \in [Sends -> SUBSET ChatRows] /\ draft'[s] = {}
        /\ \A x \in Sends \ {s} : draft'[x] = draft[x]
    BY <2>1 DEF ChatInv, ChatTypeOK
  <2>4. Stored(s)' = {}
    <3>1. Stored(s) = {} /\ Messages(draft[s]) = {}
      BY <2>1 DEF ChatInv, DraftOf, TableOf
    <3> QED BY <2>1, <3>1 DEF Stored, Messages
  <2>5. DraftOf(s)'  BY <2>2, <2>3 DEF DraftOf, Drafting
  <2>6. TableOf(s)'  BY <2>2, <2>4 DEF TableOf, Drafting
  <2> QED BY <2>1, <2>2, <2>3, <2>5, <2>6, OneSendKeeps DEF ChatInv, ChatTypeOK
<1> QED BY <1>1, <1>2

LEMMA ChatStep == ChatInv /\ [ChatNext]_chatVars => ChatInv'
<1> SUFFICES ASSUME ChatInv, [ChatNext]_chatVars PROVE ChatInv'  OBVIOUS
<1>1. CASE UNCHANGED chatVars
  BY <1>1 DEF chatVars, ChatInv, ChatTypeOK, DraftOf, TableOf, IsStored, Stored, Preloading,
              Messages
<1>2. CASE ChatNext
  <2>1. PICK s \in Sends :
          \/ Begin(s) \/ InsertNewTopic(s) \/ TouchAgent(s) \/ InsertThread(s) \/ Preload(s)
          \/ InsertUser(s) \/ InsertAssistant(s) \/ SetModel(s) \/ Commit(s) \/ FetchMessages(s)
          \/ InsertDocument(s) \/ CommitDocument(s) \/ StatementFails(s)
    BY <1>2 DEF ChatNext
  <2> QED BY <2>1, ChatBeginKeeps, TopicKeeps, UpdateKeeps, ThreadKeeps, PreloadKeeps, UserKeeps,
             AssistantKeeps, CommitKeeps, FetchKeeps, DocumentKeeps, FailureKeeps
<1> QED BY <1>1, <1>2

\* The messages a transaction has inserted are a chain as long as its progress says, and the
\* tables have all of it or nothing (handleChatSend), for any requests that interleave.
THEOREM ChatInvariant == ChatSpec => []ChatInv
BY ChatInvInit, ChatStep, PTL DEF ChatSpec

\* Of a request to send a chat message there is nothing in the tables or all of it, each
\* message after its parent, and a request that is answered has stored all of it.
THEOREM SendsAreWhole == ChatSpec => []SentWhole
<1>1. ChatInv => SentWhole
  <2> SUFFICES ASSUME ChatInv PROVE SentWhole  OBVIOUS
  <2>1. ASSUME NEW s \in Sends
        PROVE  LET mine == {m \in Messages(table) : m.of = s}
                   RoleAt(n) == {m.role : m \in {k \in mine : k.at = n}}
               IN /\ mine # {} =>
                       \E n \in 2..Preloads + 2 :
                         /\ {m.at : m \in mine} = 1..n
                         /\ RoleAt(n) = {"assistant"} /\ RoleAt(n - 1) = {"user"}
                         /\ \A m \in mine : m.parent = m.at - 1 /\ m.topic = send[s].topic
                         /\ send[s].topic = s => Row(s, "topic", 0, 0, s) \in table
                  /\ Doing(s, "answered") => mine # {}
    <3> DEFINE mine == {m \in Messages(table) : m.of = s}
               n == send[s].last
    <3>1. mine = Stored(s)  BY DEF Stored
    <3>2. send[s].step \in SendSteps \cup {"idle"}
      BY DEF ChatInv, ChatTypeOK, SendSteps
    <3>3. Stored(s) = {} \/ IsStored(s)
      BY <3>2 DEF ChatInv, TableOf, SendSteps, Drafting
    <3>4. Doing(s, "answered") => IsStored(s)
      BY DEF ChatInv, TableOf, Doing
    <3>5. IsStored(s) =>
            /\ n \in 2..Preloads + 2 /\ mine # {}
            /\ {m.at : m \in mine} = 1..n
            /\ {m.role : m \in {k \in mine : k.at = n}} = {"assistant"}
            /\ {m.role : m \in {k \in mine : k.at = n - 1}} = {"user"}
            /\ \A m \in mine : m.parent = m.at - 1 /\ m.topic = send[s].topic
            /\ send[s].topic = s => Row(s, "topic", 0, 0, s) \in table
      <4> SUFFICES ASSUME IsStored(s)
                   PROVE  /\ n \in 2..Preloads + 2 /\ mine # {}
                          /\ {m.at : m \in mine} = 1..n
                          /\ {m.role : m \in {k \in mine : k.at = n}} = {"assistant"}
                          /\ {m.role : m \in {k \in mine : k.at = n - 1}} = {"user"}
                          /\ \A m \in mine : m.parent = m.at - 1 /\ m.topic = send[s].topic
                          /\ send[s].topic = s => Row(s, "topic", 0, 0, s) \in table
        OBVIOUS
      <4>1. n \in 2..Preloads + 2 /\ n \in Nat /\ n >= 2
            /\ mine = Written(s, send[s].topic, n - 2, n)
        BY <3>1, PreloadsAssumption DEF IsStored
      <4>2. send[s].topic = s => Row(s, "topic", 0, 0, s) \in table
        BY DEF IsStored
      <4> HIDE DEF mine, n
      <4>3. IsChain(mine, send[s].topic, n)
        BY ONLY <4>1, WrittenIsChain
      <4> QED BY <4>1, <4>2, <4>3 DEF IsChain
    <3> HIDE DEF n
    <3> QED BY <3>1, <3>3, <3>4, <3>5
  <2> QED BY <2>1 DEF SentWhole
<1> QED BY <1>1, ChatInvariant, PTL

-----------------------------------------------------------------------------
(* The four components together *)

\* A step of one part is a step of that component and no step of the others.
LEMMA PartsInit == Init => AgentInit /\ StdioInit /\ ChatInit /\ PalaceInit
BY DEF Init

LEMMA PartsStep ==
  [Next]_<<part, agentVars, stdioVars, chatVars, palaceVars>> =>
    /\ [AgentNext]_agentVars /\ [StdioNext]_stdioVars
    /\ [ChatNext]_chatVars /\ [PalaceNext]_palaceVars
BY DEF Next

HandlersInv == AgentInv /\ StdioInv /\ ChatInv /\ PalaceInv

\* What each of the four components keeps by itself, they keep together.
THEOREM HandlersInvariant == Spec => []HandlersInv
<1>1. Init => HandlersInv
  BY PartsInit, AgentInvInit, StdioInvInit, ChatInvInit, PalaceInitInv DEF HandlersInv
<1>2. HandlersInv /\ [Next]_<<part, agentVars, stdioVars, chatVars, palaceVars>> => HandlersInv'
  BY PartsStep, AgentStep, StdioStep, ChatStep, PalaceStep DEF HandlersInv
<1> QED BY <1>1, <1>2, PTL DEF Spec

\* The types of the four components, and what the run checks of their states.
THEOREM HandlersTypes == Spec => []TypeOK
<1>1. HandlersInv => TypeOK
  BY DEF HandlersInv, AgentInv, StdioInv, ChatInv, PalaceInv, TypeOK
<1> QED BY <1>1, HandlersInvariant, PTL
=============================================================================
