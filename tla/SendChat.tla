------------------------------ MODULE SendChat ------------------------------
(***************************************************************************)
(* POST /v1/chat/send (chat_handlers.go): one transaction stores a new     *)
(* topic and thread if asked for, the preloaded messages, the message of   *)
(* the user and a placeholder for the answer, each the child of the one    *)
(* before; two queries after the commit fetch what the answer lists.       *)
(*                                                                         *)
(* A failed statement aborts the transaction in the database: the          *)
(* statements after it fail too and the commit rolls back.  Two statements *)
(* of the handler drop their error.  POST /v1/chat/archiveToolResult stores *)
(* one document the same way.                                              *)
(***************************************************************************)
EXTENDS Naturals

CONSTANTS
  Sends,      \* requests; a client that got no answer may send again
  OldTopics,  \* topics there are
  Preloads    \* bound on the messages to preload

ASSUME PreloadsAssumption == Preloads \in Nat
\* A new topic gets an id of its own: the request that asks for it.
ASSUME NewTopicsAssumption == OldTopics \cap Sends = {}

VARIABLES
  send,       \* each request: its step, its topic, its last message
  draft,      \* the rows of each open transaction
  aborted,    \* transactions with a failed statement
  table       \* the committed rows

chatVars == <<send, draft, aborted, table>>

-----------------------------------------------------------------------------
\* A row: the request that wrote it, its role, its place among the messages of the
\* request, the place of its parent (0: a parent the client names) and its topic.
Row(s, role, at, parent, topic) ==
  [of |-> s, role |-> role, at |-> at, parent |-> parent, topic |-> topic]

MessageRoles == {"preload", "user", "assistant"}
Messages(rowset) == {m \in rowset : m.role \in MessageRoles}

ChatInit ==
  /\ send = [s \in Sends |-> [step |-> "idle"]]
  /\ draft = [s \in Sends |-> {}]
  /\ aborted = {}
  /\ table = {}

Doing(s, what) == send[s].step = what
Stepped(s, what) == send' = [send EXCEPT ![s].step = what]

\* Mutant: the statement runs outside the transaction.
InsertAtOnce(s, row) ==
  /\ table' = table \cup {row}
  /\ UNCHANGED <<aborted, draft>>

\* A statement of the transaction that succeeds.
Insert(s, row) ==
  /\ s \notin aborted
  /\ draft' = [draft EXCEPT ![s] = @ \cup {row}]
  /\ UNCHANGED <<aborted, table>>

\* Begin; the request names a topic or asks for a new one.
Begin(s) ==
  /\ Doing(s, "idle")
  /\ \E count \in 0..Preloads :
       \/ \E t \in OldTopics :
            send' = [send EXCEPT ![s] = [step |-> "thread", topic |-> t, last |-> 0, left |-> count]]
       \/ send' = [send EXCEPT ![s] = [step |-> "topic", topic |-> s, last |-> 0, left |-> count]]
  /\ UNCHANGED <<draft, aborted, table>>

InsertNewTopic(s) ==
  /\ Doing(s, "topic")
  /\ Insert(s, Row(s, "topic", 0, 0, s))
  /\ Stepped(s, "agent")

\* An UPDATE whose error is dropped: of the agent's time, of the answer's model.
UpdateUnchecked(s, before, after) ==
  /\ Doing(s, before)
  /\ Stepped(s, after)
  /\ aborted' \in {aborted, aborted \cup {s}}
  /\ UNCHANGED <<draft, table>>

TouchAgent(s) == UpdateUnchecked(s, "agent", "thread")
SetModel(s) == UpdateUnchecked(s, "model", "commit")

\* Only a request that asks for one gets a thread.
InsertThread(s) ==
  /\ Doing(s, "thread")
  /\ \/ Insert(s, Row(s, "thread", 0, 0, send[s].topic))
     \/ UNCHANGED <<draft, aborted, table>>
  /\ Stepped(s, "messages")

\* insertMessage: the new row becomes the parent of the next.
InsertMessage(s, role, next) ==
  LET at == send[s].last + 1
  IN /\ Insert(s, Row(s, role, at, send[s].last, send[s].topic))
     /\ send' = [send EXCEPT ![s] = [next EXCEPT !.last = at]]

\* Mutant: one preloaded message too many.
PreloadOneMore(s) ==
  /\ Doing(s, "messages")
  /\ InsertMessage(s, "preload", [send[s] EXCEPT !.left = @ - 1])

Preload(s) ==
  /\ Doing(s, "messages") /\ send[s].left > 0
  /\ InsertMessage(s, "preload", [send[s] EXCEPT !.left = @ - 1])

InsertUser(s) ==
  /\ Doing(s, "messages") /\ send[s].left = 0
  /\ InsertMessage(s, "user", [send[s] EXCEPT !.step = "assistant"])

InsertAssistant(s) ==
  /\ Doing(s, "assistant")
  /\ InsertMessage(s, "assistant", [send[s] EXCEPT !.step = "model"])

\* A statement fails: the deferred Rollback, and a 500.
StatementFails(s) ==
  /\ send[s].step \in {"topic", "thread", "messages", "assistant", "commit", "fetch",
                      "archive"}
  /\ draft' = [draft EXCEPT ![s] = {}]
  /\ aborted' = aborted \ {s}
  /\ Stepped(s, "failed")
  /\ UNCHANGED table

\* The commit of an aborted transaction is a rollback and an error; after a good one
\* the answer of the database may be lost.
Commit(s) ==
  /\ Doing(s, "commit") /\ s \notin aborted
  /\ table' = table \cup draft[s]
  /\ draft' = [draft EXCEPT ![s] = {}]
  /\ Stepped(s, "fetch") \/ Stepped(s, "failed")
  /\ UNCHANGED aborted

\* The messages of the topic, then the topics.  What the answer lists is left out: the
\* queries do not look for an error after the last row they got, so a broken one is
\* answered with the part that came, or with nothing, as if that were all.
FetchMessages(s) ==
  /\ Doing(s, "fetch")
  /\ Stepped(s, "answered") \/ Stepped(s, "failed")
  /\ UNCHANGED <<draft, aborted, table>>

\* The content is above the limit of the request; a shorter one is answered at once.
InsertDocument(s) ==
  /\ Doing(s, "idle")
  /\ Insert(s, Row(s, "document", 0, 0, s))
  /\ send' = [send EXCEPT ![s] = [step |-> "archive", topic |-> s, last |-> 0, left |-> 0]]

CommitDocument(s) ==
  /\ Doing(s, "archive")
  /\ table' = table \cup draft[s]
  /\ draft' = [draft EXCEPT ![s] = {}]
  /\ Stepped(s, "archived") \/ Stepped(s, "failed")
  /\ UNCHANGED aborted

ChatNext ==
  \E s \in Sends :
    \/ Begin(s) \/ InsertNewTopic(s) \/ TouchAgent(s) \/ InsertThread(s) \/ Preload(s)
    \/ InsertUser(s) \/ InsertAssistant(s) \/ SetModel(s) \/ Commit(s) \/ FetchMessages(s)
    \/ InsertDocument(s) \/ CommitDocument(s) \/ StatementFails(s)

ChatSpec == ChatInit /\ [][ChatNext]_chatVars

-----------------------------------------------------------------------------
ChatRows == [of : Sends, role : MessageRoles \cup {"topic", "thread", "document"}, at : 0..Preloads + 2,
         parent : 0..Preloads + 1, topic : OldTopics \cup Sends]

ChatTypeOK ==
  /\ send \in [Sends -> [step : {"idle"}] \cup
       [step : {"topic", "agent", "thread", "messages", "assistant", "model", "commit",
                "fetch", "answered", "archive", "archived", "failed"},
        topic : OldTopics \cup Sends, last : 0..Preloads + 2, left : 0..Preloads]]
  /\ draft \in [Sends -> SUBSET ChatRows]
  /\ aborted \subseteq Sends
  /\ table \subseteq ChatRows

\* Of a request there is nothing in the tables or all of it: its messages form one
\* chain that ends with the user's and the placeholder, in one topic, which is there;
\* a dropped error does not leave half of them, and a request that is answered has
\* stored them.
SentWhole ==
  \A s \in Sends :
    LET mine == {m \in Messages(table) : m.of = s}
        RoleAt(n) == {m.role : m \in {k \in mine : k.at = n}}
    IN /\ mine # {} =>
            \E n \in 2..Preloads + 2 :
              /\ {m.at : m \in mine} = 1..n
              /\ RoleAt(n) = {"assistant"} /\ RoleAt(n - 1) = {"user"}
              /\ \A m \in mine : m.parent = m.at - 1 /\ m.topic = send[s].topic
              /\ send[s].topic = s => Row(s, "topic", 0, 0, s) \in table
       /\ Doing(s, "answered") => mine # {}

=============================================================================
