------------------------------- MODULE Palace -------------------------------
(***************************************************************************)
(* The memory palace of one user, memory/palace/pgstore.go.  Every memory is *)
(* a row of user_memories (the parent) and one row of a layer's table (the  *)
(* child), created and deleted together in a transaction.                   *)
(*                                                                         *)
(* The transactions run at Postgres' default level, read committed: a      *)
(* statement sees what is committed when it starts and what its own         *)
(* transaction has done; a row that another transaction has deleted and not *)
(* committed makes it wait.  A child refers to its parent by a foreign key   *)
(* that does not cascade, except contexts, which name it in a JSON array.   *)
(* Rows that a transaction has not committed are kept with the transaction. *)
(***************************************************************************)
EXTENDS Naturals, Sequences

CONSTANTS
  Children,   \* ids of the rows of the layers' tables; each is generated once
  Parents,    \* ids of the rows of user_memories
  Requests,   \* HTTP requests that may be under way together
  None,       \* no row
  Layers,     \* the layers that memories of the instance are of
  Failures    \* may a connection break or a statement fail

\* The tables in the order DeleteAll empties them.
tables == <<"identities", "activities", "contexts", "experiences", "preferences">>

ASSUME ConstantsAssumption ==
  /\ None \notin Children \cup Parents
  /\ Layers \subseteq {tables[i] : i \in DOMAIN tables}
  /\ Failures \in BOOLEAN

VARIABLES
  layer,       \* the table each child is in
  memory,      \* the layers' tables: the parent id of each row, None if there is none
  parents,     \* the table user_memories: <<id, child it was created with>>
  orphaned,    \* history: ids whose parent was deleted while a row named it
  used,        \* ids that have been generated or supplied
  pc,          \* the next statement of each request
  txn,         \* what the request is about
  gone,        \* children its transaction has deleted
  goneParents, \* parents its transaction has deleted
  seen         \* rows the statement under way will delete

rows == <<layer, memory, parents, orphaned>>
locks == <<gone, goneParents>>
palaceVars == <<rows, used, pc, txn, locks, seen>>

-----------------------------------------------------------------------------
Over == {"ok", "notFound", "error"}

Rows == {c \in Children : memory[c] # None}

ParentRows == Parents \X Children

NoTxn == [op |-> "none", child |-> None, parent |-> None, step |-> 0, start |-> {}]

Goto(r, label) == pc' = [pc EXCEPT ![r] = label]

\* Requests whose transaction has inserted the parent with id p.
Inserters(p) ==
  {q \in Requests : pc[q] \in {"insertChild", "commitCreate"} /\ txn[q].parent = p}

\* Requests whose transaction has deleted one of the rows.
Deleters(children, ps) ==
  {q \in Requests : gone[q] \cap children # {} \/ goneParents[q] \cap ps # {}}

\* Children of a parent by foreign key, and all of them.
Referring(p) == {c \in Rows : memory[c] = p /\ layer[c] # "contexts"}
ChildrenOf(p) == {c \in Rows : memory[c] = p}

\* The requests that the next statement of a request has to wait for.
Blockers(r) ==
  (CASE pc[r] = "insertParent" ->
          Inserters(txn[r].parent)
            \cup Deleters({}, {row \in parents : row[1] = txn[r].parent})
     [] pc[r] \in {"deleteChild", "update"} -> Deleters({txn[r].child}, {})
     [] pc[r] = "deleteRows"    -> Deleters(seen[r], {})
     [] pc[r] = "deleteParents" -> Deleters({}, seen[r])
     [] pc[r] = "checkParents"  ->
          Deleters(UNION {Referring(row[1]) : row \in goneParents[r]}, {})
     [] OTHER -> {}) \ {r}

\* The end of a transaction releases its locks.
End(r, label) ==
  /\ Goto(r, label)
  /\ txn' = [txn EXCEPT ![r] = NoTxn]
  /\ gone' = [gone EXCEPT ![r] = {}]
  /\ goneParents' = [goneParents EXCEPT ![r] = {}]
  /\ seen' = [seen EXCEPT ![r] = {}]

\* Mutant: the rollback is forgotten.
AbortKeepingLocks(r, label) ==
  /\ Goto(r, label)
  /\ UNCHANGED <<locks, seen, rows, txn>>

\* The deferred Rollback: nothing the transaction did stays.
Abort(r, label) ==
  /\ End(r, label)
  /\ UNCHANGED rows

\* What a request answers once its transaction is committed: the connection may break
\* before Postgres has said so.
Committed == IF Failures THEN {"ok", "error"} ELSE {"ok"}

PalaceInit ==
  /\ layer \in [Children -> Layers]
  /\ memory = [c \in Children |-> None]
  /\ parents = {}
  /\ orphaned = {}
  /\ used = {}
  /\ pc = [r \in Requests |-> "idle"]
  /\ txn = [r \in Requests |-> NoTxn]
  /\ gone = [r \in Requests |-> {}]
  /\ goneParents = [r \in Requests |-> {}]
  /\ seen = [r \in Requests |-> {}]

-----------------------------------------------------------------------------
(* CreateIdentity, CreateActivity, CreateContext, CreateExperience,          *)
(* CreatePreference                                                        *)

\* The id of the parent is generated.  But for a context the caller may supply it, and
\* may supply one that is, or was, the id of another memory.
BeginCreate(r, c, p) ==
  /\ pc[r] = "idle"
  /\ c \notin used
  /\ layer[c] = "contexts" => p \notin used
  /\ used' = used \cup {c, p}
  /\ txn' = [txn EXCEPT ![r] = [NoTxn EXCEPT !.op = "create", !.child = c, !.parent = p]]
  /\ Goto(r, "insertParent")
  /\ UNCHANGED <<rows, locks, seen>>

\* insertParent.  An id that exists already is an error.
InsertParent(r) ==
  /\ pc[r] = "insertParent" /\ Blockers(r) = {}
  /\ IF \E row \in parents : row[1] = txn[r].parent
     THEN Abort(r, "error")
     ELSE Goto(r, "insertChild") /\ UNCHANGED <<rows, txn, locks, seen>>
  /\ UNCHANGED used

\* The row of the layer's table.  Its parent is there, inserted by the transaction.
InsertChild(r) ==
  /\ pc[r] = "insertChild"
  /\ Goto(r, "commitCreate")
  /\ UNCHANGED <<rows, used, txn, locks, seen>>

CommitCreate(r) ==
  /\ pc[r] = "commitCreate"
  /\ LET t == txn[r]
     IN /\ memory' = [memory EXCEPT ![t.child] = t.parent]
        /\ parents' = parents \cup {<<t.parent, t.child>>}
  /\ \E answer \in Committed : End(r, answer)
  /\ UNCHANGED <<layer, orphaned, used>>

-----------------------------------------------------------------------------
(* deleteChild *)

\* The look-up of the parent's id.
Lookup(r, c) ==
  /\ pc[r] = "idle"
  /\ c \in used
  /\ IF c \in Rows
     THEN /\ txn' = [txn EXCEPT ![r] = [NoTxn EXCEPT !.op = "delete", !.child = c,
                                                     !.parent = memory[c]]]
          /\ Goto(r, "deleteChild")
     ELSE Goto(r, "notFound") /\ UNCHANGED txn
  /\ UNCHANGED <<rows, used, locks, seen>>

\* The child.  It is no error if another request has deleted it since.
DeleteChild(r) ==
  /\ pc[r] = "deleteChild" /\ Blockers(r) = {}
  /\ gone' = [gone EXCEPT ![r] = {txn[r].child} \cap Rows]
  /\ Goto(r, "count")
  /\ UNCHANGED <<rows, used, txn, goneParents, seen>>

\* Mutant: the row that has just been deleted is counted.
CountItself(r) ==
  /\ pc[r] = "count"
  /\ Goto(r, IF ChildrenOf(txn[r].parent) = {} THEN "findParents" ELSE "commitDelete")
  /\ UNCHANGED <<rows, used, txn, locks, seen>>

\* The count of the parent's children: the parent goes if none is left.
Count(r) ==
  /\ pc[r] = "count"
  /\ Goto(r, IF ChildrenOf(txn[r].parent) \subseteq gone[r] THEN "findParents"
                                                           ELSE "commitDelete")
  /\ UNCHANGED <<rows, used, txn, locks, seen>>

-----------------------------------------------------------------------------
(* UpdateIdentity and the four like it *)

\* An update is one statement, a transaction of its own.  One that sets no field is
\* answered without a statement, whether or not there is a row.
BeginUpdate(r, c) ==
  /\ pc[r] = "idle"
  /\ c \in used
  /\ \/ /\ txn' = [txn EXCEPT ![r] = [NoTxn EXCEPT !.op = "update", !.child = c]]
        /\ Goto(r, "update")
     \/ Goto(r, "ok") /\ UNCHANGED txn
  /\ UNCHANGED <<rows, used, locks, seen>>

\* Columns change that nothing here depends on; no row is not found.
Update(r) ==
  /\ pc[r] = "update" /\ Blockers(r) = {}
  /\ IF txn[r].child \in Rows
     THEN \E answer \in Committed : End(r, answer)
     ELSE End(r, "notFound")
  /\ UNCHANGED <<rows, used>>

-----------------------------------------------------------------------------
(* DeleteAll *)

BeginDeleteAll(r) ==
  /\ pc[r] = "idle"
  /\ txn' = [txn EXCEPT ![r] = [NoTxn EXCEPT !.op = "deleteAll", !.step = 1, !.start = Rows]]
  /\ Goto(r, "findRows")
  /\ UNCHANGED <<rows, used, locks, seen>>

\* A statement on the next table starts: it will delete the rows committed by now.
FindRows(r) ==
  /\ pc[r] = "findRows"
  /\ seen' = [seen EXCEPT ![r] = {c \in Rows : layer[c] = tables[txn[r].step]}]
  /\ Goto(r, "deleteRows")
  /\ UNCHANGED <<rows, used, txn, locks>>

\* Mutant: rows that another transaction has locked are skipped.
DeleteRowsSkipLocked(r) ==
  /\ pc[r] = "deleteRows"
  /\ gone' = [gone EXCEPT ![r] = @ \cup
                ((seen[r] \cap Rows) \ UNION {gone[q] : q \in Requests \ {r}})]
  /\ txn' = [txn EXCEPT ![r].step = @ + 1]
  /\ Goto(r, IF txn[r].step = Len(tables) THEN "findParents" ELSE "findRows")
  /\ UNCHANGED <<rows, used, goneParents, seen>>

\* It deletes those that are still there.
DeleteRows(r) ==
  /\ pc[r] = "deleteRows" /\ Blockers(r) = {}
  /\ gone' = [gone EXCEPT ![r] = @ \cup (seen[r] \cap Rows)]
  /\ txn' = [txn EXCEPT ![r].step = @ + 1]
  /\ Goto(r, IF txn[r].step = Len(tables) THEN "findParents" ELSE "findRows")
  /\ UNCHANGED <<rows, used, goneParents, seen>>

-----------------------------------------------------------------------------
(* The end of both: parents, foreign keys, commit *)

\* The DELETE on user_memories starts: it will delete the parents committed by now, of
\* all memories or those with the id that deleteChild looked up.
FindParents(r) ==
  /\ pc[r] = "findParents"
  /\ seen' = [seen EXCEPT ![r] = {row \in parents : txn[r].op = "deleteAll"
                                                    \/ row[1] = txn[r].parent}]
  /\ Goto(r, "deleteParents")
  /\ UNCHANGED <<rows, used, txn, locks>>

DeleteParents(r) ==
  /\ pc[r] = "deleteParents" /\ Blockers(r) = {}
  /\ goneParents' = [goneParents EXCEPT ![r] = seen[r] \cap parents]
  /\ Goto(r, "checkParents")
  /\ UNCHANGED <<rows, used, txn, gone, seen>>

\* The foreign keys are checked when the statement has deleted its rows, against all
\* that is committed by now.  A child that another transaction is deleting is waited for.
CheckParents(r) ==
  /\ pc[r] = "checkParents" /\ Blockers(r) = {}
  /\ IF \E row \in goneParents[r] : Referring(row[1]) \ gone[r] # {}
     THEN Abort(r, "error")
     ELSE /\ Goto(r, IF txn[r].op = "deleteAll" THEN "deletePersona" ELSE "commitDelete")
          /\ UNCHANGED <<rows, txn, locks, seen>>
  /\ UNCHANGED used

\* DeleteAll goes on to the two tables of the persona, whose rows are left out.
DeletePersona(r) ==
  /\ pc[r] = "deletePersona"
  /\ Goto(r, "commitDelete")
  /\ UNCHANGED <<rows, used, txn, locks, seen>>

CommitDelete(r) ==
  /\ pc[r] = "commitDelete"
  /\ memory' = [c \in Children |-> IF c \in gone[r] THEN None ELSE memory[c]]
  /\ parents' = parents \ goneParents[r]
  /\ orphaned' = orphaned \cup ({row[1] : row \in goneParents[r]}
                                 \cap {memory[c] : c \in Rows \ gone[r]})
  /\ \E answer \in Committed : End(r, answer)
  /\ UNCHANGED <<layer, used>>

-----------------------------------------------------------------------------
(* Postgres and the client *)

\* Requests that wait for each other.
Knot(S) == S # {} /\ \A q \in S : Blockers(q) \cap S # {}

\* Postgres aborts one of the transactions that wait for each other.
BreakDeadlock(r) ==
  /\ \E S \in SUBSET Requests :
       /\ r \in S /\ Knot(S)
       /\ \A T \in SUBSET S : Knot(T) => T = S
  /\ Abort(r, "error")
  /\ UNCHANGED used

\* A statement fails, the connection breaks or the server stops: the transaction has
\* no effect.
Fail(r) ==
  /\ Failures
  /\ pc[r] \notin Over \cup {"idle"}
  /\ Abort(r, "error")
  /\ UNCHANGED used

\* The request is answered; its connection serves another.
Answer(r) ==
  /\ pc[r] \in Over
  /\ Goto(r, "idle")
  /\ UNCHANGED <<rows, used, txn, locks, seen>>

-----------------------------------------------------------------------------
Statement(r) ==
  \/ InsertParent(r) \/ InsertChild(r) \/ CommitCreate(r)
  \/ DeleteChild(r) \/ Count(r) \/ Update(r)
  \/ FindRows(r) \/ DeleteRows(r) \/ FindParents(r)
  \/ DeleteParents(r) \/ CheckParents(r) \/ DeletePersona(r) \/ CommitDelete(r)

PalaceNext ==
  \E r \in Requests :
    \/ \E c \in Children, p \in Parents : BeginCreate(r, c, p)
    \/ \E c \in Children : Lookup(r, c) \/ BeginUpdate(r, c)
    \/ BeginDeleteAll(r)
    \/ Statement(r) \/ BreakDeadlock(r) \/ Fail(r) \/ Answer(r)

PalaceSafety == PalaceInit /\ [][PalaceNext]_palaceVars

\* Statements are executed, locks are granted in the order they were asked for (strong
\* fairness), and Postgres looks for deadlocks.  Nobody has to send a request.
PalaceFairness ==
  \A r \in Requests : SF_palaceVars(Statement(r)) /\ WF_palaceVars(BreakDeadlock(r))

PalaceSpec == PalaceSafety /\ PalaceFairness

-----------------------------------------------------------------------------
(* Properties *)

Labels == {"idle", "insertParent", "insertChild", "commitCreate", "deleteChild", "count",
           "update", "findRows", "deleteRows", "findParents", "deleteParents", "checkParents",
           "deletePersona", "commitDelete"} \cup Over

\* Every variable holds a value of its type, and a deletion under way knows its parent.
PalaceTypeOK ==
  /\ layer \in [Children -> Layers]
  /\ memory \in [Children -> Parents \cup {None}]
  /\ parents \subseteq ParentRows
  /\ orphaned \subseteq Parents
  /\ used \subseteq Children \cup Parents
  /\ pc \in [Requests -> Labels]
  /\ txn \in [Requests -> [op : {"none", "create", "update", "delete", "deleteAll"},
                           child : Children \cup {None}, parent : Parents \cup {None},
                           step : 0..Len(tables) + 1, start : SUBSET Children]]
  /\ gone \in [Requests -> SUBSET Children]
  /\ goneParents \in [Requests -> SUBSET ParentRows]
  /\ seen \in [Requests -> (SUBSET Children) \cup (SUBSET ParentRows)]
  /\ \A r \in Requests : pc[r] \in {"deleteChild", "count"} => txn[r].parent \in Parents

\* A row of a layer beside contexts always has its parent, which no other such row
\* shares.  A memory has both its rows and no third, whichever deletions of one memory
\* and of all interleave with creations, wherever one is aborted and whichever ids
\* callers supply again; with one exception: the parent was deleted while a row, which
\* can only be a context, still named it.  (DeleteAll passes the table of contexts and
\* then finds the parent of a context created since.)  If a caller supplies that id, a
\* context and another row share a parent, and of two deletions that pass each other
\* each may leave the parent to the other.
MemoriesWhole ==
  /\ \A c \in Rows : layer[c] # "contexts" =>
       Referring(memory[c]) = {c} /\ <<memory[c], c>> \in parents
  /\ \A c \in Rows : memory[c] \notin orphaned =>
       ChildrenOf(memory[c]) = {c} /\ <<memory[c], c>> \in parents
  /\ \A row \in parents : row[1] \notin orphaned => ChildrenOf(row[1]) # {}
  /\ \A a, b \in parents : a[1] = b[1] => a = b

\* A deletion answered with success is complete: the row it named is gone, and of all
\* rows none that was there when DeleteAll began.
OkMeansGone ==
  [][\A r \in Requests :
       pc[r] = "commitDelete" /\ pc'[r] = "ok" =>
         /\ txn[r].op = "delete" => memory'[txn[r].child] = None
         /\ \A c \in txn[r].start : memory'[c] = None]_palaceVars

\* Every request is answered, although transactions wait for each other's rows.
RequestsEnd == \A r \in Requests : pc[r] \notin Over \cup {"idle"} ~> pc[r] \in Over

=============================================================================
