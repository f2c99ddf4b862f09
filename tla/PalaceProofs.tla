---------------------------- MODULE PalaceProofs ----------------------------
(***************************************************************************)
(* The memory palace, for any rows, ids and number of requests: the types, *)
(* that no transaction leaves a memory in pieces, and that a deletion      *)
(* answered with success is complete.                                      *)
(***************************************************************************)
EXTENDS Palace, TLAPS

Creating(r) == pc[r] \in {"insertParent", "insertChild", "commitCreate"}
Inserted(r) == pc[r] \in {"insertChild", "commitCreate"}
Deleting(r) ==
  pc[r] \in {"count", "findRows", "deleteRows", "findParents", "deleteParents",
             "checkParents", "deletePersona", "commitDelete"}

\* Deletions that have deleted their parents.
Locked == {"checkParents", "deletePersona", "commitDelete"}

\* The row with this id was created, or never will be.
Settled(c) == c \in used /\ \A q \in Requests : Creating(q) => txn[q].child # c

-----------------------------------------------------------------------------
(* The inductive invariant *)

\* What is committed, but for orphaned ids: a parent has the child it was created with,
\* and a row the parent it was created with; by foreign key it always has.
RowsInv ==
  /\ \A row \in parents : row[1] \notin orphaned => memory[row[2]] = row[1]
  /\ \A c \in Rows : c \in used
  /\ \A c \in Rows : \/ <<memory[c], c>> \in parents
                     \/ layer[c] = "contexts" /\ memory[c] \in orphaned
  /\ \A a, b \in parents : a[1] = b[1] => a = b

\* A creation under way: its child is new, and once its parent is inserted there is no
\* other with the id.
Creator(r) ==
  Creating(r) =>
    /\ txn[r].child \in Children \cap used /\ txn[r].parent \in Parents
    /\ memory[txn[r].child] = None
    /\ Inserted(r) => \A row \in parents : row[1] # txn[r].parent

\* Two creations have different children, and one of them inserts an id they share.
Apart(q, r) ==
  Creating(q) /\ Creating(r) =>
    /\ txn[q].child # txn[r].child
    /\ txn[q].parent = txn[r].parent => ~(Inserted(q) /\ Inserted(r))

CreatorsInv ==
  /\ \A r \in Requests : Creator(r)
  /\ \A q, r \in Requests : q # r => Apart(q, r)

\* The parents of the rows a transaction has deleted, but for orphaned ids.
OwnParents(r) == {row \in parents : row[2] \in gone[r] /\ row[1] \notin orphaned}

\* What a transaction has deleted and not committed: with a child goes its parent, with
\* a parent every child that refers to it.
Holds(r) ==
  /\ ~Deleting(r) => gone[r] = {}
  /\ pc[r] \notin Locked => goneParents[r] = {}
  /\ goneParents[r] \subseteq parents
  /\ \A c \in gone[r] : Settled(c)
  /\ pc[r] = "deleteRows" => seen[r] \subseteq Children
  /\ pc[r] = "deleteParents" => seen[r] \subseteq ParentRows /\ OwnParents(r) \subseteq seen[r]
  /\ pc[r] \in Locked => OwnParents(r) \subseteq goneParents[r]
  /\ pc[r] \in Locked \ {"checkParents"} =>
       \A row \in goneParents[r] : Referring(row[1]) \subseteq gone[r]

LocksInv ==
  /\ \A r \in Requests : Holds(r)
  /\ \A q, r \in Requests : q # r => goneParents[q] \cap goneParents[r] = {}

\* The deletion of one row keeps to the row and to its parent.
DeletesOne(r) ==
  /\ txn[r].start = {} /\ txn[r].child \in Children /\ txn[r].parent \in Parents
  /\ Settled(txn[r].child)
  /\ memory[txn[r].child] \in {None, txn[r].parent}
  /\ gone[r] \subseteq {txn[r].child}
  /\ pc[r] # "deleteChild" /\ memory[txn[r].child] # None => txn[r].child \in gone[r]

\* The tables that DeleteAll is done with.
Emptied(r) == {tables[i] : i \in 1..txn[r].step - 1}

\* DeleteAll has found the rows it began with in each table it is done with.
DeletesAll(r) ==
  \A c \in txn[r].start :
    /\ Settled(c)
    /\ memory[c] # None =>
         /\ pc[r] \in {"findRows", "deleteRows"} /\ layer[c] \in Emptied(r) => c \in gone[r]
         /\ pc[r] = "deleteRows" /\ layer[c] = tables[txn[r].step] => c \in seen[r]
         /\ pc[r] \notin {"findRows", "deleteRows"} => c \in gone[r]

Target(r) ==
  /\ pc[r] \in {"deleteChild", "count"} => txn[r].op = "delete"
  /\ pc[r] \in {"findRows", "deleteRows"} => txn[r].op = "deleteAll"
  /\ pc[r] \in {"findRows", "deleteRows"} => txn[r].step \in 1..Len(tables)
  /\ pc[r] = "deleteChild" \/ Deleting(r) =>
       \/ txn[r].op = "delete" /\ DeletesOne(r)
       \/ txn[r].op = "deleteAll" /\ DeletesAll(r)

TargetsInv == \A r \in Requests : Target(r)

PalaceInv == PalaceTypeOK /\ RowsInv /\ CreatorsInv /\ LocksInv /\ TargetsInv

-----------------------------------------------------------------------------
(* Types *)

Transactions == [op : {"none", "create", "update", "delete", "deleteAll"},
                 child : Children \cup {None}, parent : Parents \cup {None},
                 step : 0..Len(tables) + 1, start : SUBSET Children]

LEMMA FiveTables == Len(tables) = 5
BY DEF tables

LEMMA PalaceInitType == PalaceInit => PalaceTypeOK
<1> SUFFICES ASSUME PalaceInit PROVE PalaceTypeOK  OBVIOUS
<1>1. NoTxn \in Transactions  BY FiveTables DEF NoTxn, Transactions
<1> QED BY <1>1 DEF PalaceInit, PalaceTypeOK, Transactions, ParentRows, Labels

\* Every step moves one request.
Moves(r) ==
  \A q \in Requests \ {r} :
    /\ pc'[q] = pc[q] /\ txn'[q] = txn[q] /\ seen'[q] = seen[q]
    /\ gone'[q] = gone[q] /\ goneParents'[q] = goneParents[q]

\* The start of a request.
LEMMA BeginType ==
  ASSUME PalaceTypeOK, NEW r \in Requests, NEW c,
         \/ BeginDeleteAll(r)
         \/ /\ c \in Children
            /\ Lookup(r, c) \/ BeginUpdate(r, c) \/ \E p \in Parents : BeginCreate(r, c, p)
  PROVE  PalaceTypeOK' /\ Moves(r)
<1>0. /\ pc \in [Requests -> Labels] /\ txn \in [Requests -> Transactions]
      /\ NoTxn \in Transactions /\ used \subseteq Children \cup Parents
      /\ memory \in [Children -> Parents \cup {None}]
  BY FiveTables DEF PalaceTypeOK, Transactions, NoTxn
<1>1. /\ UNCHANGED <<rows, gone, goneParents, seen>>
      /\ pc' \in [Requests -> Labels] /\ used' \subseteq Children \cup Parents
  BY <1>0 DEF BeginDeleteAll, Lookup, BeginUpdate, BeginCreate, locks, Goto, Labels, Over
<1>2. \/ txn' = txn /\ pc'[r] \in {"notFound", "ok"}
      \/ \E t \in Transactions : /\ txn' = [txn EXCEPT ![r] = t]
                                 /\ pc'[r] \in {"deleteChild", "count"} => t.parent \in Parents
  <2>1. CASE BeginDeleteAll(r)
    <3>1. [NoTxn EXCEPT !.op = "deleteAll", !.step = 1, !.start = Rows] \in Transactions
      <4>1. 1 \in 0..Len(tables) + 1 /\ Rows \subseteq Children  BY FiveTables DEF Rows
      <4> QED BY <4>1 DEF Transactions, NoTxn
    <3> QED BY <1>0, <2>1, <3>1 DEF BeginDeleteAll, Goto
  <2>2. CASE c \in Children /\ Lookup(r, c)
    <3>1. c \in Rows =>
            [NoTxn EXCEPT !.op = "delete", !.child = c, !.parent = memory[c]] \in Transactions
      BY <1>0 DEF Transactions, NoTxn, Rows
    <3>2. c \in Rows => memory[c] \in Parents  BY <1>0 DEF Rows
    <3> QED BY <1>0, <2>2, <3>1, <3>2 DEF Lookup, Goto, NoTxn
  <2>3. CASE c \in Children /\ BeginUpdate(r, c)
    <3>1. [NoTxn EXCEPT !.op = "update", !.child = c] \in Transactions
      BY <1>0, <2>3 DEF Transactions, NoTxn
    <3> QED BY <1>0, <2>3, <3>1 DEF BeginUpdate, Goto
  <2>4. ASSUME c \in Children, NEW p \in Parents, BeginCreate(r, c, p)
        PROVE  \E t \in Transactions : /\ txn' = [txn EXCEPT ![r] = t]
                                       /\ pc'[r] \in {"deleteChild", "count"} => t.parent \in Parents
    <3>1. [NoTxn EXCEPT !.op = "create", !.child = c, !.parent = p] \in Transactions
      BY <1>0, <2>4 DEF Transactions, NoTxn
    <3> QED BY <1>0, <2>4, <3>1 DEF BeginCreate, Goto
  <2> QED BY <2>1, <2>2, <2>3, <2>4
<1>3. \A q \in Requests \ {r} : pc'[q] = pc[q] /\ txn'[q] = txn[q]
  BY <1>0, <1>2 DEF BeginDeleteAll, Lookup, BeginUpdate, BeginCreate, Goto
<1>4. txn' \in [Requests -> Transactions]  BY <1>0, <1>2
<1>5. \A q \in Requests : pc'[q] \in {"deleteChild", "count"} => txn'[q].parent \in Parents
  BY <1>0, <1>2, <1>3 DEF PalaceTypeOK
<1>6. PalaceTypeOK'
  BY <1>1, <1>4, <1>5 DEF PalaceTypeOK, Transactions, rows
<1> QED BY <1>1, <1>3, <1>6 DEF Moves

\* The end of a request's work: rolled back, answered or forgotten.
Ends(r) ==
  /\ Moves(r) /\ UNCHANGED <<rows, used>>
  /\ txn'[r] \in {txn[r], NoTxn}
  /\ pc'[r] \in Over \cup {"idle"} /\ gone'[r] = {} /\ goneParents'[r] = {}

LEMMA EndType ==
  ASSUME PalaceTypeOK, LocksInv, NEW r \in Requests,
         \/ InsertParent(r) /\ ~(pc'[r] = "insertChild")
         \/ CheckParents(r) /\ pc'[r] \notin Locked
         \/ Update(r) \/ BreakDeadlock(r) \/ Fail(r) \/ Answer(r)
  PROVE  PalaceTypeOK' /\ Ends(r)
<1>0. /\ pc \in [Requests -> Labels] /\ txn \in [Requests -> Transactions]
      /\ NoTxn \in Transactions
      /\ gone \in [Requests -> SUBSET Children]
      /\ goneParents \in [Requests -> SUBSET ParentRows]
      /\ seen \in [Requests -> (SUBSET Children) \cup (SUBSET ParentRows)]
  BY FiveTables DEF PalaceTypeOK, Transactions, NoTxn
<1>1. CASE Answer(r)
  <2>1. /\ UNCHANGED <<rows, txn, gone, goneParents, seen, used>>
        /\ pc' = [pc EXCEPT ![r] = "idle"]
        /\ gone[r] = {} /\ goneParents[r] = {}
    BY <1>1 DEF Answer, Goto, locks, LocksInv, Holds, Deleting, Locked, Over
  <2>2. \A q \in Requests : pc'[q] \in {"deleteChild", "count"} => txn'[q].parent \in Parents
    BY <1>0, <2>1 DEF PalaceTypeOK
  <2>3. pc' \in [Requests -> Labels]
    BY <1>0, <2>1 DEF Labels
  <2> QED BY <1>0, <2>1, <2>2, <2>3 DEF PalaceTypeOK, Transactions, rows, Ends, Moves, Over
<1>2. CASE ~Answer(r)
  <2>1. PICK label \in Over : End(r, label) /\ UNCHANGED <<rows, used>>
    BY <1>0, <1>2
    DEF InsertParent, CheckParents, Update, BreakDeadlock, Fail, Abort, Over, Committed, Goto,
        Locked
  <2>2. \A q \in Requests : pc'[q] \in {"deleteChild", "count"} => txn'[q].parent \in Parents
    BY <1>0, <2>1 DEF PalaceTypeOK, End, Goto, Over
  <2>3. /\ pc' \in [Requests -> Labels] /\ gone' \in [Requests -> SUBSET Children]
        /\ txn' \in [Requests -> Transactions]
        /\ goneParents' \in [Requests -> SUBSET ParentRows]
        /\ seen' \in [Requests -> (SUBSET Children) \cup (SUBSET ParentRows)]
    BY <1>0, <2>1 DEF End, Goto, Labels, Over
  <2>4. Ends(r)
    BY <1>0, <2>1 DEF Ends, Moves, End, Goto
  <2> QED BY <1>0, <2>1, <2>2, <2>3, <2>4 DEF PalaceTypeOK, Transactions, rows
<1> QED BY <1>1, <1>2

\* The other statements.
LEMMA StatementType ==
  ASSUME PalaceTypeOK, LocksInv, TargetsInv, NEW r \in Requests,
         \/ InsertParent(r) /\ pc'[r] = "insertChild"
         \/ CheckParents(r) /\ pc'[r] \in Locked
         \/ InsertChild(r) \/ DeleteChild(r) \/ Count(r) \/ FindRows(r) \/ DeleteRows(r)
         \/ FindParents(r) \/ DeleteParents(r) \/ DeletePersona(r)
  PROVE  PalaceTypeOK' /\ Moves(r) /\ UNCHANGED <<rows, used>>
<1>0. /\ pc \in [Requests -> Labels] /\ txn \in [Requests -> Transactions]
      /\ gone \in [Requests -> SUBSET Children] /\ parents \subseteq ParentRows
      /\ goneParents \in [Requests -> SUBSET ParentRows]
      /\ seen \in [Requests -> (SUBSET Children) \cup (SUBSET ParentRows)]
      /\ Rows \subseteq Children
  BY DEF PalaceTypeOK, Transactions, Rows
<1>1. /\ InsertParent(r) => Goto(r, "insertChild") /\ UNCHANGED <<rows, locks, seen, used, txn>>
      /\ CheckParents(r) => /\ Goto(r, "deletePersona") \/ Goto(r, "commitDelete")
                            /\ UNCHANGED <<rows, locks, seen, used, txn>>
  <2>1. ASSUME InsertParent(r) PROVE Goto(r, "insertChild") /\ UNCHANGED <<rows, locks, seen, used, txn>>
    <3>1. pc'[r] = "insertChild"
      BY <2>1 DEF InsertParent, CheckParents, InsertChild, DeleteChild, Count, FindRows,
         DeleteRows, FindParents, DeleteParents, DeletePersona
    <3>2. ~Abort(r, "error")  BY <1>0, <3>1 DEF Abort, End, Goto
    <3> QED BY <2>1, <3>2 DEF InsertParent
  <2>2. ASSUME CheckParents(r)
        PROVE  /\ Goto(r, "deletePersona") \/ Goto(r, "commitDelete")
               /\ UNCHANGED <<rows, locks, seen, used, txn>>
    <3>1. pc'[r] \in Locked
      BY <2>2 DEF InsertParent, CheckParents, InsertChild, DeleteChild, Count, FindRows,
         DeleteRows, FindParents, DeleteParents, DeletePersona
    <3>2. ~Abort(r, "error")  BY <1>0, <3>1 DEF Abort, End, Goto, Locked
    <3> QED BY <2>2, <3>2 DEF CheckParents
  <2> QED BY <2>1, <2>2
<1>2. PICK label \in Labels \ {"deleteChild"} :
        pc' = [pc EXCEPT ![r] = label] /\ (label = "count" => pc[r] = "deleteChild")
  BY <1>1 DEF InsertChild, DeleteChild, Count, FindRows, DeleteRows,
         FindParents, DeleteParents, DeletePersona, Goto, Labels, Over
<1>3. UNCHANGED <<rows, used>>
  BY <1>1 DEF InsertChild, DeleteChild, Count, FindRows, DeleteRows,
         FindParents, DeleteParents, DeletePersona, rows
<1>4. \E f \in (SUBSET Children) \cup (SUBSET ParentRows) : seen' = [seen EXCEPT ![r] = f]
  <2>1. seen' = seen => seen' = [seen EXCEPT ![r] = seen[r]]  BY <1>0
  <2>2. CASE seen' = seen  BY <1>0, <2>1, <2>2
  <2>4. CASE FindRows(r)
    <3> DEFINE f == {c \in Rows : layer[c] = tables[txn[r].step]}
    <3>1. f \in SUBSET Children  BY <1>0
    <3>2. seen' = [seen EXCEPT ![r] = f]  BY <2>4 DEF FindRows
    <3> HIDE DEF f
    <3> QED BY <3>1, <3>2
  <2>5. CASE FindParents(r)
    <3> DEFINE f == {row \in parents : txn[r].op = "deleteAll" \/ row[1] = txn[r].parent}
    <3>1. f \in SUBSET ParentRows  BY <1>0
    <3>2. seen' = [seen EXCEPT ![r] = f]  BY <2>5 DEF FindParents
    <3> HIDE DEF f
    <3> QED BY <3>1, <3>2
  <2> QED BY <1>1, <2>2, <2>4, <2>5
          DEF InsertChild, DeleteChild, Count, DeleteRows, DeleteParents, DeletePersona
<1>5. \E f \in SUBSET Children : gone' = [gone EXCEPT ![r] = f]
  <2>1. gone' = gone => gone' = [gone EXCEPT ![r] = gone[r]]  BY <1>0
  <2>2. DeleteChild(r) => gone' = [gone EXCEPT ![r] = {txn[r].child} \cap Rows]
    BY DEF DeleteChild
  <2>3. DeleteRows(r) => gone' = [gone EXCEPT ![r] = gone[r] \cup (seen[r] \cap Rows)]
    BY <1>0 DEF DeleteRows
  <2>4. ~DeleteChild(r) /\ ~DeleteRows(r) => gone' = gone
    BY <1>1 DEF InsertChild, Count, FindRows, FindParents, DeleteParents, DeletePersona, locks
  <2> QED BY <1>0, <2>1, <2>2, <2>3, <2>4
<1>6. \E f \in SUBSET ParentRows : goneParents' = [goneParents EXCEPT ![r] = f]
  <2>1. goneParents' = goneParents => goneParents' = [goneParents EXCEPT ![r] = goneParents[r]]
    BY <1>0
  <2>2. DeleteParents(r) => goneParents' = [goneParents EXCEPT ![r] = seen[r] \cap parents]
    BY DEF DeleteParents
  <2>3. ~DeleteParents(r) => goneParents' = goneParents
    BY <1>1 DEF InsertChild, DeleteChild, DeleteRows, Count, FindRows, FindParents,
       DeletePersona, locks
  <2> QED BY <1>0, <2>1, <2>2, <2>3
<1>7. \/ txn' = txn
      \/ /\ txn' = [txn EXCEPT ![r].step = @ + 1] /\ txn[r].step \in 1..Len(tables)
         /\ pc[r] # "deleteChild"
  BY <1>1 DEF InsertChild, DeleteChild, DeleteRows, Count, FindRows, FindParents, DeleteParents,
     DeletePersona, TargetsInv, Target
<1>8. /\ txn' \in [Requests -> Transactions]
      /\ \A q \in Requests : txn'[q].parent = txn[q].parent
  <2>1. CASE txn' = txn  BY <1>0, <2>1
  <2>2. CASE txn' = [txn EXCEPT ![r].step = @ + 1] /\ txn[r].step \in 1..Len(tables)
    <3>1. txn[r].step + 1 \in 0..Len(tables) + 1  BY <2>2, FiveTables
    <3>2. [txn[r] EXCEPT !.step = @ + 1] \in Transactions  BY <1>0, <3>1 DEF Transactions
    <3>3. txn' = [txn EXCEPT ![r] = [txn[r] EXCEPT !.step = @ + 1]]  BY <2>2
    <3>4. txn'[r].parent = txn[r].parent  BY <1>0, <3>3 DEF Transactions
    <3> QED BY <1>0, <3>2, <3>3, <3>4
  <2> QED BY <1>7, <2>1, <2>2
<1>9. \A q \in Requests : pc'[q] \in {"deleteChild", "count"} => txn'[q].parent \in Parents
  BY <1>0, <1>2, <1>8 DEF PalaceTypeOK
<1>10. /\ pc' \in [Requests -> Labels] /\ gone' \in [Requests -> SUBSET Children]
       /\ goneParents' \in [Requests -> SUBSET ParentRows]
       /\ seen' \in [Requests -> (SUBSET Children) \cup (SUBSET ParentRows)]
  BY <1>0, <1>2, <1>4, <1>5, <1>6
<1>11. Moves(r)
  BY <1>0, <1>2, <1>4, <1>5, <1>6, <1>7 DEF Moves
<1> QED BY <1>3, <1>8, <1>9, <1>10, <1>11 DEF PalaceTypeOK, Transactions, rows

\* The two commits.
LEMMA CommitType ==
  ASSUME PalaceTypeOK, CreatorsInv, NEW r \in Requests, CommitCreate(r) \/ CommitDelete(r)
  PROVE  /\ PalaceTypeOK' /\ Moves(r) /\ UNCHANGED <<layer, used>>
         /\ pc'[r] \in Over /\ gone'[r] = {} /\ goneParents'[r] = {}
<1>0. /\ pc \in [Requests -> Labels] /\ txn \in [Requests -> Transactions]
      /\ gone \in [Requests -> SUBSET Children] /\ parents \subseteq ParentRows
      /\ goneParents \in [Requests -> SUBSET ParentRows]
      /\ seen \in [Requests -> (SUBSET Children) \cup (SUBSET ParentRows)]
      /\ memory \in [Children -> Parents \cup {None}] /\ NoTxn \in Transactions
  BY FiveTables DEF PalaceTypeOK, Transactions, NoTxn
<1>1. PICK label \in Over : End(r, label) /\ UNCHANGED <<layer, used>>
  BY DEF CommitCreate, CommitDelete, Over, Committed
<1>2. /\ memory' \in [Children -> Parents \cup {None}] /\ parents' \subseteq ParentRows
      /\ orphaned' \subseteq Parents
  <2>1. CASE CommitCreate(r)
    <3>1. txn[r].child \in Children /\ txn[r].parent \in Parents
      BY <2>1 DEF CommitCreate, CreatorsInv, Creator, Creating
    <3> QED BY <1>0, <2>1, <3>1 DEF CommitCreate, ParentRows, PalaceTypeOK
  <2>2. CASE CommitDelete(r)
    <3>1. \A row \in goneParents[r] : row[1] \in Parents  BY <1>0 DEF ParentRows
    <3> QED BY <1>0, <2>2, <3>1 DEF CommitDelete, PalaceTypeOK
  <2> QED BY <2>1, <2>2
<1>3. \A q \in Requests : pc'[q] \in {"deleteChild", "count"} => txn'[q].parent \in Parents
  BY <1>0, <1>1 DEF PalaceTypeOK, End, Goto, Over
<1>4. /\ pc' \in [Requests -> Labels] /\ gone' \in [Requests -> SUBSET Children]
      /\ txn' \in [Requests -> Transactions]
      /\ goneParents' \in [Requests -> SUBSET ParentRows]
      /\ seen' \in [Requests -> (SUBSET Children) \cup (SUBSET ParentRows)]
  BY <1>0, <1>1 DEF End, Goto, Labels, Over
<1>5. Moves(r) /\ pc'[r] \in Over /\ gone'[r] = {} /\ goneParents'[r] = {}
  BY <1>0, <1>1 DEF Moves, End, Goto
<1> QED BY <1>0, <1>1, <1>2, <1>3, <1>4, <1>5 DEF PalaceTypeOK, Transactions

-----------------------------------------------------------------------------
(* Steps that commit nothing *)

Others == RowsInv /\ CreatorsInv /\ LocksInv /\ TargetsInv

\* No row that was settled becomes a new one.
SettledStays == \A c \in Children : Settled(c) => Settled(c)'

LEMMA SettledKeeps ==
  ASSUME NEW r \in Requests, Moves(r), used \subseteq used',
         Creating(r)' => (Creating(r) /\ txn'[r].child = txn[r].child) \/ txn'[r].child \notin used
  PROVE  SettledStays
<1> SUFFICES ASSUME NEW c \in Children, Settled(c), NEW q \in Requests, Creating(q)'
             PROVE  txn'[q].child # c
  BY DEF SettledStays, Settled
<1>1. CASE q = r  BY <1>1 DEF Settled
<1>2. CASE q # r  BY <1>2 DEF Settled, Moves, Creating
<1> QED BY <1>1, <1>2

\* A step of r that commits nothing keeps the invariant if what it says of r holds.
LEMMA StepKeeps ==
  ASSUME PalaceTypeOK, Others, NEW r \in Requests, Moves(r), UNCHANGED rows, used \subseteq used',
         SettledStays,
         Creator(r)', Holds(r)', Target(r)',
         \A q \in Requests \ {r} :
           Apart(q, r)' /\ goneParents'[q] \cap goneParents'[r] = {}
  PROVE  Others'
<1>1. RowsInv'
  BY DEF Others, RowsInv, rows, Rows
<1>2. CreatorsInv'
  <2>1. ASSUME NEW q \in Requests PROVE Creator(q)'
    BY DEF Others, CreatorsInv, Creator, Creating, Inserted, Moves, rows
  <2>2. ASSUME NEW q \in Requests, NEW p \in Requests, q # p PROVE Apart(q, p)'
    <3>1. CASE p = r  BY <2>2, <3>1
    <3>2. CASE q = r
      <4>1. Apart(p, q)'  BY <2>2, <3>2
      <4> QED BY <4>1 DEF Apart
    <3>3. CASE p # r /\ q # r
      BY <2>2, <3>3 DEF Others, CreatorsInv, Apart, Creating, Inserted, Moves
    <3> QED BY <3>1, <3>2, <3>3
  <2> QED BY <2>1, <2>2 DEF CreatorsInv
<1>3. LocksInv'
  <2>1. ASSUME NEW q \in Requests PROVE Holds(q)'
    <3>1. CASE q = r  BY <3>1
    <3>2. CASE q # r
      <4>1. /\ pc'[q] = pc[q] /\ seen'[q] = seen[q] /\ gone'[q] = gone[q]
            /\ goneParents'[q] = goneParents[q]
        BY <3>2 DEF Moves
      <4>2. Holds(q) /\ gone[q] \subseteq Children  BY DEF Others, LocksInv, PalaceTypeOK
      <4>3. \A c \in gone[q] : Settled(c)'  BY <4>2 DEF Holds, SettledStays
      <4>4. OwnParents(q)' = OwnParents(q)  BY <4>1 DEF OwnParents, rows
      <4>5. \A p : Referring(p)' = Referring(p)  BY DEF Referring, Rows, rows
      <4>6. parents' = parents /\ (Deleting(q)' <=> Deleting(q))  BY <4>1 DEF rows, Deleting
      <4> QED BY <4>1, <4>2, <4>3, <4>4, <4>5, <4>6 DEF Holds
    <3> QED BY <3>1, <3>2
  <2>2. ASSUME NEW q \in Requests, NEW p \in Requests, q # p
        PROVE  goneParents'[q] \cap goneParents'[p] = {}
    <3>1. CASE p = r \/ q = r  BY <2>2, <3>1
    <3>2. CASE p # r /\ q # r
      BY <2>2, <3>2 DEF Others, LocksInv, Moves
    <3> QED BY <3>1, <3>2
  <2> QED BY <2>1, <2>2 DEF LocksInv
<1>4. TargetsInv'
  <2> SUFFICES ASSUME NEW q \in Requests PROVE Target(q)'  BY DEF TargetsInv
  <2>1. CASE q = r  BY <2>1
  <2>2. CASE q # r
    <3>1. pc'[q] = pc[q] /\ seen'[q] = seen[q] /\ gone'[q] = gone[q] /\ txn'[q] = txn[q]
      BY <2>2 DEF Moves
    <3>2. Target(q) /\ txn[q].start \subseteq Children
      BY DEF Others, TargetsInv, PalaceTypeOK
    <3>3. DeletesOne(q) => DeletesOne(q)'
      BY <3>1 DEF DeletesOne, SettledStays, rows
    <3>4. DeletesAll(q) => DeletesAll(q)'
      BY <3>1, <3>2 DEF DeletesAll, Emptied, SettledStays, rows
    <3> QED BY <3>1, <3>2, <3>3, <3>4 DEF Target, Deleting
  <2> QED BY <2>1, <2>2
<1> QED BY <1>1, <1>2, <1>3, <1>4 DEF Others

LEMMA EndKeeps ==
  ASSUME PalaceTypeOK, Others, NEW r \in Requests, Ends(r)
  PROVE  Others'
<1>1. Moves(r) /\ UNCHANGED rows /\ used \subseteq used' /\ pc'[r] \in Over \cup {"idle"}
  BY DEF Ends
<1>2. ~Creating(r)' /\ ~Inserted(r)' /\ ~Deleting(r)' /\ pc'[r] # "deleteChild"
  BY <1>1 DEF Creating, Inserted, Deleting, Over
<1>3. SettledStays  BY <1>1, <1>2, SettledKeeps
<1>4. Holds(r)'
  BY <1>1, <1>2 DEF Holds, Ends, OwnParents, Deleting
<1>5. Target(r)'  BY <1>1, <1>2 DEF Target, Deleting
<1>6. Creator(r)' /\ \A q \in Requests \ {r} : Apart(q, r)'
  BY <1>2 DEF Creator, Apart
<1> QED BY <1>1, <1>3, <1>4, <1>5, <1>6, StepKeeps DEF Ends

LEMMA BeginKeeps ==
  ASSUME PalaceTypeOK, PalaceTypeOK', Others, NEW r \in Requests, Moves(r), NEW c,
         BeginDeleteAll(r) \/ (c \in Children /\ (Lookup(r, c) \/ BeginUpdate(r, c)))
  PROVE  Others'
<1>1. /\ UNCHANGED <<rows, used, gone, goneParents, seen>>
      /\ pc[r] = "idle" /\ gone[r] = {} /\ goneParents[r] = {}
  BY DEF BeginDeleteAll, Lookup, BeginUpdate, locks, Others, LocksInv, Holds, Deleting, Locked
<1>2. pc'[r] \in {"ok", "notFound", "deleteChild", "update", "findRows"}
  BY DEF BeginDeleteAll, Lookup, BeginUpdate, Goto, PalaceTypeOK
<1>3. ~Creating(r)' /\ ~Inserted(r)'  BY <1>2 DEF Creating, Inserted
<1>4. SettledStays  BY <1>1, <1>3, SettledKeeps
<1>5. \A d \in Rows : Settled(d)
  BY DEF Settled, Rows, Others, RowsInv, CreatorsInv, Creator
<1>6. Creator(r)' /\ \A q \in Requests \ {r} : Apart(q, r)'
  BY <1>3 DEF Creator, Apart
<1>7. Holds(r)'
  BY <1>1, <1>2 DEF Holds, OwnParents
<1>8. Target(r)'
  <2>1. CASE BeginDeleteAll(r)
    <3>1. /\ pc'[r] = "findRows" /\ txn'[r].op = "deleteAll" /\ txn'[r].step = 1
          /\ txn'[r].start = Rows
      BY <2>1 DEF BeginDeleteAll, Goto, PalaceTypeOK, NoTxn
    <3>2. Emptied(r)' = {}  BY <3>1 DEF Emptied
    <3>3. \A d \in Rows : d \in Children /\ Settled(d)'
      BY <1>5, <1>4 DEF SettledStays, Rows
    <3>4. DeletesAll(r)'
      BY <3>1, <3>2, <3>3 DEF DeletesAll
    <3> QED BY <3>1, <3>4, FiveTables DEF Target
  <2>2. CASE c \in Children /\ Lookup(r, c)
    <3>1. CASE pc'[r] = "notFound"  BY <3>1 DEF Target, Deleting
    <3>2. CASE pc'[r] # "notFound"
      <4>1. /\ c \in Rows /\ pc'[r] = "deleteChild" /\ txn'[r].op = "delete"
            /\ txn'[r].start = {} /\ txn'[r].child = c /\ txn'[r].parent = memory[c]
        <5>1. ~Goto(r, "notFound")  BY <3>2 DEF Goto, PalaceTypeOK
        <5>2. /\ c \in Rows /\ Goto(r, "deleteChild")
              /\ txn' = [txn EXCEPT ![r] = [NoTxn EXCEPT !.op = "delete", !.child = c,
                                                        !.parent = memory[c]]]
          BY <2>2, <5>1 DEF Lookup
        <5> QED BY <5>2 DEF Goto, PalaceTypeOK, NoTxn
      <4>2. memory' = memory /\ Settled(c)' /\ memory[c] \in Parents
        BY <1>1, <1>4, <1>5, <4>1 DEF rows, SettledStays, Rows, PalaceTypeOK
      <4>3. DeletesOne(r)'
        BY <1>1, <2>2, <4>1, <4>2 DEF DeletesOne
      <4> QED BY <4>1, <4>3 DEF Target
    <3> QED BY <3>1, <3>2
  <2>3. CASE c \in Children /\ BeginUpdate(r, c)
    <3>1. pc'[r] \in {"ok", "update"}  BY <2>3 DEF BeginUpdate, Goto, PalaceTypeOK
    <3> QED BY <3>1 DEF Target, Deleting
  <2> QED BY <2>1, <2>2, <2>3
<1> QED BY <1>1, <1>4, <1>6, <1>7, <1>8, StepKeeps DEF Others, LocksInv, Moves

\* A creation begins with new ids.
LEMMA BeginCreateKeeps ==
  ASSUME PalaceTypeOK, Others, NEW r \in Requests, Moves(r), NEW c \in Children, NEW p \in Parents,
         BeginCreate(r, c, p)
  PROVE  Others'
<1>1. /\ UNCHANGED <<rows, gone, goneParents, seen>> /\ used' = used \cup {c, p}
      /\ pc[r] = "idle" /\ gone[r] = {} /\ goneParents[r] = {} /\ c \notin used
  BY DEF BeginCreate, locks, Others, LocksInv, Holds, Deleting, Locked
<1>2. pc'[r] = "insertParent" /\ txn'[r].child = c /\ txn'[r].parent = p
  BY DEF BeginCreate, Goto, PalaceTypeOK, NoTxn
<1>3. SettledStays
  BY <1>1, <1>2, SettledKeeps
<1>4. Creator(r)'
  <2>1. memory[c] = None  BY <1>1 DEF Others, RowsInv, Rows
  <2> QED BY <1>1, <1>2, <2>1 DEF Creator, Inserted, rows
<1>5. \A q \in Requests \ {r} : Apart(q, r)'
  <2> SUFFICES ASSUME NEW q \in Requests \ {r}, Creating(q) PROVE txn[q].child # c
    BY <1>2 DEF Apart, Moves, Creating, Inserted
  <2>1. txn[q].child \in used  BY DEF Others, CreatorsInv, Creator
  <2> QED BY <1>1, <2>1
<1>6. Holds(r)'  BY <1>1, <1>2 DEF Holds, OwnParents
<1>7. Target(r)'  BY <1>2 DEF Target, Deleting
<1> QED BY <1>1, <1>3, <1>4, <1>5, <1>6, <1>7, StepKeeps DEF Others, LocksInv, Moves

\* The two inserts.
LEMMA InsertKeeps ==
  ASSUME PalaceTypeOK, Others, NEW r \in Requests, Moves(r), UNCHANGED <<rows, used>>,
         (InsertParent(r) /\ pc'[r] = "insertChild") \/ InsertChild(r)
  PROVE  Others'
<1>1. /\ UNCHANGED <<gone, goneParents, txn>> /\ gone[r] = {} /\ goneParents[r] = {}
      /\ Creating(r)
  BY DEF InsertParent, InsertChild, Abort, End, Goto, locks, Others, LocksInv, Holds, Deleting, Locked,
     Creating, PalaceTypeOK
<1>2. pc'[r] \in {"insertChild", "commitCreate"} /\ Creating(r)'
  BY DEF InsertChild, Goto, PalaceTypeOK, Creating
<1>3. /\ \A row \in parents : row[1] # txn[r].parent
      /\ \A q \in Requests \ {r} : Inserted(q) => txn[q].parent # txn[r].parent
  <2>1. CASE InsertParent(r) /\ pc'[r] = "insertChild"
    <3>1. pc[r] = "insertParent" /\ Blockers(r) = {}
      BY <2>1 DEF InsertParent
    <3>2. Inserters(txn[r].parent) \subseteq {r}
      BY <3>1 DEF Blockers
    <3>3. ~Abort(r, "error")  BY <2>1 DEF Abort, End, Goto, PalaceTypeOK
    <3> QED BY <2>1, <3>2, <3>3 DEF InsertParent, Inserters, Inserted
  <2>2. CASE InsertChild(r)
    <3>1. Inserted(r)  BY <2>2 DEF InsertChild, Inserted
    <3> QED BY <1>1, <3>1 DEF Others, CreatorsInv, Creator, Apart, Creating, Inserted
  <2> QED BY <2>1, <2>2
<1>4. SettledStays
  BY <1>1, SettledKeeps
<1>5. Creator(r)'
  BY <1>1, <1>3 DEF Others, CreatorsInv, Creator, rows
<1>6. \A q \in Requests \ {r} : Apart(q, r)'
  BY <1>1, <1>3 DEF Others, CreatorsInv, Apart, Moves, Creating, Inserted
<1>7. Holds(r)'  BY <1>1, <1>2 DEF Holds, OwnParents
<1>8. Target(r)'  BY <1>2 DEF Target, Deleting
<1> QED BY <1>1, <1>4, <1>5, <1>6, <1>7, <1>8, StepKeeps DEF Others, LocksInv, Moves

\* The statements of a deletion: what they leave alone.
LEMMA DeletionFrame ==
  ASSUME PalaceTypeOK, Others, NEW r \in Requests, Moves(r), UNCHANGED <<rows, used>>,
         ~Creating(r)', Holds(r)', Target(r)',
         \A q \in Requests \ {r} : goneParents[q] \cap goneParents'[r] = {}
  PROVE  Others'
<1>1. SettledStays  BY SettledKeeps
<1>2. Creator(r)' /\ \A q \in Requests \ {r} : Apart(q, r)'
  BY DEF Creator, Apart
<1> QED BY <1>1, <1>2, StepKeeps DEF Moves

\* A row that is there is settled.
LEMMA RowsSettled ==
  ASSUME Others, NEW c \in Rows
  PROVE  Settled(c)
BY DEF Settled, Others, RowsInv, CreatorsInv, Creator, Rows

LEMMA DeleteChildKeeps ==
  ASSUME PalaceTypeOK, Others, NEW r \in Requests, Moves(r), UNCHANGED <<rows, used>>, DeleteChild(r)
  PROVE  Others'
<1> DEFINE c == txn[r].child
<1>1. /\ pc[r] = "deleteChild" /\ pc'[r] = "count" /\ gone'[r] = {c} \cap Rows
      /\ UNCHANGED <<txn, goneParents, seen, memory, parents, layer>>
      /\ goneParents[r] = {}
  BY DEF DeleteChild, Goto, PalaceTypeOK, Others, LocksInv, Holds, rows, Locked
<1>2. txn[r].op = "delete" /\ DeletesOne(r)
  BY <1>1 DEF Others, TargetsInv, Target
<1>3. SettledStays
  BY <1>1, SettledKeeps DEF Creating
<1>4. Holds(r)'
  BY <1>1, <1>2, <1>3 DEF Holds, OwnParents, DeletesOne, SettledStays, Deleting, Locked
<1>5. Target(r)'
  BY <1>1, <1>2, <1>3 DEF Target, DeletesOne, SettledStays, Rows
<1> QED BY <1>1, <1>4, <1>5, DeletionFrame DEF Creating

\* The deletion of one row has no parent in hand but the one it looked up.
LEMMA OwnParentIs ==
  ASSUME PalaceTypeOK, Others, NEW r \in Requests, DeletesOne(r), NEW row \in OwnParents(r)
  PROVE  row \in parents /\ row[1] = txn[r].parent /\ row[1] \notin orphaned
<1>1. /\ row \in parents /\ row[2] \in gone[r] /\ row[1] \in Parents /\ row[1] \notin orphaned
  BY DEF OwnParents, PalaceTypeOK, ParentRows
<1>2. row[2] = txn[r].child /\ memory[txn[r].child] = row[1]
  BY <1>1 DEF DeletesOne, Others, RowsInv
<1>3. row[1] # None  BY <1>1, ConstantsAssumption
<1> QED BY <1>1, <1>2, <1>3 DEF DeletesOne

LEMMA CountKeeps ==
  ASSUME PalaceTypeOK, Others, NEW r \in Requests, Moves(r), UNCHANGED <<rows, used>>, Count(r)
  PROVE  Others'
<1> DEFINE p == txn[r].parent
<1>1. /\ pc[r] = "count" /\ UNCHANGED <<txn, gone, goneParents, memory, parents, layer, orphaned>>
      /\ goneParents[r] = {} /\ Holds(r)
  BY DEF Count, Others, LocksInv, Holds, rows, locks, Locked
<1>2. txn[r].op = "delete" /\ DeletesOne(r)
  BY <1>1 DEF Others, TargetsInv, Target, Deleting
<1>3. SettledStays
  BY <1>1, SettledKeeps DEF Count, Goto, Creating, PalaceTypeOK
<1>4. pc'[r] = "findParents" \/ (pc'[r] = "commitDelete" /\ OwnParents(r) = {})
  <2>1. CASE ChildrenOf(p) \subseteq gone[r]
    BY <2>1 DEF Count, Goto, PalaceTypeOK
  <2>2. CASE ~(ChildrenOf(p) \subseteq gone[r])
    <3>1. PICK d \in Rows : memory[d] = p /\ d \notin gone[r]
      BY <2>2 DEF ChildrenOf
    <3>2. ASSUME NEW row \in OwnParents(r) PROVE FALSE
      <4>1. row \in parents /\ row[1] = p /\ p \notin orphaned /\ row[2] \in gone[r]
        BY <1>2, OwnParentIs DEF OwnParents
      <4>2. <<p, d>> \in parents  BY <3>1, <4>1 DEF Others, RowsInv
      <4>3. row = <<p, d>>  BY <4>1, <4>2 DEF Others, RowsInv
      <4> QED BY <3>1, <4>1, <4>3
    <3>3. pc'[r] = "commitDelete"
      BY <2>2 DEF Count, Goto, PalaceTypeOK
    <3> QED BY <3>2, <3>3
  <2> QED BY <2>1, <2>2
<1>5. Holds(r)'
  <2>1. OwnParents(r)' = OwnParents(r)  BY <1>1 DEF OwnParents
  <2>2. \A d \in gone[r] : Settled(d)'
    BY <1>1, <1>3 DEF Holds, SettledStays, PalaceTypeOK
  <2> QED BY <1>1, <1>4, <2>1, <2>2 DEF Holds, Deleting, Locked
<1>6. Target(r)'
  <2>1. DeletesOne(r)'
    BY <1>1, <1>2, <1>3 DEF DeletesOne, SettledStays
  <2> QED BY <1>1, <1>2, <1>4, <2>1 DEF Target
<1> QED BY <1>1, <1>4, <1>5, <1>6, DeletionFrame DEF Creating, Others, LocksInv

LEMMA FindKeeps ==
  ASSUME PalaceTypeOK, Others, NEW r \in Requests, Moves(r), UNCHANGED <<rows, used>>,
         FindRows(r) \/ FindParents(r)
  PROVE  Others'
<1>1. /\ UNCHANGED <<txn, gone, goneParents, memory, parents, layer, orphaned>>
      /\ goneParents[r] = {} /\ Holds(r)
      /\ pc[r] \in {"findRows", "findParents"}
      /\ pc'[r] \in {"deleteRows", "deleteParents"}
  BY DEF FindRows, FindParents, Others, LocksInv, Holds, rows, locks, Goto, PalaceTypeOK, Locked
<1>2. Target(r) /\ Deleting(r)
  BY <1>1 DEF Others, TargetsInv, Deleting
<1>3. SettledStays
  BY <1>1, SettledKeeps DEF Creating
<1>4. \A d \in gone[r] : Settled(d)'
  BY <1>1, <1>3 DEF Holds, SettledStays, PalaceTypeOK
<1>5. txn[r].start \subseteq Children  BY DEF PalaceTypeOK
<1>6. OwnParents(r)' = OwnParents(r) /\ Emptied(r)' = Emptied(r)
  BY <1>1 DEF OwnParents, Emptied
<1>7. CASE FindRows(r)
  <2>1. /\ pc[r] = "findRows" /\ pc'[r] = "deleteRows"
        /\ seen'[r] = {c \in Rows : layer[c] = tables[txn[r].step]}
    BY <1>7 DEF FindRows, Goto, PalaceTypeOK
  <2>2. txn[r].op = "deleteAll" /\ DeletesAll(r)
    BY <1>2, <2>1 DEF Target
  <2>3. Holds(r)'
    BY <1>1, <1>4, <2>1 DEF Holds, Deleting, Rows, Locked
  <2>4. DeletesAll(r)'
    BY <1>1, <1>3, <1>5, <1>6, <2>1, <2>2 DEF DeletesAll, SettledStays, Rows
  <2>5. Target(r)'
    BY <1>1, <1>2, <2>1, <2>2, <2>4 DEF Target
  <2> QED BY <1>1, <2>3, <2>5, DeletionFrame DEF Creating, Others, LocksInv
<1>8. CASE FindParents(r)
  <2>1. /\ pc[r] = "findParents" /\ pc'[r] = "deleteParents"
        /\ seen'[r] = {row \in parents : txn[r].op = "deleteAll" \/ row[1] = txn[r].parent}
    BY <1>8 DEF FindParents, Goto, PalaceTypeOK
  <2>2. OwnParents(r) \subseteq seen'[r]
    <3>1. CASE txn[r].op = "deleteAll"  BY <2>1, <3>1 DEF OwnParents
    <3>2. CASE DeletesOne(r)  BY <2>1, <3>2, OwnParentIs
    <3> QED BY <1>2, <3>1, <3>2 DEF Target
  <2>3. Holds(r)'
    BY <1>1, <1>4, <1>6, <2>1, <2>2 DEF Holds, Deleting, PalaceTypeOK, Locked
  <2>4. DeletesAll(r) => DeletesAll(r)'
    BY <1>1, <1>3, <1>5, <2>1 DEF DeletesAll, SettledStays
  <2>5. DeletesOne(r) => DeletesOne(r)'
    BY <1>1, <1>3, <2>1 DEF DeletesOne, SettledStays
  <2>6. Target(r)'
    BY <1>1, <1>2, <2>1, <2>4, <2>5 DEF Target
  <2> QED BY <1>1, <2>3, <2>6, DeletionFrame DEF Creating, Others, LocksInv
<1> QED BY <1>7, <1>8

LEMMA DeleteRowsKeeps ==
  ASSUME PalaceTypeOK, Others, NEW r \in Requests, Moves(r), UNCHANGED <<rows, used>>, DeleteRows(r)
  PROVE  Others'
<1>1. /\ UNCHANGED <<goneParents, memory, parents, layer, orphaned, seen>>
      /\ goneParents[r] = {} /\ Holds(r) /\ pc[r] = "deleteRows"
      /\ gone'[r] = gone[r] \cup (seen[r] \cap Rows)
      /\ txn'[r].step = txn[r].step + 1 /\ txn'[r].start = txn[r].start /\ txn'[r].op = txn[r].op
      /\ pc'[r] = IF txn[r].step = 5 THEN "findParents" ELSE "findRows"
  BY FiveTables DEF DeleteRows, Others, LocksInv, Holds, Locked, rows, Goto, PalaceTypeOK
<1>2. txn[r].op = "deleteAll" /\ DeletesAll(r) /\ txn[r].step \in 1..5
  BY <1>1, FiveTables DEF Others, TargetsInv, Target, Deleting
<1>3. SettledStays
  BY <1>1, SettledKeeps DEF Creating
<1>4. \A d \in gone'[r] : Settled(d)'
  BY <1>1, <1>3, RowsSettled DEF Holds, SettledStays, PalaceTypeOK, Rows
<1>5. Holds(r)'
  BY <1>1, <1>4 DEF Holds, Deleting, Locked
<1>6. ASSUME NEW c \in txn[r].start, memory[c] # None, layer[c] \in Emptied(r)'
      PROVE  c \in gone'[r]
  <2>1. c \in Rows  BY <1>6 DEF Rows, PalaceTypeOK
  <2>2. layer[c] \in Emptied(r) \/ layer[c] = tables[txn[r].step]
    BY <1>1, <1>2, <1>6 DEF Emptied
  <2>3. layer[c] \in Emptied(r) => c \in gone[r]
    BY <1>1, <1>2, <1>6 DEF DeletesAll
  <2>4. layer[c] = tables[txn[r].step] => c \in seen[r]
    BY <1>1, <1>2, <1>6 DEF DeletesAll
  <2> QED BY <1>1, <2>1, <2>2, <2>3, <2>4
<1>7. txn[r].step = 5 => \A c \in txn[r].start : layer[c] \in Emptied(r)'
  <2>1. txn[r].step = 5 => Emptied(r)' = {tables[i] : i \in 1..5}
    BY <1>1 DEF Emptied
  <2>2. DOMAIN tables = 1..5  BY DEF tables
  <2> QED BY <2>1, <2>2, ConstantsAssumption DEF PalaceTypeOK
<1>8. DeletesAll(r)'
  BY <1>1, <1>2, <1>3, <1>6, <1>7 DEF DeletesAll, SettledStays, PalaceTypeOK
<1>9. Target(r)'
  BY <1>1, <1>2, <1>8, FiveTables DEF Target
<1> QED BY <1>1, <1>5, <1>9, DeletionFrame DEF Creating, Others, LocksInv

\* The parents are locked and checked.
LEMMA ParentsKeep ==
  ASSUME PalaceTypeOK, Others, NEW r \in Requests, Moves(r), UNCHANGED <<rows, used>>,
         DeleteParents(r) \/ (CheckParents(r) /\ pc'[r] \in Locked) \/ DeletePersona(r)
  PROVE  Others'
<1>1. ASSUME CheckParents(r), pc'[r] \in Locked
      PROVE  /\ pc'[r] \in {"deletePersona", "commitDelete"}
             /\ UNCHANGED <<txn, gone, goneParents, seen>>
             /\ pc[r] = "checkParents"
             /\ \A row \in goneParents[r] : Referring(row[1]) \subseteq gone[r]
  <2>1. ~Abort(r, "error")  BY <1>1 DEF Abort, End, Goto, PalaceTypeOK, Locked
  <2> QED BY <1>1, <2>1 DEF CheckParents, locks, Goto, PalaceTypeOK
<1>2. UNCHANGED <<txn, gone, memory, parents, layer, orphaned, seen>> /\ Holds(r)
  BY <1>1 DEF DeleteParents, DeletePersona, Others, LocksInv, rows, locks
<1>3. /\ pc[r] \in {"deleteParents", "checkParents", "deletePersona"}
      /\ pc'[r] \in {"checkParents", "deletePersona", "commitDelete"}
  BY <1>1 DEF DeleteParents, CheckParents, DeletePersona, Goto, PalaceTypeOK
<1>4. SettledStays
  BY <1>3, SettledKeeps DEF Creating
<1>5. /\ \A d \in gone[r] : Settled(d)'
      /\ OwnParents(r)' = OwnParents(r) /\ \A x : Referring(x)' = Referring(x)
  BY <1>2, <1>4 DEF Holds, SettledStays, PalaceTypeOK, OwnParents, Referring, Rows
<1>6. Target(r)'
  <2>1. DeletesOne(r) => DeletesOne(r)'
    BY <1>2, <1>3, <1>4 DEF DeletesOne, SettledStays
  <2>2. DeletesAll(r) => DeletesAll(r)'
    BY <1>2, <1>3, <1>4 DEF DeletesAll, SettledStays, PalaceTypeOK
  <2> QED BY <1>2, <1>3, <2>1, <2>2 DEF Target, Others, TargetsInv, Deleting
<1>7. CASE DeleteParents(r)
  <2>1. /\ pc[r] = "deleteParents" /\ pc'[r] = "checkParents"
        /\ goneParents'[r] = seen[r] \cap parents /\ Blockers(r) = {}
    BY <1>7 DEF DeleteParents, Goto, PalaceTypeOK
  <2>2. \A q \in Requests \ {r} : goneParents[q] \cap seen[r] = {}
    BY <2>1 DEF Blockers, Deleters
  <2>3. Holds(r)'
    BY <1>2, <1>5, <2>1 DEF Holds, Deleting, OwnParents, Locked
  <2> QED BY <1>3, <1>6, <2>1, <2>2, <2>3, DeletionFrame DEF Creating
<1>8. CASE CheckParents(r) /\ pc'[r] \in Locked
  <2>1. Holds(r)'
    BY <1>1, <1>2, <1>5, <1>8 DEF Holds, Deleting, Locked
  <2> QED BY <1>1, <1>3, <1>6, <1>8, <2>1, DeletionFrame DEF Creating, Others, LocksInv
<1>9. CASE DeletePersona(r)
  <2>1. pc[r] = "deletePersona" /\ pc'[r] = "commitDelete" /\ UNCHANGED goneParents
    BY <1>9 DEF DeletePersona, Goto, locks, PalaceTypeOK
  <2>2. Holds(r)'
    BY <1>2, <1>5, <2>1 DEF Holds, Deleting, Locked
  <2> QED BY <1>3, <1>6, <2>1, <2>2, DeletionFrame DEF Creating, Others, LocksInv
<1> QED BY <1>7, <1>8, <1>9

-----------------------------------------------------------------------------
(* Commits *)

\* What a commit of r has to leave alone for the others' part of the invariant to hold.
LEMMA CommitFrame ==
  ASSUME PalaceTypeOK, Others, NEW r \in Requests, Moves(r), UNCHANGED <<layer, used>>,
         pc'[r] \in Over, gone'[r] = {}, goneParents'[r] = {},
         RowsInv',
         \A q \in Requests \ {r} :
           /\ Creator(q)'
           /\ goneParents[q] \subseteq parents'
           /\ OwnParents(q)' \subseteq OwnParents(q)
           /\ \A row \in goneParents[q] : Referring(row[1])' \subseteq Referring(row[1]),
         \A c \in Children : Settled(c) => memory'[c] \in {memory[c], None}
  PROVE  Others'
<1>1. ~Creating(r)' /\ ~Inserted(r)' /\ ~Deleting(r)' /\ pc'[r] # "deleteChild"
  BY DEF Creating, Inserted, Deleting, Over
<1>2. SettledStays  BY <1>1, SettledKeeps
<1>3. CreatorsInv'
  <2>1. ASSUME NEW q \in Requests PROVE Creator(q)'
    BY <1>1 DEF Creator
  <2>2. ASSUME NEW q \in Requests, NEW p \in Requests, q # p PROVE Apart(q, p)'
    BY <1>1, <2>2 DEF Others, CreatorsInv, Apart, Creating, Inserted, Moves
  <2> QED BY <2>1, <2>2 DEF CreatorsInv
<1>4. LocksInv'
  <2>1. ASSUME NEW q \in Requests PROVE Holds(q)'
    <3>1. CASE q = r
      BY <1>1, <3>1 DEF Holds, OwnParents, Deleting, Locked, Over
    <3>2. CASE q # r
      <4>1. /\ pc'[q] = pc[q] /\ seen'[q] = seen[q] /\ gone'[q] = gone[q]
            /\ goneParents'[q] = goneParents[q]
        BY <3>2 DEF Moves
      <4>2. Holds(q) /\ gone[q] \subseteq Children  BY DEF Others, LocksInv, PalaceTypeOK
      <4>3. \A c \in gone[q] : Settled(c)'  BY <1>2, <4>2 DEF Holds, SettledStays
      <4>4. /\ goneParents[q] \subseteq parents' /\ OwnParents(q)' \subseteq OwnParents(q)
            /\ \A row \in goneParents[q] : Referring(row[1])' \subseteq Referring(row[1])
        BY <3>2
      <4>5. Deleting(q)' <=> Deleting(q)  BY <4>1 DEF Deleting
      <4> QED BY <4>1, <4>2, <4>3, <4>4, <4>5 DEF Holds
    <3> QED BY <3>1, <3>2
  <2>2. ASSUME NEW q \in Requests, NEW p \in Requests, q # p
        PROVE  goneParents'[q] \cap goneParents'[p] = {}
    BY <2>2 DEF Others, LocksInv, Moves
  <2> QED BY <2>1, <2>2 DEF LocksInv
<1>5. TargetsInv'
  <2> SUFFICES ASSUME NEW q \in Requests PROVE Target(q)'  BY DEF TargetsInv
  <2>1. CASE q = r  BY <1>1, <2>1 DEF Target, Deleting
  <2>2. CASE q # r
    <3>1. pc'[q] = pc[q] /\ seen'[q] = seen[q] /\ gone'[q] = gone[q] /\ txn'[q] = txn[q]
      BY <2>2 DEF Moves
    <3>2. Target(q) /\ txn[q].start \subseteq Children
      BY DEF Others, TargetsInv, PalaceTypeOK
    <3>3. DeletesOne(q) => DeletesOne(q)'
      BY <1>2, <3>1 DEF DeletesOne, SettledStays
    <3>4. DeletesAll(q) => DeletesAll(q)'
      BY <1>2, <3>1, <3>2 DEF DeletesAll, Emptied, SettledStays
    <3> QED BY <3>1, <3>2, <3>3, <3>4 DEF Target, Deleting
  <2> QED BY <2>1, <2>2
<1> QED BY <1>3, <1>4, <1>5 DEF Others

LEMMA CommitCreateKeeps ==
  ASSUME PalaceTypeOK, PalaceTypeOK', Others, NEW r \in Requests, Moves(r), CommitCreate(r),
         UNCHANGED <<layer, used>>,
         pc'[r] \in Over, gone'[r] = {}, goneParents'[r] = {}
  PROVE  Others'
<1> DEFINE c == txn[r].child
           p == txn[r].parent
<1>1. /\ memory' = [memory EXCEPT ![c] = p] /\ parents' = parents \cup {<<p, c>>}
      /\ orphaned' = orphaned /\ Creating(r) /\ Inserted(r)
  BY DEF CommitCreate, Creating, Inserted
<1>2. /\ c \in Children \cap used /\ p \in Parents /\ memory[c] = None /\ p # None
      /\ \A row \in parents : row[1] # p
  BY <1>1, ConstantsAssumption DEF Others, CreatorsInv, Creator
<1>4. \A d \in Children : memory'[d] = IF d = c THEN p ELSE memory[d]
  BY <1>1, <1>2 DEF PalaceTypeOK
<1>5. \A row \in parents : /\ row[2] \in Children /\ row[1] \in Parents
                           /\ row[1] \notin orphaned => row[2] # c
  BY <1>2, ConstantsAssumption DEF Others, RowsInv, PalaceTypeOK, ParentRows
<1>6. Rows' = Rows \cup {c}
  BY <1>2, <1>4 DEF Rows
<1>7. \A d \in Children : Settled(d) => d # c
  BY <1>1 DEF Settled
<1>8. RowsInv'
  <2>1. \A row \in parents' : row[1] \notin orphaned' => memory'[row[2]] = row[1]
    BY <1>1, <1>2, <1>4, <1>5 DEF Others, RowsInv
  <2>2. \A d \in Rows' : d \in used'
    BY <1>2, <1>4, <1>6 DEF Others, RowsInv, Rows
  <2>3. \A d \in Rows' : \/ <<memory'[d], d>> \in parents'
                         \/ layer'[d] = "contexts" /\ memory'[d] \in orphaned'
    <3> SUFFICES ASSUME NEW d \in Rows'
                 PROVE  \/ <<memory'[d], d>> \in parents'
                        \/ layer'[d] = "contexts" /\ memory'[d] \in orphaned'
      OBVIOUS
    <3>1. CASE d = c  BY <1>1, <1>2, <1>4, <3>1
    <3>2. CASE d # c
      <4>1. d \in Rows /\ memory'[d] = memory[d]  BY <1>4, <1>6, <3>2 DEF Rows
      <4> QED BY <1>1, <4>1 DEF Others, RowsInv
    <3> QED BY <3>1, <3>2
  <2>4. \A a, b \in parents' : a[1] = b[1] => a = b
    BY <1>1, <1>2 DEF Others, RowsInv
  <2> QED BY <2>1, <2>2, <2>3, <2>4 DEF RowsInv
<1>9. ASSUME NEW q \in Requests \ {r}
      PROVE  Creator(q)'
  <2> SUFFICES ASSUME Creating(q) PROVE Creator(q)'
    BY DEF Creator, Creating, Moves
  <2>1. /\ txn[q].child # c /\ txn'[q] = txn[q]
        /\ txn[q].parent = p => ~Inserted(q)
    BY <1>1 DEF Others, CreatorsInv, Apart, Moves
  <2>2. Creator(q)  BY DEF Others, CreatorsInv
  <2>3. Inserted(q)' <=> Inserted(q)  BY DEF Inserted, Moves
  <2>4. memory'[txn[q].child] = None  BY <1>4, <2>1, <2>2 DEF Creator
  <2>5. Inserted(q) => \A row \in parents' : row[1] # txn[q].parent
    BY <1>1, <2>1, <2>2 DEF Creator
  <2> QED BY <2>1, <2>2, <2>3, <2>4, <2>5 DEF Creator
<1>10. ASSUME NEW q \in Requests \ {r}
       PROVE  /\ goneParents[q] \subseteq parents'
              /\ OwnParents(q)' \subseteq OwnParents(q)
              /\ \A row \in goneParents[q] : Referring(row[1])' \subseteq Referring(row[1])
  <2>1. /\ goneParents[q] \subseteq parents /\ gone[q] \subseteq Children
        /\ \A d \in gone[q] : Settled(d)
    BY DEF Others, LocksInv, Holds, PalaceTypeOK
  <2>2. gone'[q] = gone[q] /\ c \notin gone[q]  BY <1>7, <2>1 DEF Moves
  <2>3. OwnParents(q)' \subseteq OwnParents(q)
    BY <1>1, <2>2 DEF OwnParents
  <2>4. ASSUME NEW row \in goneParents[q]
        PROVE  Referring(row[1])' \subseteq Referring(row[1])
    <3>1. row[1] # p  BY <1>2, <2>1
    <3> QED BY <1>2, <1>4, <1>6, <3>1 DEF Referring, Rows
  <2> QED BY <1>1, <2>1, <2>3, <2>4
<1> QED BY <1>4, <1>7, <1>8, <1>9, <1>10, CommitFrame

LEMMA CommitDeleteKeeps ==
  ASSUME PalaceTypeOK, PalaceTypeOK', Others, NEW r \in Requests, Moves(r), CommitDelete(r),
         UNCHANGED <<layer, used>>,
         pc'[r] \in Over, gone'[r] = {}, goneParents'[r] = {}
  PROVE  Others'
<1>1. /\ \A c \in Children : memory'[c] = IF c \in gone[r] THEN None ELSE memory[c]
      /\ parents' = parents \ goneParents[r] /\ orphaned \subseteq orphaned'
      /\ \A row \in goneParents[r], d \in Rows \ gone[r] :
           row[1] = memory[d] => memory[d] \in orphaned'
      /\ pc[r] = "commitDelete"
  BY DEF CommitDelete
<1>2. /\ OwnParents(r) \subseteq goneParents[r] /\ goneParents[r] \subseteq parents
      /\ \A row \in goneParents[r] : Referring(row[1]) \subseteq gone[r]
  BY <1>1 DEF Others, LocksInv, Holds, Locked
<1>3. Rows' = Rows \ gone[r]
  BY <1>1 DEF Rows
<1>4. \A row \in parents : row[2] \in Children
  BY DEF PalaceTypeOK, ParentRows
<1>5. RowsInv'
  <2>1. \A row \in parents' : row[1] \notin orphaned' => memory'[row[2]] = row[1]
    BY <1>1, <1>2, <1>4 DEF Others, RowsInv, OwnParents
  <2>2. \A d \in Rows' : d \in used'
    BY <1>1, <1>3 DEF Others, RowsInv, Rows
  <2>3. \A d \in Rows' : \/ <<memory'[d], d>> \in parents'
                         \/ layer'[d] = "contexts" /\ memory'[d] \in orphaned'
    <3> SUFFICES ASSUME NEW d \in Rows'
                 PROVE  \/ <<memory'[d], d>> \in parents'
                        \/ layer'[d] = "contexts" /\ memory'[d] \in orphaned'
      OBVIOUS
    <3>1. d \in Rows /\ d \notin gone[r] /\ memory'[d] = memory[d]
      BY <1>1, <1>3 DEF Rows
    <3>2. CASE <<memory[d], d>> \in goneParents[r]
      <4>1. memory[d] \in orphaned'  BY <1>1, <3>1, <3>2
      <4>2. Referring(<<memory[d], d>>[1]) \subseteq gone[r]  BY <1>2, <3>2
      <4>3. d \notin Referring(memory[d])  BY <3>1, <4>2
      <4> QED BY <3>1, <4>1, <4>3 DEF Referring
    <3>3. CASE <<memory[d], d>> \notin goneParents[r]
      BY <1>1, <3>1, <3>3 DEF Others, RowsInv
    <3> QED BY <3>2, <3>3
  <2>4. \A a, b \in parents' : a[1] = b[1] => a = b
    BY <1>1 DEF Others, RowsInv
  <2> QED BY <2>1, <2>2, <2>3, <2>4 DEF RowsInv
<1>6. ASSUME NEW q \in Requests \ {r}
      PROVE  Creator(q)'
  <2> SUFFICES ASSUME Creating(q) PROVE Creator(q)'
    BY DEF Creator, Creating, Moves
  <2>1. Creator(q)  BY DEF Others, CreatorsInv
  <2>2. Inserted(q)' <=> Inserted(q)  BY DEF Inserted, Moves
  <2>3. txn'[q] = txn[q] /\ txn[q].child \in Children
    BY <2>1 DEF Creator, Moves
  <2>4. memory'[txn[q].child] = None  BY <1>1, <2>1, <2>3 DEF Creator
  <2> QED BY <1>1, <2>1, <2>2, <2>3, <2>4 DEF Creator
<1>7. ASSUME NEW q \in Requests \ {r}
      PROVE  /\ goneParents[q] \subseteq parents'
             /\ OwnParents(q)' \subseteq OwnParents(q)
             /\ \A row \in goneParents[q] : Referring(row[1])' \subseteq Referring(row[1])
  <2>1. goneParents[q] \subseteq parents /\ goneParents[q] \cap goneParents[r] = {}
    BY DEF Others, LocksInv, Holds
  <2>2. OwnParents(q)' \subseteq OwnParents(q)  BY <1>1 DEF OwnParents, Moves
  <2>3. \A x : Referring(x)' \subseteq Referring(x)  BY <1>1, <1>3 DEF Referring, Rows
  <2> QED BY <1>1, <2>1, <2>2, <2>3
<1> QED BY <1>1, <1>5, <1>6, <1>7, CommitFrame

-----------------------------------------------------------------------------
(* Theorems *)

LEMMA PalaceInitInv == PalaceInit => PalaceInv
<1> SUFFICES ASSUME PalaceInit PROVE PalaceInv  OBVIOUS
<1>1. Rows = {}  BY DEF PalaceInit, Rows
<1>2. \A r \in Requests : pc[r] = "idle" /\ gone[r] = {} /\ goneParents[r] = {}
  BY DEF PalaceInit
<1>3. RowsInv  BY <1>1 DEF PalaceInit, RowsInv
<1>4. CreatorsInv  BY <1>2 DEF CreatorsInv, Creator, Apart, Creating
<1>5. LocksInv  BY <1>2 DEF LocksInv, Holds, OwnParents
<1>6. TargetsInv  BY <1>2 DEF TargetsInv, Target, Deleting
<1> QED BY <1>3, <1>4, <1>5, <1>6, PalaceInitType DEF PalaceInv

LEMMA PalaceStep == PalaceInv /\ [PalaceNext]_palaceVars => PalaceInv'
<1> SUFFICES ASSUME PalaceTypeOK, Others, [PalaceNext]_palaceVars PROVE PalaceTypeOK' /\ Others'
  BY DEF PalaceInv, Others
<1>1. CASE UNCHANGED palaceVars
  <2>1. UNCHANGED <<layer, memory, parents, orphaned, used, pc, txn, gone, goneParents, seen>>
    BY <1>1 DEF palaceVars, rows, locks
  <2>2. PalaceTypeOK'  BY <2>1 DEF PalaceTypeOK
  <2>3. RowsInv'  BY <2>1 DEF Others, RowsInv, Rows
  <2>4. CreatorsInv'
    BY <2>1 DEF Others, CreatorsInv, Creator, Apart, Creating, Inserted
  <2>5. LocksInv'
    BY <2>1 DEF Others, LocksInv, Holds, OwnParents, Referring, Rows, Settled, Creating, Deleting
  <2>6. TargetsInv'
    BY <2>1 DEF Others, TargetsInv, Target, DeletesOne, DeletesAll, Emptied, Settled, Creating,
       Deleting
  <2> QED BY <2>2, <2>3, <2>4, <2>5, <2>6 DEF Others
<1>2. ASSUME NEW r \in Requests, NEW c,
             BeginDeleteAll(r) \/ (c \in Children /\ (Lookup(r, c) \/ BeginUpdate(r, c)))
      PROVE  PalaceTypeOK' /\ Others'
  BY <1>2, BeginType, BeginKeeps
<1>3. ASSUME NEW r \in Requests, NEW c \in Children, NEW p \in Parents, BeginCreate(r, c, p)
      PROVE  PalaceTypeOK' /\ Others'
  BY <1>3, BeginType, BeginCreateKeeps
<1>4. ASSUME NEW r \in Requests,
             \/ InsertParent(r) /\ ~(pc'[r] = "insertChild")
             \/ CheckParents(r) /\ pc'[r] \notin Locked
             \/ Update(r) \/ BreakDeadlock(r) \/ Fail(r) \/ Answer(r)
      PROVE  PalaceTypeOK' /\ Others'
  BY <1>4, EndType, EndKeeps DEF Others
<1>5. ASSUME NEW r \in Requests,
             \/ InsertParent(r) /\ pc'[r] = "insertChild"
             \/ CheckParents(r) /\ pc'[r] \in Locked
             \/ InsertChild(r) \/ DeleteChild(r) \/ Count(r) \/ FindRows(r) \/ DeleteRows(r)
             \/ FindParents(r) \/ DeleteParents(r) \/ DeletePersona(r)
      PROVE  PalaceTypeOK' /\ Others'
  <2>1. PalaceTypeOK' /\ Moves(r) /\ UNCHANGED <<rows, used>>
    BY <1>5, StatementType DEF Others
  <2> QED BY <1>5, <2>1, InsertKeeps, ParentsKeep, DeleteChildKeeps, CountKeeps, FindKeeps,
             DeleteRowsKeeps
<1>6. ASSUME NEW r \in Requests, CommitCreate(r) \/ CommitDelete(r)
      PROVE  PalaceTypeOK' /\ Others'
  BY <1>6, CommitType, CommitCreateKeeps, CommitDeleteKeeps DEF Others
<1>7. CASE PalaceNext
  <2>1. PICK r \in Requests :
          \/ \E c \in Children, p \in Parents : BeginCreate(r, c, p)
          \/ \E c \in Children : Lookup(r, c) \/ BeginUpdate(r, c)
          \/ BeginDeleteAll(r)
          \/ Statement(r) \/ BreakDeadlock(r) \/ Fail(r) \/ Answer(r)
    BY <1>7 DEF PalaceNext
  <2>2. CASE \E c \in Children, p \in Parents : BeginCreate(r, c, p)  BY <1>3, <2>2
  <2>3. CASE \E c \in Children : Lookup(r, c) \/ BeginUpdate(r, c)  BY <1>2, <2>3
  <2>4. CASE BeginDeleteAll(r)  BY <1>2, <2>4
  <2>5. CASE Statement(r)  BY <1>4, <1>5, <1>6, <2>5 DEF Statement
  <2>6. CASE BreakDeadlock(r) \/ Fail(r) \/ Answer(r)  BY <1>4, <2>6
  <2> QED BY <2>1, <2>2, <2>3, <2>4, <2>5, <2>6
<1> QED BY <1>1, <1>7

\* Committed rows, open transactions, their locks and their targets agree, whichever
\* requests interleave, fail or wait for each other (pgstore.go).
THEOREM PalaceInvariant == PalaceSafety => []PalaceInv
BY PalaceInitInv, PalaceStep, PTL DEF PalaceSafety

\* Every variable holds a value of its type, whatever the requests.
THEOREM PalaceTypes == PalaceSpec => []PalaceTypeOK
<1>1. PalaceInv => PalaceTypeOK  BY DEF PalaceInv
<1> QED BY <1>1, PalaceInvariant, PTL DEF PalaceSpec

\* A memory has both its rows and no third, by foreign key always and otherwise unless
\* its parent was deleted while a context named it.
THEOREM MemoriesStayWhole == PalaceSpec => []MemoriesWhole
<1>1. PalaceInv => MemoriesWhole
  <2> SUFFICES ASSUME PalaceTypeOK, RowsInv PROVE MemoriesWhole  BY DEF PalaceInv
  <2>1. ASSUME NEW c \in Rows, layer[c] # "contexts"
        PROVE  Referring(memory[c]) = {c} /\ <<memory[c], c>> \in parents
    <3>1. \A d \in Referring(memory[c]) : d \in Rows /\ <<memory[c], d>> \in parents
      BY DEF Referring, RowsInv
    <3>2. <<memory[c], c>> \in parents  BY <2>1 DEF RowsInv
    <3>3. \A d \in Referring(memory[c]) : d = c  BY <3>1, <3>2 DEF RowsInv
    <3> QED BY <2>1, <3>2, <3>3 DEF Referring
  <2>2. ASSUME NEW c \in Rows, memory[c] \notin orphaned
        PROVE  ChildrenOf(memory[c]) = {c} /\ <<memory[c], c>> \in parents
    <3>1. \A d \in ChildrenOf(memory[c]) : <<memory[c], d>> \in parents
      BY <2>2 DEF ChildrenOf, RowsInv
    <3>2. <<memory[c], c>> \in parents  BY <2>2 DEF RowsInv
    <3>3. \A d \in ChildrenOf(memory[c]) : d = c  BY <3>1, <3>2 DEF RowsInv
    <3> QED BY <3>2, <3>3 DEF ChildrenOf
  <2>3. ASSUME NEW row \in parents, row[1] \notin orphaned PROVE ChildrenOf(row[1]) # {}
    <3>1. row[1] \in Parents /\ row[2] \in Children  BY DEF PalaceTypeOK, ParentRows
    <3>2. memory[row[2]] = row[1] /\ row[1] # None
      BY <2>3, <3>1, ConstantsAssumption DEF RowsInv
    <3>3. row[2] \in ChildrenOf(row[1])  BY <3>1, <3>2 DEF ChildrenOf, Rows
    <3> QED BY <3>3
  <2> QED BY <2>1, <2>2, <2>3 DEF MemoriesWhole, RowsInv
<1> QED BY <1>1, PalaceInvariant, PTL DEF PalaceSpec

\* A deletion answered with success is complete.
THEOREM SuccessIsComplete == PalaceSpec => OkMeansGone
<1> DEFINE A == \A r \in Requests :
                  pc[r] = "commitDelete" /\ pc'[r] = "ok" =>
                    /\ txn[r].op = "delete" => memory'[txn[r].child] = None
                    /\ \A c \in txn[r].start : memory'[c] = None
<1>1. ASSUME PalaceInv, [PalaceNext]_palaceVars PROVE A
  <2> SUFFICES ASSUME NEW r \in Requests, pc[r] = "commitDelete", pc'[r] = "ok"
               PROVE  /\ txn[r].op = "delete" => memory'[txn[r].child] = None
                      /\ \A c \in txn[r].start : memory'[c] = None
    OBVIOUS
  <2>1. PalaceTypeOK /\ Others /\ LocksInv  BY <1>1 DEF PalaceInv, Others
  <2>2. CommitDelete(r)
    <3>1. pc' # pc  OBVIOUS
    <3>2. PalaceNext  BY <1>1, <3>1 DEF palaceVars
    <3>3. PICK q \in Requests :
            \/ \E c \in Children, p \in Parents : BeginCreate(q, c, p)
            \/ \E c \in Children : Lookup(q, c) \/ BeginUpdate(q, c)
            \/ BeginDeleteAll(q)
            \/ Statement(q) \/ BreakDeadlock(q) \/ Fail(q) \/ Answer(q)
      BY <3>2 DEF PalaceNext
    <3>4. \E label : Goto(q, label)
      BY <3>3 DEF BeginCreate, Lookup, BeginUpdate, BeginDeleteAll, Statement, BreakDeadlock,
         Fail, Answer, InsertParent, InsertChild, CommitCreate, DeleteChild, Count, Update,
         FindRows, DeleteRows, FindParents, DeleteParents, CheckParents, DeletePersona,
         CommitDelete, Abort, End
    <3>5. q = r  BY <2>1, <3>1, <3>4 DEF Goto, PalaceTypeOK
    <3>6. ~Abort(r, "error")  BY <2>1 DEF Abort, End, Goto, PalaceTypeOK
    <3> QED BY <3>3, <3>5, <3>6
         DEF BeginCreate, Lookup, BeginUpdate, BeginDeleteAll, Statement, BreakDeadlock,
         Fail, Answer, InsertParent, InsertChild, CommitCreate, DeleteChild, Count, Update,
         FindRows, DeleteRows, FindParents, DeleteParents, CheckParents, DeletePersona, Over
  <2>3. \A c \in Children : memory'[c] = IF c \in gone[r] THEN None ELSE memory[c]
    BY <2>2 DEF CommitDelete
  <2>4. Target(r) /\ txn[r].start \subseteq Children
    BY <2>1 DEF Others, TargetsInv, PalaceTypeOK
  <2>5. CASE txn[r].op = "delete" /\ DeletesOne(r)
    BY <2>3, <2>5 DEF DeletesOne
  <2>6. CASE txn[r].op = "deleteAll" /\ DeletesAll(r)
    BY <2>3, <2>4, <2>6 DEF DeletesAll
  <2> QED BY <2>4, <2>5, <2>6 DEF Target, Deleting
<1> HIDE DEF A
<1>2. PalaceSpec => [][A]_palaceVars
  BY <1>1, PalaceInvariant, PTL DEF PalaceSpec, PalaceSafety
<1> QED BY <1>2 DEF A, OkMeansGone

=============================================================================
