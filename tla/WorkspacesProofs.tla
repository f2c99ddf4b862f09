-------------------------- MODULE WorkspacesProofs --------------------------
(***************************************************************************)
(* What holds of Workspaces for any number of users, workspaces and         *)
(* concurrent requests: the types; that whoever has a tuple has a row or    *)
(* had one that a request has deleted; that a workspace without an owner    *)
(* stays closed; and, of requests that come one at a time, that the answer  *)
(* "ok" means that nobody it was about has less in Keto than in the rows,   *)
(* nor anything without a row.                                              *)
(***************************************************************************)
EXTENDS Workspaces, FiniteSetTheorems, TLAPS

\* A request under way has parameters.
Parameters ==
  \A r \in Requests :
    /\ Open(r) => req[r].ws \in Ids /\ req[r].who \in Users
    /\ pc[r] \in {"add", "grant"} => req[r].role \in Roles

TypeInv == TypeOK /\ Parameters

Calls == [op : AllOperations \cup {"none"}, by : Users \cup {Nobody},
          ws : Ids \cup {Nobody}, who : Users \cup {Nobody}, role : RoleOrNone]

\* Every role has a relation.
LEMMA RelationOfRole ==
  ASSUME NEW ro \in Roles PROVE roleToRelation[ro] \in Relations /\ ro # "none"
BY ConstantsAssumption DEF roleToRelation, Relations

LEMMA InitType == Init => TypeInv
BY DEF Init, TypeInv, TypeOK, Parameters, NoRequest, Labels, Answered, RoleOrNone, Open

\* Starting a request, whatever it asks for, keeps the types.
LEMMA StartType ==
  ASSUME TypeInv, NEW r \in Requests, NEW op \in AllOperations, NEW by \in Users,
         NEW w \in Ids, NEW who \in Users, NEW ro \in RoleOrNone,
         NEW label \in Labels, Ask(r, op, by, w, who, ro), Goto(r, label),
         label \in {"add", "grant"} => ro \in Roles
  PROVE  /\ req' \in [Requests -> Calls] /\ pc' \in [Requests -> Labels]
         /\ Parameters'
<1>1. [op |-> op, by |-> by, ws |-> w, who |-> who, role |-> ro] \in Calls
  BY DEF Calls
<1>2. req' \in [Requests -> Calls] /\ pc' \in [Requests -> Labels]
  BY <1>1 DEF TypeInv, TypeOK, Ask, Goto, Calls
<1>3. ASSUME NEW q \in Requests
      PROVE  /\ Open(q)' => req'[q].ws \in Ids /\ req'[q].who \in Users
             /\ pc'[q] \in {"add", "grant"} => req'[q].role \in Roles
  <2>1. CASE q = r
    BY <2>1, <1>2 DEF TypeInv, TypeOK, Ask, Goto
  <2>2. CASE q # r
    BY <2>2 DEF TypeInv, TypeOK, Parameters, Ask, Goto, Open
  <2> QED BY <2>1, <2>2
<1> QED BY <1>2, <1>3 DEF Parameters

\* A request that goes on keeps its parameters, and goes to "add" or "grant" only
\* from there.
LEMMA StepType ==
  ASSUME TypeInv, NEW r \in Requests, NEW label \in Labels, Goto(r, label), UNCHANGED req,
         Open(r) \/ label \in Answered,
         label \in {"add", "grant"} => pc[r] \in {"add", "grant"}
  PROVE  pc' \in [Requests -> Labels] /\ Parameters'
<1>1. pc' \in [Requests -> Labels]  BY DEF TypeInv, TypeOK, Goto
<1>2. ASSUME NEW q \in Requests
      PROVE  /\ Open(q)' => req'[q].ws \in Ids /\ req'[q].who \in Users
             /\ pc'[q] \in {"add", "grant"} => req'[q].role \in Roles
  BY DEF TypeInv, TypeOK, Parameters, Goto, Open
<1> QED BY <1>1, <1>2 DEF Parameters

\* Creations, in one transaction or the other.
LEMMA FirstStepType ==
  ASSUME TypeInv, NEW r \in Requests, NEW u \in Users, Create(r, u) \/ Bootstrap(r, u)
  PROVE  TypeInv'
<1>1. PICK op \in AllOperations, w \in Ids :
        /\ workspaces' = workspaces \cup {w}
        /\ \/ role' = [role EXCEPT ![w][u] = "owner"]
           \/ role' = [role EXCEPT ![w][u] = IF @ = "none" THEN "owner" ELSE @]
        /\ Ask(r, op, u, w, u, "owner") /\ Goto(r, "grant")
        /\ used' \subseteq FreshIds /\ UNCHANGED <<deleted, tuples, found>>
  BY DEF Create, Bootstrap, Ids, AllOperations, TypeInv, TypeOK
<1>2. "owner" \in Roles /\ "owner" \in RoleOrNone /\ "grant" \in Labels
  BY ConstantsAssumption DEF RoleOrNone, Labels
<1>3. req' \in [Requests -> Calls] /\ pc' \in [Requests -> Labels] /\ Parameters'
  BY <1>1, <1>2, StartType
<1>4. role' \in [Ids -> [Users -> RoleOrNone]]
  <2>1. role \in [Ids -> [Users -> RoleOrNone]]  BY DEF TypeInv, TypeOK
  <2>2. CASE role' = [role EXCEPT ![w][u] = "owner"]
    BY <1>2, <2>1, <2>2
  <2>3. CASE role' = [role EXCEPT ![w][u] = IF @ = "none" THEN "owner" ELSE @]
    BY <1>2, <2>1, <2>3
  <2> QED BY <1>1, <2>2, <2>3
<1> QED BY <1>1, <1>3, <1>4 DEF TypeInv, TypeOK, Calls

\* Requests that check first.
LEMMA CheckType ==
  ASSUME TypeInv, NEW r \in Requests, NEW op \in {"add", "remove", "delete"},
         NEW by \in Users, NEW w \in Ids, NEW who \in Users, NEW ro \in Roles,
         Check(r, op, by, w, who, ro)
  PROVE  TypeInv'
<1>1. op \in AllOperations /\ ro \in RoleOrNone /\ op \in Labels /\ "denied" \in Labels
  BY DEF AllOperations, RoleOrNone, Labels, Answered
<1>2. CASE Ask(r, op, by, w, who, ro) /\ Goto(r, op)
  <2>1. req' \in [Requests -> Calls] /\ pc' \in [Requests -> Labels] /\ Parameters'
    BY <1>1, <1>2, StartType
  <2> QED BY <2>1 DEF TypeInv, TypeOK, Check, tables, Calls
<1>3. CASE Goto(r, "denied") /\ UNCHANGED req
  <2>1. pc' \in [Requests -> Labels] /\ Parameters'
    BY <1>1, <1>3, StepType DEF Answered
  <2> QED BY <2>1, <1>3 DEF TypeInv, TypeOK, Check, tables
<1> QED BY <1>2, <1>3 DEF Check

LEMMA LeaveType ==
  ASSUME TypeInv, NEW r \in Requests, NEW u \in Users, NEW w \in Ids, ReadRole(r, u, w)
  PROVE  TypeInv'
<1>1. role[w][u] \in RoleOrNone  BY DEF TypeInv, TypeOK
<1>2. PICK label \in {"denied", "count", "remove"} : Goto(r, label)
  BY <1>1 DEF ReadRole, Goto
<1>3. label \in Labels /\ label \notin {"add", "grant"} /\ "leave" \in AllOperations
  BY DEF Labels, Answered, AllOperations
<1>4. Ask(r, "leave", u, w, u, role[w][u])  BY DEF ReadRole
<1>5. req' \in [Requests -> Calls] /\ pc' \in [Requests -> Labels] /\ Parameters'
  BY <1>1, <1>2, <1>3, <1>4, StartType
<1> QED BY <1>5 DEF TypeInv, TypeOK, ReadRole, tables, Calls

\* The later statements of a request.
LEMMA StatementType ==
  ASSUME TypeInv, NEW r \in Requests, NEW ok \in BOOLEAN,
         \/ CountOwners(r) \/ AddMember(r) \/ DeleteMember(r) \/ DeleteWorkspace(r)
         \/ WriteTuple(r) \/ ListTuples(r) \/ KetoFails(r) \/ DeleteTuple(r, ok)
  PROVE  TypeInv'
<1>1. /\ req[r].ws \in Ids /\ req[r].who \in Users
      /\ pc[r] \in {"add", "grant"} => req[r].role \in Roles
  BY DEF TypeInv, Parameters, Open, Answered, CountOwners, AddMember, DeleteMember,
         DeleteWorkspace, WriteTuple, ListTuples, KetoFails, DeleteTuple
<1>2. Open(r)
  BY DEF Open, Answered, CountOwners, AddMember, DeleteMember,
         DeleteWorkspace, WriteTuple, ListTuples, KetoFails, DeleteTuple
<1>3. PICK label \in Labels :
        Goto(r, label) /\ (label \in {"add", "grant"} => pc[r] \in {"add", "grant"})
  BY DEF Goto, CountOwners, AddMember, DeleteMember, DeleteWorkspace, WriteTuple,
         ListTuples, KetoFails, DeleteTuple, Labels, Answered
<1>4. UNCHANGED <<req, used>> /\ workspaces' \subseteq workspaces
  BY DEF tables, CountOwners, AddMember, DeleteMember, DeleteWorkspace, WriteTuple,
         ListTuples, KetoFails, DeleteTuple
<1>5. pc' \in [Requests -> Labels] /\ Parameters'  BY <1>2, <1>3, <1>4, StepType
<1>6. role' \in [Ids -> [Users -> RoleOrNone]]
  <2>1. role \in [Ids -> [Users -> RoleOrNone]]  BY DEF TypeInv, TypeOK
  <2>2. CASE AddMember(r)  BY <1>1, <2>1, <2>2 DEF AddMember, RoleOrNone
  <2>3. CASE DeleteMember(r)  BY <2>1, <2>3 DEF DeleteMember, RoleOrNone
  <2>4. CASE DeleteWorkspace(r)  BY <2>1, <2>4 DEF DeleteWorkspace, RoleOrNone
  <2>5. CASE CountOwners(r) \/ WriteTuple(r) \/ ListTuples(r) \/ KetoFails(r)
    BY <2>1, <2>5 DEF tables, CountOwners, WriteTuple, ListTuples, KetoFails
  <2>6. CASE DeleteTuple(r, ok)  BY <2>1, <2>6 DEF tables, DeleteTuple
  <2> QED BY <2>2, <2>3, <2>4, <2>5, <2>6
<1>7. tuples' \subseteq Ids \X Relations \X Users
  <2>1. CASE WriteTuple(r)
    <3>1. roleToRelation[req[r].role] \in Relations
      BY <1>1, <2>1, RelationOfRole DEF WriteTuple
    <3> QED BY <1>1, <2>1, <3>1 DEF WriteTuple, Tuple, TypeInv, TypeOK
  <2>2. CASE ~WriteTuple(r)
    BY <2>2 DEF TypeInv, TypeOK, CountOwners, AddMember, DeleteMember,
         DeleteWorkspace, ListTuples, KetoFails, DeleteTuple
  <2> QED BY <2>1, <2>2
<1>9. deleted' \subseteq Ids \X Users
  BY DEF TypeInv, TypeOK, Rows, tables, CountOwners, AddMember, DeleteMember,
         DeleteWorkspace, WriteTuple, ListTuples, KetoFails, DeleteTuple
<1>8. found' \in [Requests -> SUBSET (Ids \X Relations \X Users)]
  BY DEF TypeInv, TypeOK, Doomed, CountOwners, AddMember, DeleteMember,
         DeleteWorkspace, WriteTuple, ListTuples, KetoFails, DeleteTuple
<1> QED BY <1>4, <1>5, <1>6, <1>7, <1>8, <1>9 DEF TypeInv, TypeOK

LEMMA AnswerType ==
  ASSUME TypeInv, NEW r \in Requests, Answer(r)
  PROVE  TypeInv'
<1>1. NoRequest \in Calls  BY DEF NoRequest, Calls, RoleOrNone
<1>2. req' \in [Requests -> Calls] /\ pc' \in [Requests -> Labels]
  BY <1>1 DEF TypeInv, TypeOK, Answer, Goto, Labels, Calls
<1>3. Parameters'
  BY DEF TypeInv, TypeOK, Parameters, Answer, Goto, Open
<1> QED BY <1>2, <1>3 DEF TypeInv, TypeOK, Answer, tables, Calls

LEMMA TypeInvariant == Spec => []TypeInv
<1>1. TypeInv /\ [Next]_vars => TypeInv'
  <2> SUFFICES ASSUME TypeInv, [Next]_vars PROVE TypeInv'  OBVIOUS
  <2>1. CASE UNCHANGED vars
    BY <2>1 DEF vars, tables, TypeInv, TypeOK, Parameters, Open
  <2>2. CASE Next
    BY <2>2, FirstStepType, CheckType, LeaveType, StatementType, AnswerType DEF Next
  <2> QED BY <2>1, <2>2
<1> QED BY InitType, <1>1, PTL DEF Spec

\* Every variable of Workspaces keeps its type, whatever requests interleave.
THEOREM TypeCorrect == Spec => []TypeOK
<1>1. TypeInv => TypeOK  BY DEF TypeInv
<1> QED BY TypeInvariant, <1>1, PTL

-----------------------------------------------------------------------------
(* Access comes after a row *)

\* A request that is about to write a tuple has written its row, which may have been
\* deleted since.
AccessInv ==
  /\ AccessNeedsRow
  /\ \A r \in Requests : pc[r] = "grant" => Known(req[r].ws, req[r].who)

\* Known, of the next state.
KnownAfter(w, u) == role'[w][u] # "none" \/ <<w, u>> \in deleted'

\* No step forgets a row: it stays, or its deletion is recorded.
Remembered == \A w \in Ids, u \in Users : Known(w, u) => KnownAfter(w, u)

\* What a step must do to the rows, to the tuples and to the requests.
LEMMA AccessStep ==
  ASSUME TypeInv, AccessInv, Remembered, NEW r \in Requests,
         \A q \in Requests : q # r => pc'[q] = pc[q] /\ req'[q] = req[q],
         pc'[r] = "grant" => KnownAfter(req'[r].ws, req'[r].who),
         \A t \in tuples' : t \in tuples \/ KnownAfter(t[1], t[3])
  PROVE  AccessInv'
<1>1. AccessNeedsRow'
  <2> SUFFICES ASSUME NEW w \in Ids, NEW u \in Users, NEW rel \in Relations,
                      <<w, rel, u>> \in tuples'
               PROVE  KnownAfter(w, u)
    BY DEF AccessNeedsRow, HasAccess, Known, KnownAfter
  <2>1. CASE <<w, rel, u>> \in tuples
    BY <2>1 DEF AccessInv, AccessNeedsRow, HasAccess, Remembered
  <2>2. CASE KnownAfter(<<w, rel, u>>[1], <<w, rel, u>>[3])  BY <2>2
  <2> QED BY <2>1, <2>2
<1>2. ASSUME NEW q \in Requests, pc'[q] = "grant"
      PROVE  KnownAfter(req'[q].ws, req'[q].who)
  <2>1. CASE q = r  BY <1>2, <2>1
  <2>2. CASE q # r
    <3>1. pc[q] = "grant" /\ req'[q] = req[q]  BY <1>2, <2>2
    <3>2. req[q].ws \in Ids /\ req[q].who \in Users
      BY <3>1 DEF TypeInv, Parameters, Open, Answered
    <3> QED BY <3>1, <3>2 DEF AccessInv, Remembered
  <2> QED BY <2>1, <2>2
<1> QED BY <1>1, <1>2 DEF AccessInv, Known, KnownAfter

LEMMA AccessFirst ==
  ASSUME TypeInv, AccessInv, NEW r \in Requests, NEW u \in Users,
         Create(r, u) \/ Bootstrap(r, u)
  PROVE  AccessInv'
<1>1. PICK op \in AllOperations, w \in Ids :
        /\ \/ role' = [role EXCEPT ![w][u] = "owner"]
           \/ role' = [role EXCEPT ![w][u] = IF @ = "none" THEN "owner" ELSE @]
        /\ Ask(r, op, u, w, u, "owner") /\ Goto(r, "grant") /\ UNCHANGED <<deleted, tuples>>
  BY DEF Create, Bootstrap, Ids, AllOperations, TypeInv, TypeOK
<1>2. role \in [Ids -> [Users -> RoleOrNone]]  BY DEF TypeInv, TypeOK
<1>3. Remembered /\ role'[w][u] # "none"
  <2>1. CASE role' = [role EXCEPT ![w][u] = "owner"]
    BY <1>1, <1>2, <2>1 DEF Remembered, Known, KnownAfter
  <2>2. CASE role' = [role EXCEPT ![w][u] = IF @ = "none" THEN "owner" ELSE @]
    BY <1>1, <1>2, <2>2 DEF Remembered, Known, KnownAfter
  <2> QED BY <1>1, <2>1, <2>2
<1>4. /\ pc'[r] = "grant" /\ req'[r].ws = w /\ req'[r].who = u
      /\ \A q \in Requests : q # r => pc'[q] = pc[q] /\ req'[q] = req[q]
  BY <1>1 DEF Ask, Goto, TypeInv, TypeOK
<1>5. KnownAfter(req'[r].ws, req'[r].who)  BY <1>3, <1>4 DEF Known, KnownAfter
<1> QED BY <1>1, <1>3, <1>4, <1>5, AccessStep

\* Requests that check first write neither rows nor tuples and do not go to "grant".
LEMMA AccessCheck ==
  ASSUME TypeInv, AccessInv, NEW r \in Requests, UNCHANGED <<tables, tuples>>,
         \A q \in Requests : q # r => pc'[q] = pc[q] /\ req'[q] = req[q],
         pc'[r] # "grant"
  PROVE  AccessInv'
<1>1. Remembered  BY DEF Remembered, Known, KnownAfter, tables
<1> QED BY <1>1, AccessStep

LEMMA AccessDelete ==
  ASSUME TypeInv, AccessInv, NEW r \in Requests, DeleteMember(r) \/ DeleteWorkspace(r)
  PROVE  AccessInv'
<1>1. deleted' = deleted \cup (Rows \ Rows') /\ Goto(r, "list") /\ UNCHANGED <<req, tuples>>
  BY DEF DeleteMember, DeleteWorkspace
<1>2. Remembered
  <2> SUFFICES ASSUME NEW w \in Ids, NEW u \in Users, Known(w, u) PROVE KnownAfter(w, u)
    BY DEF Remembered
  <2>1. CASE role'[w][u] # "none"  BY <2>1 DEF Known, KnownAfter
  <2>2. CASE role'[w][u] = "none" /\ role[w][u] # "none"
    <3>1. <<w, u>> \in Rows /\ <<w, u>> \notin Rows'  BY <2>2 DEF Rows
    <3> QED BY <1>1, <3>1 DEF Known, KnownAfter
  <2>3. CASE <<w, u>> \in deleted  BY <1>1, <2>3 DEF Known, KnownAfter
  <2> QED BY <2>1, <2>2, <2>3 DEF Known, KnownAfter
<1>3. /\ pc'[r] # "grant"
      /\ \A q \in Requests : q # r => pc'[q] = pc[q] /\ req'[q] = req[q]
  BY <1>1 DEF Goto, TypeInv, TypeOK
<1> QED BY <1>1, <1>2, <1>3, AccessStep

LEMMA AccessAdd ==
  ASSUME TypeInv, AccessInv, NEW r \in Requests, AddMember(r)
  PROVE  AccessInv'
<1>1. role \in [Ids -> [Users -> RoleOrNone]] /\ pc \in [Requests -> Labels]
  BY DEF TypeInv, TypeOK
<1>2. req[r].ws \in Ids /\ req[r].who \in Users /\ req[r].role # "none"
  BY RelationOfRole DEF AddMember, TypeInv, Parameters, Open, Answered
<1>3. Remembered /\ (pc'[r] = "grant" => KnownAfter(req'[r].ws, req'[r].who))
  BY <1>1, <1>2 DEF AddMember, Remembered, Known, KnownAfter, Goto
<1>4. /\ UNCHANGED tuples
      /\ \A q \in Requests : q # r => pc'[q] = pc[q] /\ req'[q] = req[q]
  BY <1>1 DEF AddMember, Goto
<1> QED BY <1>3, <1>4, AccessStep

LEMMA AccessKeto ==
  ASSUME TypeInv, AccessInv, NEW r \in Requests, NEW ok \in BOOLEAN,
         WriteTuple(r) \/ ListTuples(r) \/ DeleteTuple(r, ok)
  PROVE  AccessInv'
<1>1. UNCHANGED <<tables, req>>  BY DEF WriteTuple, ListTuples, DeleteTuple
<1>2. Remembered  BY <1>1 DEF Remembered, Known, KnownAfter, tables
<1>3. /\ pc'[r] # "grant"
      /\ \A q \in Requests : q # r => pc'[q] = pc[q] /\ req'[q] = req[q]
  BY <1>1 DEF WriteTuple, ListTuples, DeleteTuple, Goto, TypeInv, TypeOK
<1>4. \A t \in tuples' : t \in tuples \/ KnownAfter(t[1], t[3])
  <2>1. CASE WriteTuple(r)
    <3>1. KnownAfter(req[r].ws, req[r].who)
      BY <1>2, <2>1 DEF WriteTuple, AccessInv, Remembered, TypeInv, Parameters, Open, Answered
    <3>2. \A t \in tuples' : t \in tuples \/ (t[1] = req[r].ws /\ t[3] = req[r].who)
      BY <2>1 DEF WriteTuple, Tuple
    <3> QED BY <3>1, <3>2
  <2>2. CASE ListTuples(r) \/ DeleteTuple(r, ok)
    <3>1. tuples' \subseteq tuples  BY <2>2 DEF ListTuples, DeleteTuple
    <3> QED BY <3>1
  <2> QED BY <2>1, <2>2
<1> QED BY <1>2, <1>3, <1>4, AccessStep

\* However requests interleave and whatever calls of Keto fail, a user who has a tuple
\* on a workspace has a row in its members, or had one that a request deleted: for any
\* number of users, workspaces and requests.
THEOREM AccessHasRow == Spec => []AccessNeedsRow
<1>1. Init => AccessInv
  BY DEF Init, AccessInv, AccessNeedsRow, HasAccess
<1>2. TypeInv /\ AccessInv /\ [Next]_vars => AccessInv'
  <2> SUFFICES ASSUME TypeInv, AccessInv, [Next]_vars PROVE AccessInv'  OBVIOUS
  <2>1. CASE UNCHANGED vars
    BY <2>1 DEF vars, tables, AccessInv, AccessNeedsRow, HasAccess, Known, KnownAfter
  <2>2. ASSUME NEW r \in Requests, NEW op \in {"add", "remove", "delete"},
               NEW by \in Users, NEW w \in Ids, NEW who \in Users, NEW ro \in Roles,
               Check(r, op, by, w, who, ro)
        PROVE  AccessInv'
    <3>1. /\ pc'[r] # "grant"
          /\ \A q \in Requests : q # r => pc'[q] = pc[q] /\ req'[q] = req[q]
      BY <2>2 DEF Check, Goto, Ask, TypeInv, TypeOK
    <3> QED BY <2>2, <3>1, AccessCheck DEF Check
  <2>3. ASSUME NEW r \in Requests, NEW u \in Users, NEW w \in Ids, ReadRole(r, u, w)
        PROVE  AccessInv'
    <3>1. /\ pc'[r] # "grant"
          /\ \A q \in Requests : q # r => pc'[q] = pc[q] /\ req'[q] = req[q]
      BY <2>3 DEF ReadRole, Goto, Ask, TypeInv, TypeOK
    <3> QED BY <2>3, <3>1, AccessCheck DEF ReadRole
  <2>4. ASSUME NEW r \in Requests, CountOwners(r) \/ KetoFails(r) \/ Answer(r)
        PROVE  AccessInv'
    <3>1. /\ pc'[r] # "grant"
          /\ \A q \in Requests : q # r => pc'[q] = pc[q] /\ req'[q] = req[q]
      BY <2>4 DEF CountOwners, KetoFails, Answer, Goto, TypeInv, TypeOK
    <3> QED BY <2>4, <3>1, AccessCheck DEF CountOwners, KetoFails, Answer
  <2>5. CASE Next
    BY <2>2, <2>3, <2>4, <2>5, AccessFirst, AccessAdd, AccessDelete, AccessKeto DEF Next
  <2> QED BY <2>1, <2>5
<1>3. AccessInv => AccessNeedsRow  BY DEF AccessInv
<1> QED BY TypeInvariant, <1>1, <1>2, <1>3, PTL DEF Spec

-----------------------------------------------------------------------------
(* A workspace without an owner *)

\* A step that gives nobody access to w and lets no request add anybody to it.
Freezes(w) ==
  /\ used \subseteq used'
  /\ \A t \in tuples' : t \in tuples \/ t[1] # w
  /\ \A q \in Requests : req'[q].ws = w => pc'[q] \notin {"add", "grant"}

LEMMA FreezesKeeps ==
  ASSUME NEW w \in FreshIds, Ownerless(w), Freezes(w)
  PROVE  Ownerless(w)' /\ \A u \in Users : HasAccess(w, u)' => HasAccess(w, u)
<1>1. ASSUME NEW u \in Users, NEW rel \in Relations, <<w, rel, u>> \in tuples'
      PROVE  <<w, rel, u>> \in tuples
  <2>1. <<w, rel, u>>[1] = w  OBVIOUS
  <2> QED BY <1>1, <2>1 DEF Freezes
<1>2. "owners" \in Relations /\ roleToRelation["owner"] = "owners"
  BY DEF Relations, roleToRelation
<1>3. \A u \in Users : ~MayManage(w, u)'
  BY <1>1, <1>2 DEF Ownerless, MayManage, KetoAllows, Holders, Tuple
<1> QED BY <1>1, <1>3 DEF Ownerless, Freezes, HasAccess

\* One request moves; it does not come to add anybody to w.
LEMMA OneMoves ==
  ASSUME TypeInv, NEW w \in FreshIds, Ownerless(w), NEW r \in Requests,
         \A q \in Requests : q # r => pc'[q] = pc[q] /\ req'[q] = req[q],
         req'[r].ws = w => pc'[r] \notin {"add", "grant"}
  PROVE  \A q \in Requests : req'[q].ws = w => pc'[q] \notin {"add", "grant"}
BY DEF Ownerless

\* A new workspace has a new id, and a default workspace that of its user.
LEMMA FrozenFirst ==
  ASSUME TypeInv, NEW w \in FreshIds, Ownerless(w), NEW r \in Requests, NEW u \in Users,
         Create(r, u) \/ Bootstrap(r, u)
  PROVE  Freezes(w)
<1>1. PICK op \in AllOperations, v \in Ids \ {w} : Ask(r, op, u, v, u, "owner")
  BY ConstantsAssumption DEF Create, Bootstrap, Ids, AllOperations, Ownerless, TypeInv, TypeOK
<1>2. /\ req'[r].ws # w
      /\ \A q \in Requests : q # r => pc'[q] = pc[q] /\ req'[q] = req[q]
  BY <1>1 DEF Create, Bootstrap, Ask, Goto, TypeInv, TypeOK
<1>3. used \subseteq used' /\ UNCHANGED tuples  BY DEF Create, Bootstrap
<1> QED BY <1>2, <1>3, OneMoves DEF Freezes

\* Nobody may manage w, so nobody's check to add passes.
LEMMA FrozenCheck ==
  ASSUME TypeInv, NEW w \in FreshIds, Ownerless(w), NEW r \in Requests,
         NEW op \in {"add", "remove", "delete"}, NEW by \in Users, NEW v \in Ids,
         NEW who \in Users, NEW ro \in Roles, Check(r, op, by, v, who, ro)
  PROVE  Freezes(w)
<1>1. /\ req'[r].ws = w => pc'[r] \notin {"add", "grant"}
      /\ \A q \in Requests : q # r => pc'[q] = pc[q] /\ req'[q] = req[q]
  <2>1. CASE Ask(r, op, by, v, who, ro) /\ Goto(r, op) /\ MayManage(v, by)
    <3>1. v # w  BY <2>1 DEF Ownerless
    <3> QED BY <2>1, <3>1 DEF Ask, Goto, TypeInv, TypeOK
  <2>2. CASE Goto(r, "denied") /\ UNCHANGED req
    BY <2>2 DEF Goto, TypeInv, TypeOK
  <2> QED BY <2>1, <2>2 DEF Check
<1>2. UNCHANGED <<used, tuples>>  BY DEF Check
<1> QED BY <1>1, <1>2, OneMoves DEF Freezes

LEMMA FrozenStatement ==
  ASSUME TypeInv, NEW w \in FreshIds, Ownerless(w), NEW r \in Requests, NEW ok \in BOOLEAN,
         \/ \E u \in Users, v \in Ids : ReadRole(r, u, v)
         \/ CountOwners(r) \/ AddMember(r) \/ DeleteMember(r) \/ DeleteWorkspace(r)
         \/ WriteTuple(r) \/ ListTuples(r) \/ KetoFails(r) \/ DeleteTuple(r, ok) \/ Answer(r)
  PROVE  Freezes(w)
<1>1. /\ req'[r].ws = w => pc'[r] \notin {"add", "grant"}
      /\ \A q \in Requests : q # r => pc'[q] = pc[q] /\ req'[q] = req[q]
  <2>1. CASE AddMember(r)
    BY <2>1 DEF AddMember, Goto, Ownerless, TypeInv, TypeOK
  <2>2. ASSUME NEW u \in Users, NEW v \in Ids, ReadRole(r, u, v)
        PROVE  /\ pc'[r] \notin {"add", "grant"}
               /\ \A q \in Requests : q # r => pc'[q] = pc[q] /\ req'[q] = req[q]
    BY <2>2 DEF ReadRole, Ask, Goto, TypeInv, TypeOK
  <2>3. CASE \/ CountOwners(r) \/ DeleteMember(r) \/ DeleteWorkspace(r) \/ WriteTuple(r)
             \/ ListTuples(r) \/ KetoFails(r) \/ DeleteTuple(r, ok) \/ Answer(r)
    BY <2>3 DEF CountOwners, DeleteMember, DeleteWorkspace, WriteTuple, ListTuples,
       KetoFails, DeleteTuple, Answer, Goto, TypeInv, TypeOK
  <2> QED BY <2>1, <2>2, <2>3
<1>2. \A t \in tuples' : t \in tuples \/ t[1] # w
  <2>1. CASE WriteTuple(r)
    <3>1. req[r].ws # w  BY <2>1 DEF WriteTuple, Ownerless
    <3> QED BY <2>1, <3>1 DEF WriteTuple, Tuple
  <2>2. CASE tuples' \subseteq tuples  BY <2>2
  <2> QED
    BY <2>1, <2>2 DEF ReadRole, CountOwners, AddMember, DeleteMember, DeleteWorkspace,
       ListTuples, KetoFails, DeleteTuple, Answer
<1>3. UNCHANGED used
  BY DEF ReadRole, CountOwners, AddMember, DeleteMember, DeleteWorkspace, WriteTuple,
         ListTuples, KetoFails, DeleteTuple, Answer
<1> QED BY <1>1, <1>2, <1>3, OneMoves DEF Freezes

\* A workspace that has lost its owners, and to which no addition is under way, gives
\* access to nobody who has none, ever again: whatever number of users and requests try.
THEOREM OwnerlessStaysFrozen == Spec => OwnerlessIsFrozen
<1>1. TypeInv /\ [Next]_vars =>
        [\A w \in FreshIds : Ownerless(w) =>
           /\ Ownerless(w)'
           /\ \A u \in Users : HasAccess(w, u)' => HasAccess(w, u)]_vars
  <2> SUFFICES ASSUME TypeInv, Next, NEW w \in FreshIds, Ownerless(w)
               PROVE  Ownerless(w)' /\ \A u \in Users : HasAccess(w, u)' => HasAccess(w, u)
    OBVIOUS
  <2>1. Freezes(w)
    BY FrozenFirst, FrozenCheck, FrozenStatement DEF Next
  <2> QED BY <2>1, FreezesKeeps
<1> QED BY TypeInvariant, <1>1, PTL DEF Spec, OwnerlessIsFrozen

-----------------------------------------------------------------------------
(* One request at a time *)

\* The tuples of a workspace, and those it could have.
TuplesAt(w) == {t \in tuples : t[1] = w}
TuplesOf(w) == {w} \X Relations \X Users

\* One page of ListTuples holds every tuple of a workspace, as long as this is so.
PagesHold == \A w \in Ids : Cardinality(TuplesAt(w)) <= PageSize

LEMMA ThreeEach ==
  ASSUME NEW w
  PROVE  IsFiniteSet(TuplesOf(w)) /\ Cardinality(TuplesOf(w)) = 3 * Cardinality(Users)
<1>1. IsFiniteSet(Relations) /\ Cardinality(Relations) = 3
  <2>1. IsFiniteSet({"owners"}) /\ Cardinality({"owners"}) = 1
    BY FS_Singleton
  <2>2. /\ IsFiniteSet({"owners"} \cup {"members"})
        /\ Cardinality({"owners"} \cup {"members"}) = 2
    BY <2>1, FS_AddElement
  <2>3. /\ IsFiniteSet(({"owners"} \cup {"members"}) \cup {"viewers"})
        /\ Cardinality(({"owners"} \cup {"members"}) \cup {"viewers"}) = 3
    BY <2>2, FS_AddElement
  <2>4. ({"owners"} \cup {"members"}) \cup {"viewers"} = Relations
    BY DEF Relations
  <2> QED BY <2>3, <2>4
<1>2. /\ IsFiniteSet(Relations \X Users) /\ Cardinality(Users) \in Nat
      /\ Cardinality(Relations \X Users) = 3 * Cardinality(Users)
  BY <1>1, UsersAreFinite, FS_Product, FS_CardinalityType
<1> DEFINE f == [x \in Relations \X Users |-> <<w, x[1], x[2]>>]
<1>3. ExistsBijection(Relations \X Users, TuplesOf(w))
  <2>1. f \in [Relations \X Users -> TuplesOf(w)]
    BY DEF TuplesOf
  <2>2. \A x, y \in Relations \X Users : f[x] = f[y] => x = y
    OBVIOUS
  <2>3. \A t \in TuplesOf(w) : \E x \in Relations \X Users : f[x] = t
    <3> TAKE t \in TuplesOf(w)
    <3>1. <<t[2], t[3]>> \in Relations \X Users /\ f[<<t[2], t[3]>>] = t
      BY DEF TuplesOf
    <3> QED BY <3>1
  <2> HIDE DEF f
  <2>4. f \in Injection(Relations \X Users, TuplesOf(w))
    BY <2>1, <2>2 DEF Injection, IsInjective
  <2>5. f \in Surjection(Relations \X Users, TuplesOf(w))
    BY <2>1, <2>3 DEF Surjection
  <2> QED BY <2>4, <2>5 DEF ExistsBijection, Bijection
<1> QED BY <1>2, <1>3, FS_Bijection

LEMMA TuplesAreFinite ==
  ASSUME TypeInv, NEW w
  PROVE  /\ IsFiniteSet(TuplesAt(w)) /\ Cardinality(TuplesAt(w)) \in Nat
         /\ Cardinality(TuplesAt(w)) <= 3 * Cardinality(Users)
<1>1. TuplesAt(w) \subseteq TuplesOf(w)
  BY DEF TuplesAt, TuplesOf, TypeInv, TypeOK
<1>2. /\ IsFiniteSet(TuplesAt(w)) /\ Cardinality(TuplesAt(w)) <= Cardinality(TuplesOf(w))
  BY <1>1, ThreeEach, FS_Subset
<1> QED BY <1>2, ThreeEach, FS_CardinalityType

\* Where it holds them all, what it gives of some of them is all.
LEMMA PageIsWhole ==
  ASSUME TypeInv, PagesHold, NEW w \in Ids, NEW some \in SUBSET TuplesAt(w),
         NEW page \in SUBSET some, Cardinality(page) < PageSize => page = some
  PROVE  page = some
<1>1. /\ IsFiniteSet(some) /\ Cardinality(some) <= Cardinality(TuplesAt(w))
  BY TuplesAreFinite, FS_Subset
<1>2. /\ IsFiniteSet(page) /\ Cardinality(page) <= Cardinality(some)
      /\ Cardinality(page) = Cardinality(some) => page = some
  BY <1>1, FS_Subset
<1>3. Cardinality(page) \in Nat /\ Cardinality(some) \in Nat /\ Cardinality(TuplesAt(w)) \in Nat
  BY <1>1, <1>2, TuplesAreFinite, FS_CardinalityType
<1>4. Cardinality(TuplesAt(w)) <= PageSize  BY DEF PagesHold
<1> QED BY <1>1, <1>2, <1>3, <1>4, ConstantsAssumption

\* The users that a request is about.
Concerns(r, u) == u = req[r].who \/ req[r].op = "delete"

\* What a request has done of its work at each step: the row before the tuples, and every
\* tuple that is still there is among those it will delete, unless one deletion failed.
Halfway(r) ==
  /\ pc[r] \in {"count", "add", "remove", "grant"} => req[r].op # "delete"
  /\ pc[r] = "delete" => req[r].op = "delete"
  /\ pc[r] = "grant" =>
       /\ role[req[r].ws][req[r].who] # "none"
       /\ req[r].role \in {"owner", role[req[r].ws][req[r].who]}
  /\ pc[r] \in {"list", "sweep", "sweepFailed"} =>
       \A u \in Users : Concerns(r, u) => role[req[r].ws][u] = "none"
  /\ pc[r] = "sweep" => Doomed(r) \subseteq found[r]

HalfwayInv == \A r \in Requests : Halfway(r)

\* The answer "ok" of r is right.
RightAnswer(r) ==
  pc[r] # "ok" /\ pc'[r] = "ok" =>
    \A u \in Users : u = req'[r].who \/ req'[r].op = "delete" => Granted(req[r].ws, u)'

\* Nobody whom r concerns has access when none of the tuples it clears is left.
LEMMA NothingDoomed ==
  ASSUME NEW r \in Requests, NEW u \in Users, Concerns(r, u)', Doomed(r)' = {}
  PROVE  ~HasAccess(req[r].ws, u)' \/ req' # req
<1> SUFFICES ASSUME req' = req, NEW rel \in Relations, <<req[r].ws, rel, u>> \in tuples'
             PROVE  FALSE
  BY DEF HasAccess
<1>1. <<req[r].ws, rel, u>>[1] = req[r].ws /\ <<req[r].ws, rel, u>>[3] = u  OBVIOUS
<1>2. <<req[r].ws, rel, u>> \in Doomed(r)'  BY <1>1 DEF Doomed, Concerns
<1> QED BY <1>2

\* Requests begin.
LEMMA BeginHalfway ==
  ASSUME TypeInv, HalfwayInv, NEW r \in Requests,
         \/ \E u \in Users : Create(r, u) \/ Bootstrap(r, u)
         \/ \E op \in {"add", "remove", "delete"}, by, who \in Users, w \in Ids, ro \in Roles :
              Check(r, op, by, w, who, ro)
         \/ \E u \in Users, w \in Ids : ReadRole(r, u, w)
  PROVE  Halfway(r)' /\ RightAnswer(r)
<1>1. ASSUME NEW u \in Users, Create(r, u) \/ Bootstrap(r, u)
      PROVE  Halfway(r)' /\ RightAnswer(r)
  <2>1. /\ pc'[r] = "grant" /\ req'[r].op # "delete" /\ req'[r].who = u /\ req'[r].ws \in Ids
        /\ role'[req'[r].ws][u] # "none" /\ req'[r].role = "owner"
    BY <1>1 DEF Create, Bootstrap, Goto, Ask, TypeInv, TypeOK, Ids
  <2> QED BY <2>1 DEF Halfway, RightAnswer
<1>2. ASSUME NEW op \in {"add", "remove", "delete"}, NEW by \in Users, NEW who \in Users,
             NEW w \in Ids, NEW ro \in Roles, Check(r, op, by, w, who, ro)
      PROVE  Halfway(r)' /\ RightAnswer(r)
  <2>1. \/ Ask(r, op, by, w, who, ro) /\ Goto(r, op)
        \/ Goto(r, "denied")
    BY <1>2 DEF Check
  <2>2. pc'[r] = "denied" \/ (pc'[r] = op /\ req'[r].op = op)
    BY <2>1 DEF Goto, Ask, TypeInv, TypeOK
  <2> QED BY <2>2 DEF Halfway, RightAnswer
<1>3. ASSUME NEW u \in Users, NEW w \in Ids, ReadRole(r, u, w)
      PROVE  Halfway(r)' /\ RightAnswer(r)
  <2>1. pc'[r] \in {"denied", "count", "remove"} /\ req'[r].op = "leave"
    BY <1>3 DEF ReadRole, Goto, Ask, TypeInv, TypeOK
  <2> QED BY <2>1 DEF Halfway, RightAnswer
<1> QED BY <1>1, <1>2, <1>3

\* They write to Postgres.
LEMMA RowHalfway ==
  ASSUME TypeInv, HalfwayInv, NEW r \in Requests,
         CountOwners(r) \/ AddMember(r) \/ DeleteMember(r) \/ DeleteWorkspace(r)
  PROVE  Halfway(r)' /\ RightAnswer(r)
<1>1. /\ req[r].ws \in Ids /\ req[r].who \in Users /\ req' = req
      /\ pc[r] = "add" => req[r].role \in Roles
  BY DEF TypeInv, Parameters, Open, Answered, CountOwners, AddMember, DeleteMember,
         DeleteWorkspace
<1>2. CASE CountOwners(r)
  BY <1>2 DEF CountOwners, Goto, TypeInv, TypeOK, HalfwayInv, Halfway, RightAnswer
<1>3. CASE AddMember(r)
  <2>1. \/ pc'[r] = "error"
        \/ /\ pc'[r] = "grant" /\ role'[req[r].ws][req[r].who] # "none"
           /\ role'[req[r].ws][req[r].who] = req[r].role
    <3>1. CASE role' = [role EXCEPT ![req[r].ws][req[r].who] = req[r].role] /\ Goto(r, "grant")
      BY <1>1, <1>3, <3>1, RelationOfRole DEF AddMember, Goto, TypeInv, TypeOK
    <3>2. CASE Goto(r, "error")
      BY <3>2 DEF Goto, TypeInv, TypeOK
    <3> QED BY <1>3, <3>1, <3>2 DEF AddMember
  <2>2. req[r].op # "delete"  BY <1>3 DEF AddMember, HalfwayInv, Halfway
  <2> QED BY <1>1, <2>1, <2>2 DEF Halfway, RightAnswer
<1>4. CASE DeleteMember(r)
  <2>1. pc'[r] = "list" /\ role'[req[r].ws][req[r].who] = "none"
    BY <1>1, <1>4 DEF DeleteMember, Goto, TypeInv, TypeOK
  <2>2. req[r].op # "delete"  BY <1>4 DEF DeleteMember, HalfwayInv, Halfway
  <2> QED BY <1>1, <2>1, <2>2 DEF Halfway, RightAnswer, Concerns
<1>5. CASE DeleteWorkspace(r)
  <2>1. pc'[r] = "list" /\ \A u \in Users : role'[req[r].ws][u] = "none"
    BY <1>1, <1>5 DEF DeleteWorkspace, Goto, TypeInv, TypeOK
  <2> QED BY <1>1, <2>1 DEF Halfway, RightAnswer
<1> QED BY <1>2, <1>3, <1>4, <1>5

\* They write to Keto.
LEMMA TupleHalfway ==
  ASSUME TypeInv, HalfwayInv, NEW r \in Requests, PagesHold,
         WriteTuple(r) \/ ListTuples(r) \/ \E ok \in BOOLEAN : DeleteTuple(r, ok)
  PROVE  Halfway(r)' /\ RightAnswer(r)
<1>1. /\ req[r].ws \in Ids /\ req[r].who \in Users /\ UNCHANGED <<req, role>>
      /\ pc[r] = "grant" => req[r].role \in Roles
  BY DEF TypeInv, Parameters, Open, Answered, WriteTuple, ListTuples, DeleteTuple, tables
<1>2. CASE WriteTuple(r)
  <2>1. /\ pc'[r] = "ok" /\ req[r].op # "delete" /\ role[req[r].ws][req[r].who] # "none"
        /\ req[r].role \in {"owner", role[req[r].ws][req[r].who]}
        /\ Tuple(req[r].ws, req[r].who, req[r].role) \in tuples'
    BY <1>2 DEF WriteTuple, Goto, TypeInv, TypeOK, HalfwayInv, Halfway
  <2>2. \A perm \in Permissions : role[req[r].ws][req[r].who] \in Holders(perm) =>
          req[r].role \in Holders(perm)
    BY <2>1 DEF Permissions, Holders
  <2>3. Granted(req[r].ws, req[r].who)'
    BY <1>1, <2>1, <2>2 DEF Granted, KetoAllows, Tuple
  <2> QED BY <1>1, <2>1, <2>3 DEF Halfway, RightAnswer
<1>3. \A u \in Users : pc[r] # "grant" /\ Concerns(r, u) =>
        Concerns(r, u)' /\ role'[req[r].ws][u] = "none"
  BY <1>1 DEF HalfwayInv, Halfway, Concerns, WriteTuple, ListTuples, DeleteTuple
<1>4. ASSUME pc[r] # "grant", Doomed(r)' = {}
      PROVE  RightAnswer(r)
  <2>1. \A u \in Users : Concerns(r, u)' => ~HasAccess(req[r].ws, u)'
    BY <1>1, <1>4, NothingDoomed
  <2>2. \A u \in Users : u = req'[r].who \/ req'[r].op = "delete" =>
          Concerns(r, u) /\ Concerns(r, u)'
    BY <1>1 DEF Concerns
  <2>3. \A perm \in Permissions : "none" \notin Holders(perm)
    BY DEF Permissions, Holders
  <2> QED BY <1>3, <1>4, <2>1, <2>2, <2>3, <1>1 DEF RightAnswer, Granted
<1>5. CASE ListTuples(r)
  <2>1. Doomed(r) \subseteq TuplesAt(req[r].ws)
    BY DEF Doomed, TuplesAt
  <2>2. PICK page \in SUBSET Doomed(r) :
          /\ Cardinality(page) < PageSize => page = Doomed(r)
          /\ found' = [found EXCEPT ![r] = page]
          /\ Goto(r, IF page = {} THEN "ok" ELSE "sweep")
    BY <1>5 DEF ListTuples
  <2>3. page = Doomed(r)  BY <1>1, <2>1, <2>2, PageIsWhole
  <2>4. Doomed(r)' = Doomed(r) /\ pc[r] = "list"
    BY <1>5 DEF ListTuples, Doomed
  <2>5. found'[r] = Doomed(r) /\ pc'[r] = IF Doomed(r) = {} THEN "ok" ELSE "sweep"
    BY <2>2, <2>3 DEF Goto, TypeInv, TypeOK
  <2>6. Halfway(r)'
    BY <1>1, <1>3, <2>4, <2>5 DEF Halfway, Concerns
  <2> QED BY <1>4, <2>4, <2>5, <2>6 DEF RightAnswer
<1>6. ASSUME NEW ok \in BOOLEAN, DeleteTuple(r, ok)
      PROVE  Halfway(r)' /\ RightAnswer(r)
  <2>1. PICK t \in found[r] :
          /\ tuples' = IF ok THEN tuples \ {t} ELSE tuples
          /\ found'[r] = found[r] \ {t}
          /\ pc'[r] = IF found[r] = {t}
                      THEN IF ~ok \/ pc[r] = "sweepFailed" THEN "error" ELSE "ok"
                      ELSE IF ~ok \/ pc[r] = "sweepFailed" THEN "sweepFailed" ELSE "sweep"
    BY <1>6 DEF DeleteTuple, Goto, TypeInv, TypeOK
  <2>2. pc[r] \in {"sweep", "sweepFailed"}  BY <1>6 DEF DeleteTuple
  <2>3. ok /\ pc[r] = "sweep" => Doomed(r)' \subseteq found[r] \ {t}
    BY <1>1, <2>1 DEF HalfwayInv, Halfway, Doomed
  <2>4. pc'[r] = "ok" => Doomed(r)' = {}
    BY <2>1, <2>2, <2>3
  <2>5. Halfway(r)'
    <3>1. pc'[r] = "sweep" => Doomed(r)' \subseteq found'[r]
      BY <2>1, <2>2, <2>3
    <3>2. pc'[r] \in {"ok", "error", "sweep", "sweepFailed"} /\ pc[r] # "grant"
      BY <2>1, <2>2
    <3> QED BY <1>1, <1>3, <3>1, <3>2 DEF Halfway, Concerns
  <2> QED BY <1>4, <2>2, <2>4, <2>5 DEF RightAnswer
<1> QED BY <1>2, <1>5, <1>6

\* One request at a time, and no workspace with more tuples than a page: after an "ok"
\* everybody it was about has every permission of the role in the row, and none without
\* a row, whatever requests failed before.  (Nobody is promised not to have more than the
\* row says: a change of role leaves the old relation.)
THEOREM OkGrantsRow ==
  ASSUME \A q, r \in Requests : q = r
  PROVE  Spec /\ []PagesHold => OkMeansGranted
<1>1. Init => HalfwayInv
  BY DEF Init, HalfwayInv, Halfway
<1>2. TypeInv /\ PagesHold /\ HalfwayInv /\ [Next]_vars =>
        HalfwayInv' /\ [\A r \in Requests : RightAnswer(r)]_vars
  <2> SUFFICES ASSUME TypeInv, PagesHold, HalfwayInv, [Next]_vars
               PROVE  HalfwayInv' /\ [\A r \in Requests : RightAnswer(r)]_vars
    OBVIOUS
  <2>1. CASE UNCHANGED vars
    BY <2>1 DEF vars, tables, HalfwayInv, Halfway, Doomed, Concerns
  <2>2. ASSUME NEW r \in Requests, KetoFails(r) \/ Answer(r)
        PROVE  Halfway(r)' /\ RightAnswer(r)
    BY <2>2 DEF KetoFails, Answer, Goto, TypeInv, TypeOK, Halfway, RightAnswer
  <2>3. CASE Next
    <3>1. PICK r \in Requests : Halfway(r)' /\ RightAnswer(r)
      BY <2>2, <2>3, BeginHalfway, RowHalfway, TupleHalfway DEF Next
    <3> QED BY <3>1 DEF HalfwayInv
  <2> QED BY <2>1, <2>3
<1> QED BY TypeInvariant, <1>1, <1>2, PTL DEF Spec, OkMeansGranted, RightAnswer

\* The same without the assumption on pages, where there are so few users that a page
\* holds every tuple a workspace can have.
THEOREM OkWithFewUsers ==
  ASSUME \A q, r \in Requests : q = r, 3 * Cardinality(Users) <= PageSize
  PROVE  Spec => OkMeansGranted
<1>1. TypeInv => PagesHold
  <2> SUFFICES ASSUME TypeInv, NEW w \in Ids PROVE Cardinality(TuplesAt(w)) <= PageSize
    BY DEF PagesHold
  <2>1. Cardinality(Users) \in Nat  BY UsersAreFinite, FS_CardinalityType
  <2> QED BY <2>1, TuplesAreFinite, ConstantsAssumption
<1>2. Spec /\ []PagesHold => OkMeansGranted  BY OkGrantsRow
<1> QED BY TypeInvariant, <1>1, <1>2, PTL

=============================================================================
