----------------------------- MODULE Workspaces -----------------------------
(***************************************************************************)
(* Workspaces and their members, workspace_handlers.go over authz/client.go. *)
(* Every request writes two stores with no common transaction: the tables  *)
(* workspaces and workspace_members in Postgres, and the relation tuples of *)
(* Keto, which decide who may do what.  A step is one statement (or one    *)
(* transaction) on one store; requests interleave between steps.           *)
(***************************************************************************)
EXTENDS Naturals, FiniteSets

CONSTANTS
  Users,       \* also the ids of their default workspaces, ws_default_<user>
  FreshIds,    \* ids that createWorkspace may generate
  Requests,    \* HTTP requests that may be under way together
  Nobody,      \* no user, no workspace: no request
  Roles,       \* roles members are given, among owner, member and viewer
  Operations,  \* what requests ask for
  PageSize,    \* tuples on the one page of Keto that ListTuples reads
  KetoFaults   \* may a call of Keto fail, or the server die before it

Ids == Users \cup FreshIds

AllOperations == {"create", "bootstrap", "add", "remove", "leave", "delete"}

roleToRelation == [owner |-> "owners", member |-> "members", viewer |-> "viewers"]

Relations == {"owners", "members", "viewers"}

ASSUME ConstantsAssumption ==
  /\ Users \cap FreshIds = {}
  /\ Nobody \notin Ids
  /\ "owner" \in Roles /\ Roles \subseteq DOMAIN roleToRelation
  /\ Operations \subseteq AllOperations
  /\ PageSize \in Nat
  /\ KetoFaults \in BOOLEAN

ASSUME UsersAreFinite == IsFiniteSet(Users)

VARIABLES
  workspaces,  \* the table workspaces: ids of its rows
  role,        \* the table workspace_members, "none" where there is no row
  deleted,     \* history: the <<workspace, user>> whose row a request has deleted
  tuples,      \* Keto's tuples <<workspace, relation, user>>
  used,        \* ids createWorkspace has generated
  pc,          \* the next step of each request
  req,         \* its parameters
  found        \* tuples its clean-up has listed and not yet deleted

tables == <<workspaces, role, deleted>>
vars == <<tables, tuples, used, pc, req, found>>

-----------------------------------------------------------------------------
Answered == {"ok", "denied", "error"}

Open(r) == pc[r] \notin Answered \cup {"idle"}

\* A request may be sent.
Ready(r, op) == pc[r] = "idle" /\ op \in Operations

Tuple(w, u, ro) == <<w, roleToRelation[ro], u>>

\* The roles that have a permission.
Holders(perm) == CASE perm = "manage" -> {"owner"}
                   [] perm = "write"  -> {"owner", "member"}
                   [] perm = "view"   -> {"owner", "member", "viewer"}

\* CheckWorkspace: what Keto answers.  main.go gives the handlers a client only when
\* Keto is configured; without one they answer 503 and change nothing.
KetoAllows(w, u, perm) == \E ro \in Holders(perm) : Tuple(w, u, ro) \in tuples

MayManage(w, u) == KetoAllows(w, u, "manage")

\* What a clean-up asks Keto for: every tuple of the workspace when it is deleted,
\* those of one subject otherwise.
Doomed(r) ==
  {t \in tuples : t[1] = req[r].ws /\ (req[r].op = "delete" \/ t[3] = req[r].who)}

Permissions == {"manage", "write", "view"}

Goto(r, label) == pc' = [pc EXCEPT ![r] = label]

Ask(r, op, by, ws, who, ro) ==
  req' = [req EXCEPT ![r] = [op |-> op, by |-> by, ws |-> ws, who |-> who, role |-> ro]]

Rows == {m \in Ids \X Users : role[m[1]][m[2]] # "none"}

NoRequest == [op |-> "none", by |-> Nobody, ws |-> Nobody, who |-> Nobody, role |-> "none"]

Init ==
  /\ workspaces = {}
  /\ role = [w \in Ids |-> [u \in Users |-> "none"]]
  /\ deleted = {}
  /\ tuples = {}
  /\ used = {}
  /\ pc = [r \in Requests |-> "idle"]
  /\ req = [r \in Requests |-> NoRequest]
  /\ found = [r \in Requests |-> {}]

-----------------------------------------------------------------------------
(* Requests that begin with a transaction *)

\* createWorkspace: the workspace and its owner in one transaction, under an id
\* not used before.
Create(r, u) ==
  /\ Ready(r, "create")
  /\ \E w \in FreshIds \ used :
       /\ workspaces' = workspaces \cup {w}
       /\ role' = [role EXCEPT ![w][u] = "owner"]
       /\ used' = used \cup {w}
       /\ Ask(r, "create", u, w, u, "owner")
  /\ Goto(r, "grant")
  /\ UNCHANGED <<deleted, tuples, found>>

\* Mutant: the relation is written for the role.
BootstrapRelation(r, u) ==
  /\ Ready(r, "bootstrap")
  /\ workspaces' = workspaces \cup {u}
  /\ role' = [role EXCEPT ![u][u] = IF @ = "none" THEN "owners" ELSE @]
  /\ Ask(r, "bootstrap", u, u, u, "owner")
  /\ Goto(r, "grant")
  /\ UNCHANGED <<deleted, tuples, used, found>>

\* internalWorkspaceBootstrapHandler: the same for the id of the user, where rows
\* that exist are left as they are.
Bootstrap(r, u) ==
  /\ Ready(r, "bootstrap")
  /\ workspaces' = workspaces \cup {u}
  /\ role' = [role EXCEPT ![u][u] = IF @ = "none" THEN "owner" ELSE @]
  /\ Ask(r, "bootstrap", u, u, u, "owner")
  /\ Goto(r, "grant")
  /\ UNCHANGED <<deleted, tuples, used, found>>

-----------------------------------------------------------------------------
(* Requests that begin with a check *)

\* Mutant: whoever may write may manage.
CheckWrite(r, op, by, w, who, ro) ==
  /\ Ready(r, op) /\ op \in {"add", "remove", "delete"}
  /\ IF KetoAllows(w, by, "write") /\ ~(op = "remove" /\ who = by)
     THEN Ask(r, op, by, w, who, ro) /\ Goto(r, op)
     ELSE Goto(r, "denied") /\ UNCHANGED req
  /\ UNCHANGED <<tables, tuples, used, found>>

\* The handlers of members, of members/remove and of DELETE ask Keto whether the
\* caller may manage the workspace.  An owner may not remove himself.
Check(r, op, by, w, who, ro) ==
  /\ Ready(r, op) /\ op \in {"add", "remove", "delete"}
  /\ IF MayManage(w, by) /\ ~(op = "remove" /\ who = by)
     THEN Ask(r, op, by, w, who, ro) /\ Goto(r, op)
     ELSE Goto(r, "denied") /\ UNCHANGED req
  /\ UNCHANGED <<tables, tuples, used, found>>

\* workspaceLeaveHandler reads the caller's role, in Postgres.
ReadRole(r, u, w) ==
  /\ Ready(r, "leave")
  /\ Ask(r, "leave", u, w, u, role[w][u])
  /\ Goto(r, CASE role[w][u] = "none"  -> "denied"
               [] role[w][u] = "owner" -> "count"
               [] OTHER                -> "remove")
  /\ UNCHANGED <<tables, tuples, used, found>>

\* An owner leaves only when there is another.
CountOwners(r) ==
  /\ pc[r] = "count"
  /\ LET owners == {u \in Users : role[req[r].ws][u] = "owner"}
     IN Goto(r, IF Cardinality(owners) <= 1 THEN "denied" ELSE "remove")
  /\ UNCHANGED <<tables, tuples, used, req, found>>

-----------------------------------------------------------------------------
(* The write to Postgres *)

\* Mutant: a role is updated, and no row inserted.
UpdateMember(r) ==
  /\ pc[r] = "add"
  /\ role' = [role EXCEPT ![req[r].ws][req[r].who] = IF @ = "none" THEN @ ELSE req[r].role]
  /\ Goto(r, "grant")
  /\ UNCHANGED <<workspaces, deleted, tuples, used, req, found>>

\* The upsert of a member.  Its foreign key fails if the workspace is gone.
AddMember(r) ==
  /\ pc[r] = "add"
  /\ IF req[r].ws \in workspaces
     THEN /\ role' = [role EXCEPT ![req[r].ws][req[r].who] = req[r].role]
          /\ Goto(r, "grant")
     ELSE /\ Goto(r, "error")
          /\ UNCHANGED role
  /\ UNCHANGED <<workspaces, deleted, tuples, used, req, found>>

\* The row of a member who leaves or is removed.
DeleteMember(r) ==
  /\ pc[r] = "remove"
  /\ role' = [role EXCEPT ![req[r].ws][req[r].who] = "none"]
  /\ deleted' = deleted \cup (Rows \ Rows')
  /\ Goto(r, "list")
  /\ UNCHANGED <<workspaces, tuples, used, req, found>>

\* The row of the workspace; the members go with it.
DeleteWorkspace(r) ==
  /\ pc[r] = "delete"
  /\ workspaces' = workspaces \ {req[r].ws}
  /\ role' = [role EXCEPT ![req[r].ws] = [u \in Users |-> "none"]]
  /\ deleted' = deleted \cup (Rows \ Rows')
  /\ Goto(r, "list")
  /\ UNCHANGED <<tuples, used, req, found>>

-----------------------------------------------------------------------------
(* The writes to Keto *)

\* WriteTuple, which may be repeated.
WriteTuple(r) ==
  /\ pc[r] = "grant"
  /\ tuples' = tuples \cup {Tuple(req[r].ws, req[r].who, req[r].role)}
  /\ Goto(r, "ok")
  /\ UNCHANGED <<tables, used, req, found>>

\* ListTuples, of deleteSubjectTuples and of deleteAllTuplesForObject: one page.
ListTuples(r) ==
  /\ pc[r] = "list"
  /\ \E page \in SUBSET Doomed(r) :
       /\ Cardinality(page) <= PageSize
       /\ Cardinality(page) < PageSize => page = Doomed(r)
       /\ found' = [found EXCEPT ![r] = page]
       /\ Goto(r, IF page = {} THEN "ok" ELSE "sweep")
  /\ UNCHANGED <<tables, tuples, used, req>>

\* Mutant: only the failure of the last deletion is noticed.
DeleteTupleForgets(r, ok) ==
  /\ pc[r] = "sweep"
  /\ ok \/ KetoFaults
  /\ \E t \in found[r] :
       /\ tuples' = IF ok THEN tuples \ {t} ELSE tuples
       /\ found' = [found EXCEPT ![r] = @ \ {t}]
       /\ Goto(r, IF found[r] # {t} THEN "sweep" ELSE IF ok THEN "ok" ELSE "error")
  /\ UNCHANGED <<tables, used, req>>

\* DeleteTuple, one by one.  A failure is remembered while the others go on.
DeleteTuple(r, ok) ==
  /\ pc[r] \in {"sweep", "sweepFailed"}
  /\ ok \/ KetoFaults
  /\ \E t \in found[r] :
       LET failed == ~ok \/ pc[r] = "sweepFailed"
           last == found[r] = {t}
       IN /\ tuples' = IF ok THEN tuples \ {t} ELSE tuples
          /\ found' = [found EXCEPT ![r] = @ \ {t}]
          /\ Goto(r, IF last THEN IF failed THEN "error" ELSE "ok"
                             ELSE IF failed THEN "sweepFailed" ELSE "sweep")
  /\ UNCHANGED <<tables, used, req>>

\* Keto does not answer, or the server dies between the two stores.
KetoFails(r) ==
  /\ KetoFaults
  /\ pc[r] \in {"grant", "list"}
  /\ Goto(r, "error")
  /\ UNCHANGED <<tables, tuples, used, req, found>>

\* The request is answered; its connection serves another.
Answer(r) ==
  /\ pc[r] \in Answered
  /\ req' = [req EXCEPT ![r] = NoRequest]
  /\ Goto(r, "idle")
  /\ UNCHANGED <<tables, tuples, used, found>>

-----------------------------------------------------------------------------
Next ==
  \E r \in Requests :
    \/ \E u \in Users : Create(r, u) \/ Bootstrap(r, u)
    \/ \E op \in {"add", "remove", "delete"}, by, who \in Users, w \in Ids, ro \in Roles :
         /\ op # "add" => ro = "owner"     \* not a parameter of the others
         /\ op = "delete" => who = by
         /\ Check(r, op, by, w, who, ro)
    \/ \E u \in Users, w \in Ids : ReadRole(r, u, w)
    \/ CountOwners(r) \/ AddMember(r) \/ DeleteMember(r) \/ DeleteWorkspace(r)
    \/ WriteTuple(r) \/ ListTuples(r) \/ KetoFails(r) \/ Answer(r)
    \/ \E ok \in BOOLEAN : DeleteTuple(r, ok)

Spec == Init /\ [][Next]_vars

-----------------------------------------------------------------------------
(* Properties *)

Labels == {"idle", "count", "add", "remove", "delete", "grant", "list", "sweep",
           "sweepFailed"} \cup Answered

RoleOrNone == Roles \cup {"none"}

\* Every variable holds a value of its type.
TypeOK ==
  /\ workspaces \subseteq Ids
  /\ role \in [Ids -> [Users -> RoleOrNone]]
  /\ deleted \subseteq Ids \X Users
  /\ tuples \subseteq Ids \X Relations \X Users
  /\ used \subseteq FreshIds
  /\ pc \in [Requests -> Labels]
  /\ req \in [Requests -> [op : AllOperations \cup {"none"}, by : Users \cup {Nobody},
                           ws : Ids \cup {Nobody}, who : Users \cup {Nobody},
                           role : RoleOrNone]]
  /\ found \in [Requests -> SUBSET (Ids \X Relations \X Users)]

HasAccess(w, u) == \E rel \in Relations : <<w, rel, u>> \in tuples

\* There is a row of the user, or there was one.
Known(w, u) == role[w][u] # "none" \/ <<w, u>> \in deleted

\* The row comes before the tuple: whatever calls fail and however requests
\* interleave, only a user whose row was deleted can have access without a row.
AccessNeedsRow ==
  \A w \in Ids, u \in Users : HasAccess(w, u) => Known(w, u)

\* A member has in Keto every permission that the role of the row gives, and whoever
\* has no row has no access.
Granted(w, u) ==
  /\ \A perm \in Permissions : role[w][u] \in Holders(perm) => KetoAllows(w, u, perm)
  /\ role[w][u] = "none" => ~HasAccess(w, u)

\* When requests come one at a time, the answer "ok" can be believed in one direction:
\* everybody the request was about can then do what the row says, and nothing without a
\* row, even if earlier requests have failed half-way.
OkMeansGranted ==
  [][\A r \in Requests :
       pc[r] # "ok" /\ pc'[r] = "ok" =>
         \A u \in Users : u = req'[r].who \/ req'[r].op = "delete" => Granted(req[r].ws, u)']_vars

\* A workspace that has no owner and to which no request is about to add anybody.
\* The id was generated, so no registration brings it back.
Ownerless(w) ==
  /\ w \in used
  /\ \A u \in Users : ~MayManage(w, u)
  /\ \A r \in Requests : req[r].ws = w => pc[r] \notin {"add", "grant"}

\* Only an owner gives access: to a workspace without one nobody gains access ever
\* after, whatever its members and strangers ask for.
OwnerlessIsFrozen ==
  [][\A w \in FreshIds : Ownerless(w) =>
       /\ Ownerless(w)'
       /\ \A u \in Users : HasAccess(w, u)' => HasAccess(w, u)]_vars

-----------------------------------------------------------------------------
(* What a comment of the code says, and the code does not do *)

\* The relations that Keto has of a user are those of the role in the row.
Agree(w, u) ==
  {rel \in Relations : <<w, rel, u>> \in tuples} =
    IF role[w][u] = "none" THEN {} ELSE {roleToRelation[role[w][u]]}

\* workspace_handlers.go:16-18: the rows and the tuples must agree; so they do when a
\* request that came alone has been answered "ok".
OkMeansAgreed ==
  [][\A r \in Requests :
       pc[r] # "ok" /\ pc'[r] = "ok" => Agree(req[r].ws, req[r].who)']_vars

=============================================================================
