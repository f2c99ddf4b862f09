---------------------------- MODULE Connections ----------------------------
(***************************************************************************)
(* The connections of users to one app through Composio: the handlers of   *)
(* composio_handlers.go, the client of connectors/composio and the store   *)
(* of connectors/composio/eino that finds the account of a user.           *)
(*                                                                         *)
(* The handlers call two services, and others write to both: Composio,     *)
(* where the users give their consent, and the table                       *)
(* user_installed_plugins, which the web application writes.  All calls    *)
(* are about one app; the table has one row for a user and an app.         *)
(***************************************************************************)
EXTENDS Naturals

CONSTANTS
  Users,      \* the callers
  Accounts,   \* the connected accounts Composio may hand out
  Empty,      \* the empty string: no account, no user, no status
  Requests    \* requests in progress

ASSUME EmptyAssumption ==
  Empty \notin Accounts \cup Users \cup {"PENDING", "ACTIVE", "FAILED"}

VARIABLES
  configs,      \* Composio: how many auth configs the toolkit has
  account,      \* Composio: the status of each account
  linkedBy,     \* Composio: the user each account was linked for
  conn,         \* composioConns: the local status of each account
  plugin,       \* user_installed_plugins: the row of each user
  request       \* each request: its step and what it has learnt

connVars == <<configs, account, linkedBy, conn, plugin, request>>

-----------------------------------------------------------------------------
Lifecycle == {"PENDING", "ACTIVE", "FAILED"}
NoRow == [account |-> Empty, status |-> "none"]
NoRequest == [step |-> "idle"]
NotConnected == [step |-> "not connected"]

ConnInit ==
  /\ configs = 0
  /\ account = [a \in Accounts |-> "absent"]
  /\ linkedBy = [a \in Accounts |-> Empty]
  /\ conn = [a \in Accounts |-> "none"]
  /\ plugin = [u \in Users |-> NoRow]
  /\ request = [r \in Requests |-> NoRequest]

Stage(r) == request[r].step
Proceed(r, rec) == request' = [request EXCEPT ![r] = rec]
Answer(r) == Proceed(r, NoRequest)

-----------------------------------------------------------------------------
(* composioCreateConnectionHandler *)

\* ResolveOrCreateAuthConfig: list, and create only if the list had none.
ListAuthConfigs(r, u) ==
  /\ Stage(r) = "idle"
  /\ Proceed(r, [step |-> IF configs > 0 THEN "config" ELSE "no config", user |-> u])
  /\ UNCHANGED <<configs, account, linkedBy, conn, plugin>>

\* The call may fail, before or after it took effect; the handler then answers 500.
CreateManagedAuthConfig(r) ==
  /\ Stage(r) = "no config"
  /\ \/ configs' = configs + 1 /\ Proceed(r, [request[r] EXCEPT !.step = "config"])
     \/ configs' \in {configs, configs + 1} /\ Answer(r)
  /\ UNCHANGED <<account, linkedBy, conn, plugin>>

\* LinkConnection: Composio hands out a new account for this user.
LinkConnection(r) ==
  /\ Stage(r) = "config"
  /\ \/ \E a \in Accounts :
          /\ account[a] = "absent"
          /\ account' = [account EXCEPT ![a] = "PENDING"]
          /\ linkedBy' = [linkedBy EXCEPT ![a] = request[r].user]
          /\ \/ Proceed(r, [step |-> "linked", account |-> a])
             \/ Answer(r)
     \/ Answer(r) /\ UNCHANGED <<account, linkedBy>>
  /\ UNCHANGED <<configs, conn, plugin>>

SetConn(r) ==
  /\ Stage(r) = "linked"
  /\ conn' = [conn EXCEPT ![request[r].account] = "PENDING"]
  /\ Answer(r)
  /\ UNCHANGED <<configs, account, linkedBy, plugin>>

-----------------------------------------------------------------------------
(* The other handlers take the id of the account from the client *)

\* Mutant: the status of Composio is passed on, one it has no name for as well.
GetConnectionRaw(r, a) ==
  /\ Stage(r) = "idle" /\ account[a] # "absent"
  /\ \E status \in {"FAILED", account[a]} :
       Proceed(r, [step |-> "polled", account |-> a, status |-> status])
  /\ UNCHANGED <<configs, account, linkedBy, conn, plugin>>

\* GetConnection: an auth error is a status FAILED, any other error ends the poll.
GetConnection(r, a) ==
  /\ Stage(r) = "idle"
  /\ \E status \in {"FAILED"} \cup ({account[a]} \cap Lifecycle) :
       Proceed(r, [step |-> "polled", account |-> a, status |-> status])
  /\ UNCHANGED <<configs, account, linkedBy, conn, plugin>>

\* composioPollHandler writes what it got, if the account is in the map by then.
PollConnection(r) ==
  /\ Stage(r) = "polled"
  /\ conn' = [conn EXCEPT ![request[r].account] =
                IF @ = "none" THEN "none" ELSE request[r].status]
  /\ Answer(r)
  /\ UNCHANGED <<configs, account, linkedBy, plugin>>

\* composioDeleteConnectionHandler: at Composio as far as it works, ...
DeleteConnection(r, a) ==
  /\ Stage(r) = "idle"
  /\ account[a] # "absent"
  /\ account' \in {account, [account EXCEPT ![a] = "deleted"]}
  /\ Proceed(r, [step |-> "deleted", account |-> a])
  /\ UNCHANGED <<configs, linkedBy, conn, plugin>>

\* ... and then here.
DeleteConn(r) ==
  /\ Stage(r) = "deleted"
  /\ conn' = [conn EXCEPT ![request[r].account] = "none"]
  /\ Answer(r)
  /\ UNCHANGED <<configs, account, linkedBy, plugin>>

\* composioUpdatePluginHandler keeps the status the client sends.
UpdatePlugin(a, status) ==
  /\ conn[a] # "none"
  /\ conn' = [conn EXCEPT ![a] = status]
  /\ UNCHANGED <<configs, account, linkedBy, plugin, request>>

-----------------------------------------------------------------------------
(* composioExecuteToolHandler *)

\* Mutant: the row is taken for the user's without looking.
AccountOfAnyone(row, owner, u) ==
  IF row.status = "ACTIVE" THEN row.account ELSE Empty

\* What RESTAccountStore.Resolve makes of the one row it was sent: a row without a user
\* is taken for the caller's, and one without a status for active.
AccountOf(row, owner, u) ==
  IF owner \in {u, Empty} /\ row.status \in {"ACTIVE", Empty} THEN row.account ELSE Empty

\* The query names the app, not the user, and asks for one row.
Resolvable(u) ==
  {AccountOf(plugin[v], v, u) : v \in {w \in Users : plugin[w] # NoRow}}
  \cup (IF \A v \in Users : plugin[v] = NoRow THEN {Empty} ELSE {})

ResolveAccount(r, u) ==
  /\ Stage(r) = "idle"
  /\ \E a \in Resolvable(u) :
       Proceed(r, IF a = Empty THEN NotConnected
                ELSE [step |-> "execute", user |-> u, account |-> a])
  /\ UNCHANGED <<configs, account, linkedBy, conn, plugin>>

\* Composio runs the action on the account, or answers with an error: either way the
\* request ends.
ExecuteTool(r) ==
  /\ Stage(r) \in {"execute", "not connected"}
  /\ Answer(r)
  /\ UNCHANGED <<configs, account, linkedBy, conn, plugin>>

-----------------------------------------------------------------------------
(* The users, at Composio and in the web application *)

Consent(a) ==
  /\ account[a] = "PENDING"
  /\ \E status \in {"ACTIVE", "FAILED"} : account' = [account EXCEPT ![a] = status]
  /\ UNCHANGED <<configs, linkedBy, conn, plugin, request>>

\* The web application, which is the only writer of the table, saves the user and the
\* status with the account.
SavePlugin(a) ==
  /\ account[a] \in Lifecycle
  /\ plugin' = [plugin EXCEPT ![linkedBy[a]] = [account |-> a, status |-> account[a]]]
  /\ UNCHANGED <<configs, account, linkedBy, conn, request>>

RemovePlugin(u) ==
  /\ plugin[u] # NoRow
  /\ plugin' = [plugin EXCEPT ![u] = NoRow]
  /\ UNCHANGED <<configs, account, linkedBy, conn, request>>

ConnNext ==
  \/ \E r \in Requests :
       \/ \E u \in Users : ListAuthConfigs(r, u) \/ ResolveAccount(r, u)
       \/ \E a \in Accounts : GetConnection(r, a) \/ DeleteConnection(r, a)
       \/ CreateManagedAuthConfig(r) \/ LinkConnection(r) \/ SetConn(r)
       \/ PollConnection(r) \/ DeleteConn(r) \/ ExecuteTool(r)
  \/ \E a \in Accounts :
       \/ Consent(a) \/ SavePlugin(a)
       \/ \E status \in Lifecycle : UpdatePlugin(a, status)
  \/ \E u \in Users : RemovePlugin(u)

ConnSpec == ConnInit /\ [][ConnNext]_connVars

-----------------------------------------------------------------------------
ConnTypeOK ==
  /\ configs \in Nat
  /\ account \in [Accounts -> Lifecycle \cup {"absent", "deleted"}]
  /\ linkedBy \in [Accounts -> Users \cup {Empty}]
  /\ conn \in [Accounts -> Lifecycle \cup {"none"}]
  /\ plugin \in [Users -> {NoRow} \cup [account : Accounts, status : Lifecycle]]
  /\ request \in [Requests -> {NoRequest, NotConnected}
       \cup [step : {"config", "no config"}, user : Users]
       \cup [step : {"linked", "deleted"}, account : Accounts]
       \cup [step : {"polled"}, account : Accounts, status : Lifecycle]
       \cup [step : {"execute"}, user : Users, account : Accounts]]

\* An action is executed only on an account that was linked for the user who asks, and
\* only if he had given his consent (the promise of composioExecuteToolHandler and the
\* check of the row in RESTAccountStore.Resolve).  It rests on SavePlugin: a row that
\* lacks its user would be taken for anybody's.
AccountIsMine ==
  \A r \in Requests :
    Stage(r) = "execute" =>
      /\ linkedBy[request[r].account] = request[r].user
      /\ account[request[r].account] \in {"ACTIVE", "deleted"}

\* connectors/composio/eino/adapter.go says of Resolve that it returns the empty id
\* "when the user has no active connection for this app".
OwnConnectionFound ==
  [][\A r \in Requests, u \in Users :
       ResolveAccount(r, u) /\ request'[r] = NotConnected =>
         plugin[u].status # "ACTIVE"]_connVars

=============================================================================
