----------------------------- MODULE McpManager -----------------------------
(***************************************************************************)
(* The MCP connection manager of mcp/manager.go: the table of server       *)
(* connections, the goroutines of LoadFromConfig that fill it, concurrent  *)
(* CallTool calls that replace a connection whose session the server has   *)
(* lost, and Close.                                                        *)
(*                                                                         *)
(* A region between Lock and Unlock of Manager.mu is one step; RLock is    *)
(* held across steps, because Close sets `closed` and waits on the         *)
(* WaitGroup without holding the lock.                                     *)
(***************************************************************************)
EXTENDS Naturals, FiniteSets

CONSTANTS
  Servers,    \* names of the enabled servers of the configuration
  Calls,      \* CallTool calls
  Conns,      \* connections that connectServer may make
  None,       \* no connection
  MaxLosses   \* bound on the sessions the servers lose

ASSUME NoneAssumption == None \notin Conns
ASSUME BoundAssumption == MaxLosses \in Nat
ASSUME CallsAssumption == IsFiniteSet(Calls)

VARIABLES
  servers,   \* Manager.servers: the connection of each server, or None
  session,   \* the session of each connection
  closed,    \* Manager.closed
  closing,   \* how far Close has come
  load,      \* how far the LoadFromConfig goroutine of each server has come
  dialed,    \* the connection that goroutine has made
  pc,        \* the next step of each call
  target,    \* the server each call names
  conn,      \* its variable conn, then reconnectedConn
  fresh,     \* its variable freshConn
  losses     \* sessions lost so far

callVars == <<pc, target, conn, fresh>>
loadVars == <<load, dialed>>
vars == <<servers, session, closed, closing, loadVars, callVars, losses>>

-----------------------------------------------------------------------------
\* A session is lost when the server has forgotten it and the client does not
\* know yet.
SessionStates == {"unused", "open", "lost", "closed"}

Over == {"ok", "error", "refused"}

\* Calls counted by Manager.wg: registered, and not yet returned.
Counted == {c \in Calls : pc[c] \notin {"idle", "begin", "locked"} \cup Over}

\* Calls that hold the reconnectMu of connection k.
Holding(k) == {c \in Calls : /\ pc[c] \in {"compare", "connect", "install",
                                           "closeStale"}
                             /\ conn[c] = k}

\* Calls that hold Manager.mu for reading.
Readers == {c \in Calls : pc[c] = "locked"}

\* The connection that is made next, if the bound on connections leaves one.  Which
\* of the unused ones it is makes no difference.
NextConn ==
  LET unused == {k \in Conns : session[k] = "unused"}
  IN IF unused = {} THEN {} ELSE {CHOOSE k \in unused : TRUE}

\* The last counted call that returns wakes Close.
Finish(c, outcome) ==
  /\ pc' = [pc EXCEPT ![c] = outcome]
  /\ closing' = IF closing = "waiting" /\ Counted = {c} THEN "woken" ELSE closing

Goto(c, label) ==
  /\ pc' = [pc EXCEPT ![c] = label]
  /\ UNCHANGED closing

Init ==
  /\ servers = [s \in Servers |-> None]
  /\ session = [k \in Conns |-> "unused"]
  /\ closed = FALSE
  /\ closing = "no"
  /\ load = [s \in Servers |-> "dialing"]
  /\ dialed = [s \in Servers |-> None]
  /\ pc = [c \in Calls |-> "idle"]
  /\ target \in [Calls -> Servers]
  /\ conn = [c \in Calls |-> None]
  /\ fresh = [c \in Calls |-> None]
  /\ losses = 0

-----------------------------------------------------------------------------
(* LoadFromConfig: one goroutine per server runs ConnectServer *)

\* connectServer fails, or makes a connection before the lock is taken.
Dial(s) ==
  /\ load[s] = "dialing"
  /\ \/ /\ load' = [load EXCEPT ![s] = "failed"]
        /\ UNCHANGED <<session, dialed>>
     \/ \E k \in NextConn :
          /\ session' = [session EXCEPT ![k] = "open"]
          /\ dialed' = [dialed EXCEPT ![s] = k]
          /\ load' = [load EXCEPT ![s] = "dialed"]
  /\ UNCHANGED <<servers, closed, closing, callVars, losses>>

\* Mutant: a closed manager returns early and forgets the session.
RegisterForgets(s) ==
  /\ load[s] = "dialed" /\ Readers = {}
  /\ IF closed
     THEN /\ load' = [load EXCEPT ![s] = "failed"]
          /\ UNCHANGED servers
     ELSE /\ servers' = [servers EXCEPT ![s] = dialed[s]]
          /\ load' = [load EXCEPT ![s] = "connected"]
  /\ dialed' = [dialed EXCEPT ![s] = None]
  /\ UNCHANGED <<session, closed, closing, callVars, losses>>

\* The locked region of ConnectServer.
Register(s) ==
  /\ load[s] = "dialed" /\ Readers = {}
  /\ IF closed
     THEN /\ session' = [session EXCEPT ![dialed[s]] = "closed"]
          /\ load' = [load EXCEPT ![s] = "failed"]
          /\ UNCHANGED servers
     ELSE /\ servers' = [servers EXCEPT ![s] = dialed[s]]
          /\ load' = [load EXCEPT ![s] = "connected"]
          /\ UNCHANGED session
  /\ dialed' = [dialed EXCEPT ![s] = None]
  /\ UNCHANGED <<closed, closing, callVars, losses>>

-----------------------------------------------------------------------------
(* CallTool *)

\* The first look at closed, before the lock.
Begin(c) ==
  /\ pc[c] = "idle"
  /\ Goto(c, IF closed THEN "refused" ELSE "begin")
  /\ UNCHANGED <<servers, session, closed, loadVars, target, conn, fresh, losses>>

\* RLock and the second look at closed.
ReadLock(c) ==
  /\ pc[c] = "begin"
  /\ Goto(c, IF closed THEN "refused" ELSE "locked")
  /\ UNCHANGED <<servers, session, closed, loadVars, target, conn, fresh, losses>>

\* Mutant: a server that is not in the table is called all the same.
LookUpUnchecked(c) ==
  /\ pc[c] = "locked"
  /\ conn' = [conn EXCEPT ![c] = servers[target[c]]]
  /\ Goto(c, "call")
  /\ UNCHANGED <<servers, session, closed, loadVars, target, fresh, losses>>

\* The lookup, wg.Add(1) and RUnlock.
LookUp(c) ==
  /\ pc[c] = "locked"
  /\ conn' = [conn EXCEPT ![c] = servers[target[c]]]
  /\ Goto(c, IF servers[target[c]] = None THEN "refused" ELSE "call")
  /\ UNCHANGED <<servers, session, closed, loadVars, target, fresh, losses>>

\* Session.CallTool.  Only a lost session leads to a reconnection.
Call(c) ==
  /\ pc[c] = "call"
  /\ \/ session[conn[c]] = "open" /\ Finish(c, "ok")
     \/ session[conn[c]] # "lost" /\ Finish(c, "error")
     \/ session[conn[c]] = "lost" /\ Goto(c, "reconnect")
  /\ UNCHANGED <<servers, session, closed, loadVars, target, conn, fresh, losses>>

\* Mutant: the call is repeated until it succeeds.
RetryUntilOk(c) ==
  /\ pc[c] = "retry"
  /\ session[conn[c]] = "open"
  /\ Finish(c, "ok")
  /\ UNCHANGED <<servers, session, closed, loadVars, target, conn, fresh, losses>>

\* The second and last try, on the connection reconnectServer returned.
Retry(c) ==
  /\ pc[c] = "retry"
  /\ \/ session[conn[c]] = "open" /\ Finish(c, "ok")
     \/ Finish(c, "error")
  /\ UNCHANGED <<servers, session, closed, loadVars, target, conn, fresh, losses>>

-----------------------------------------------------------------------------
(* reconnectServer, with conn[c] as staleConn *)

\* Mutant: reconnectMu is not taken.
LockNothing(c) ==
  /\ pc[c] = "reconnect"
  /\ IF closed THEN Finish(c, "error") ELSE Goto(c, "compare")
  /\ UNCHANGED <<servers, session, closed, loadVars, target, conn, fresh, losses>>

\* staleConn.reconnectMu.Lock and the look at closed.
LockStale(c) ==
  /\ pc[c] = "reconnect" /\ Holding(conn[c]) = {}
  /\ IF closed THEN Finish(c, "error") ELSE Goto(c, "compare")
  /\ UNCHANGED <<servers, session, closed, loadVars, target, conn, fresh, losses>>

\* Mutant: the stale session is closed before another is made.
CompareAndClose(c) ==
  /\ pc[c] = "compare"
  /\ servers[target[c]] = conn[c]
  /\ session' = [session EXCEPT ![conn[c]] = "closed"]
  /\ Goto(c, "connect")
  /\ UNCHANGED <<servers, closed, loadVars, target, conn, fresh, losses>>

\* The table under RLock: gone, replaced by another call already, or still stale.
Compare(c) ==
  /\ pc[c] = "compare"
  /\ LET current == servers[target[c]] IN
     \/ /\ current = None
        /\ Finish(c, "error")
        /\ UNCHANGED conn
     \/ /\ current \notin {None, conn[c]}
        /\ conn' = [conn EXCEPT ![c] = current]
        /\ Goto(c, "retry")
     \/ /\ current = conn[c] /\ current # None
        /\ Goto(c, "connect")
        /\ UNCHANGED conn
  /\ UNCHANGED <<servers, session, closed, loadVars, target, fresh, losses>>

\* connectServer, without the lock.
Connect(c) ==
  /\ pc[c] = "connect"
  /\ \/ /\ Finish(c, "error")
        /\ UNCHANGED <<session, fresh>>
     \/ \E k \in NextConn :
          /\ session' = [session EXCEPT ![k] = "open"]
          /\ fresh' = [fresh EXCEPT ![c] = k]
          /\ Goto(c, "install")
  /\ UNCHANGED <<servers, closed, loadVars, target, conn, losses>>

\* The locked region that swaps the connection.  Otherwise the fresh session is
\* closed, which only this call can see, and the call fails or goes on with the
\* connection it found.  The stale session is closed after Unlock.
Install(c) ==
  /\ pc[c] = "install" /\ Readers = {}
  /\ LET current == servers[target[c]] IN
     IF ~closed /\ current = conn[c]
     THEN /\ servers' = [servers EXCEPT ![target[c]] = fresh[c]]
          /\ Goto(c, "closeStale")
          /\ UNCHANGED <<session, conn, fresh>>
     ELSE LET failed == closed \/ current = None IN
          /\ session' = [session EXCEPT ![fresh[c]] = "closed"]
          /\ fresh' = [fresh EXCEPT ![c] = None]
          /\ conn' = [conn EXCEPT ![c] = IF failed THEN @ ELSE current]
          /\ IF failed THEN Finish(c, "error") ELSE Goto(c, "retry")
          /\ UNCHANGED servers
  /\ UNCHANGED <<closed, loadVars, target, losses>>

\* The stale session is closed and the fresh connection returned.
CloseStale(c) ==
  /\ pc[c] = "closeStale"
  /\ session' = [session EXCEPT ![conn[c]] = "closed"]
  /\ conn' = [conn EXCEPT ![c] = fresh[c]]
  /\ fresh' = [fresh EXCEPT ![c] = None]
  /\ Goto(c, "retry")
  /\ UNCHANGED <<servers, closed, loadVars, target, losses>>

-----------------------------------------------------------------------------
(* Close *)

\* closed.Swap(true), then wg.Wait goes on at once or sleeps.
CloseSwap ==
  /\ closing = "no"
  /\ closed' = TRUE
  /\ closing' = IF Counted = {} THEN "draining" ELSE "waiting"
  /\ UNCHANGED <<servers, session, loadVars, callVars, losses>>

\* A woken WaitGroup.Wait panics when a call has been added meanwhile.
CloseResume ==
  /\ closing = "woken"
  /\ closing' = IF Counted = {} THEN "draining" ELSE "panicked"
  /\ UNCHANGED <<servers, session, closed, loadVars, callVars, losses>>

\* The locked region: every session of the table is closed, the table emptied.
CloseAll ==
  /\ closing = "draining" /\ Readers = {}
  /\ session' = [k \in Conns |-> IF \E s \in Servers : servers[s] = k
                                 THEN "closed" ELSE session[k]]
  /\ servers' = [s \in Servers |-> None]
  /\ closing' = "returned"
  /\ UNCHANGED <<closed, loadVars, callVars, losses>>

\* A server forgets a session.
LoseSession(k) ==
  /\ losses < MaxLosses
  /\ session[k] = "open"
  /\ session' = [session EXCEPT ![k] = "lost"]
  /\ losses' = losses + 1
  /\ UNCHANGED <<servers, closed, closing, loadVars, callVars>>

-----------------------------------------------------------------------------
CallStep(c) ==
  \/ Begin(c) \/ ReadLock(c) \/ LookUp(c) \/ Call(c) \/ Retry(c)
  \/ LockStale(c) \/ Compare(c) \/ Connect(c) \/ Install(c)
  \/ CloseStale(c)

LoadStep(s) == Dial(s) \/ Register(s)

CloseStep == CloseSwap \/ CloseResume \/ CloseAll

Next ==
  \/ \E c \in Calls : CallStep(c)
  \/ \E s \in Servers : LoadStep(s)
  \/ \E k \in Conns : LoseSession(k)
  \/ CloseStep

Spec == Init /\ [][Next]_vars

\* Goroutines run and the network answers or fails, so a step that stays possible
\* is taken; a call need not be made, a session need not be lost and nobody has
\* to call Close.  A waiter for reconnectMu gets it again and again free (strong
\* fairness, as sync.Mutex hands over to a starving waiter).
Fairness ==
  /\ \A c \in Calls : WF_vars(CallStep(c) /\ pc[c] # "idle") /\ SF_vars(LockStale(c))
                      /\ SF_vars(Install(c))
  /\ \A s \in Servers : WF_vars(Dial(s)) /\ SF_vars(Register(s))
  /\ WF_vars(CloseResume) /\ SF_vars(CloseAll)

FairSpec == Spec /\ Fairness

-----------------------------------------------------------------------------
(* Properties *)

Labels == {"idle", "begin", "locked", "call", "retry", "reconnect", "compare", "connect",
           "install", "closeStale"} \cup Over

\* Every variable holds a value of its type, and a call that is counted has a
\* connection to call.
TypeOK ==
  /\ servers \in [Servers -> Conns \cup {None}]
  /\ session \in [Conns -> SessionStates]
  /\ closed \in BOOLEAN
  /\ closing \in {"no", "waiting", "woken", "draining", "returned", "panicked"}
  /\ load \in [Servers -> {"dialing", "dialed", "connected", "failed"}]
  /\ dialed \in [Servers -> Conns \cup {None}]
  /\ pc \in [Calls -> Labels]
  /\ target \in [Calls -> Servers]
  /\ conn \in [Calls -> Conns \cup {None}]
  /\ fresh \in [Calls -> Conns \cup {None}]
  /\ losses \in Nat
  /\ \A c \in Counted : conn[c] # None

\* The goroutines that have a session in hand which they will register or close.
InHand(k) ==
  \/ \E s \in Servers : load[s] = "dialed" /\ dialed[s] = k
  \/ \E c \in Calls : pc[c] = "install" /\ fresh[c] = k
  \/ \E c \in Calls : pc[c] = "closeStale" /\ conn[c] = k

InTable(k) == \E s \in Servers : servers[s] = k

\* No session leaks: one that is not closed is in the table or in the hands of a
\* goroutine that will close or register it, whatever order reconnections,
\* loading and Close come in.
SessionsOwned ==
  \A k \in Conns : session[k] \in {"open", "lost"} => InTable(k) \/ InHand(k)

\* A connection that calls can still find is never one that was closed, and nothing
\* comes back into the table once Close has emptied it, however late a server answers.
TableIsLive ==
  \A s \in Servers : servers[s] # None =>
    session[servers[s]] \in {"open", "lost"} /\ closing # "returned"

\* However many calls find the session of a server lost, one of them at a time
\* connects to the server again.
SingleReconnect ==
  \A c, d \in Calls :
    /\ c # d /\ target[c] = target[d]
    /\ pc[c] \in {"connect", "install"} /\ pc[d] \in {"connect", "install"}
    => conn[c] # conn[d] /\ \E e \in {c, d} : servers[target[e]] # conn[e]

\* A call that CallTool has admitted comes to an end, and Close does not wait for
\* ever: the calls it waits for end, new ones are refused.
CallsAndCloseEnd ==
  /\ \A c \in Calls : pc[c] = "begin" ~> pc[c] \in Over
  /\ closing \in {"waiting", "draining"} ~> closing \in {"returned", "panicked"}

-----------------------------------------------------------------------------
(* What a comment of the code says, and the code does not do *)

\* manager.go: Close closes all server connections.
CloseGoesThrough == closing # "panicked"

=============================================================================
